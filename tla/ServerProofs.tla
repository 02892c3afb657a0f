---------------------------- MODULE ServerProofs ----------------------------
(***************************************************************************)
(* Proofs about ServerProcess, for any number of signals, coins, clients   *)
(* and runs.                                                               *)
(*                                                                         *)
(* None of the safety properties is inductive by itself: they hold because *)
(* of the order in which a shutdown takes things down, which ShutdownOrder *)
(* records, because requests need a connection (ClientsKnown), and because *)
(* a coin with an event is a coin the simulator knows (EventsKnown).  The  *)
(* invariant is their conjunction with the types.                          *)
(***************************************************************************)
EXTENDS ServerProcess, TLAPS

(* Before the first signal nothing has been taken down; a shutdown that    *)
(* drains has closed its listener; a server that closes has cleared the    *)
(* timers of its game workers, and has its pool until it is closed; and    *)
(* the fallback timer is set from the first signal to the end.             *)
ShutdownOrder ==
  /\ ~ Shutting => pool = "open" /\ ~ Closing
  /\ \A s \in Signals : down[s] = "draining" => Closing
  /\ Closing => "cycle" \notin timers /\ "bot" \notin timers
  /\ Closing /\ pool = "ending" => http = "closed"
  /\ Shutting /\ exit = None => "force" \in timers

(* A request comes on a connection, and a closed listener has none.        *)
ClientsKnown ==
  /\ requests > 0 => connections > 0
  /\ http = "closed" => connections = 0

(* A coin whose event is pending is in coinEvents.                         *)
EventsKnown == \A c \in Coins : events[c] > 0 => c \in known

ServerInvariant ==
  ServerTypeOK /\ ShutdownOrder /\ ClientsKnown /\ EventsKnown /\ OneEventPerCoin

-----------------------------------------------------------------------------

(* What begins runs leaves their counts typed: a worker at its limit, and  *)
(* the bot worker while it has a run in flight, begins none.               *)
LEMMA RunningTyped ==
  ASSUME work \in [Workers -> 0 .. MaxWork], work["bot"] <= 1,
         NEW ws, Running(ws)
  PROVE  work' \in [Workers -> 0 .. MaxWork] /\ work'["bot"] <= 1
<1>1. work' \in [Workers -> 0 .. MaxWork]
  <2>1. ASSUME NEW w \in Workers
        PROVE  (IF w \in ws /\ MayRun(w) THEN work[w] + 1 ELSE work[w]) \in 0 .. MaxWork
    BY ServerAssumption DEF MayRun, Workers
  <2> QED
    BY <2>1 DEF Running
<1>2. work'["bot"] <= 1
  BY ServerAssumption DEF Running, MayRun, Workers
<1> QED
  BY <1>1, <1>2

(* Only the workers asked begin a run.                                     *)
LEMMA RunningOnly ==
  ASSUME NEW ws, Running(ws), NEW w \in Workers \ ws
  PROVE  work'[w] = work[w]
BY DEF Running

(* A process that starts is typed.                                         *)
LEMMA ServerTypeInit == ServerInit => ServerTypeOK
<1> SUFFICES ASSUME ServerInit PROVE ServerTypeOK
  OBVIOUS
<1> USE ServerAssumption
<1>1. work \in [Workers -> 0 .. MaxWork] /\ work["bot"] <= 1
  BY DEF ServerInit, Workers
<1>2. /\ connections \in 0 .. MaxRequests /\ requests \in 0 .. MaxRequests
      /\ loading \in 0 .. MaxWork
      /\ events \in [Coins -> Nat]
      /\ down \in [Signals -> {"none", "sharing", "draining", "ending"}]
  BY DEF ServerInit
<1> QED
  BY <1>1, <1>2 DEF ServerInit, ServerTypeOK

(* Every turn of the event loop keeps the types.                           *)
LEMMA ServerTypeStep == ServerTypeOK /\ [ServerNext]_serverVars => ServerTypeOK'
<1> SUFFICES ASSUME ServerTypeOK, [ServerNext]_serverVars PROVE ServerTypeOK'
  OBVIOUS
<1> USE ServerAssumption
<1>1. CASE UNCHANGED serverVars
  BY <1>1 DEF ServerTypeOK, serverVars, simVars, clients
<1>2. CASE Listen
  BY <1>2, RunningTyped DEF Listen, ServerTypeOK, simVars, clients, Workers
<1>3. CASE FailStart
  BY <1>3 DEF FailStart, ServerTypeOK, simVars, clients
<1>4. CASE Connect \/ AcceptRequest
  BY <1>4 DEF Connect, AcceptRequest, ServerTypeOK, simVars, clients
<1>5. CASE EndRequest \/ Disconnect
  BY <1>5 DEF EndRequest, Disconnect, ServerTypeOK, simVars, clients
<1>6. ASSUME NEW w \in Workers, RunWorker(w) PROVE ServerTypeOK'
  BY <1>6, RunningTyped DEF RunWorker, ServerTypeOK, simVars, clients
<1>7. ASSUME NEW w \in Workers, EndRun(w) PROVE ServerTypeOK'
  BY <1>7 DEF EndRun, ServerTypeOK, simVars, clients, Workers
<1>8. CASE InitializeCoinVolatility
  BY <1>8 DEF InitializeCoinVolatility, ServerTypeOK, clients
<1>9. CASE StartPriceUpdates
  BY <1>9, RunningTyped DEF StartPriceUpdates, ServerTypeOK, Workers, clients
<1>10. CASE FailSimulator
  BY <1>10 DEF FailSimulator, ServerTypeOK, clients
<1>11. CASE StartNewMarketCycle
  BY <1>11 DEF StartNewMarketCycle, ServerTypeOK, clients
<1>12. CASE InitializeCoinEvents
  BY <1>12 DEF InitializeCoinEvents, ServerTypeOK, clients
<1>13. ASSUME NEW c \in Coins, StartNewCoinEvent(c) PROVE ServerTypeOK'
  BY <1>13 DEF StartNewCoinEvent, ServerTypeOK, clients
<1>14. ASSUME NEW s \in Signals, HandleSignal(s) PROVE ServerTypeOK'
  BY <1>14 DEF HandleSignal, ServerTypeOK, clients
<1>15. ASSUME NEW s \in Signals, CloseServer(s) PROVE ServerTypeOK'
  BY <1>15 DEF CloseServer, ServerTypeOK, simVars, clients
<1>16. ASSUME NEW s \in Signals, EndPool(s) PROVE ServerTypeOK'
  BY <1>16 DEF EndPool, ServerTypeOK, simVars, clients
<1>17. CASE ForceExit \/ CrashOnCoinEvents
  BY <1>17 DEF ForceExit, CrashOnCoinEvents, ServerTypeOK, simVars, clients
<1> QED
  BY <1>1, <1>2, <1>3, <1>4, <1>5, <1>6, <1>7, <1>8, <1>9, <1>10, <1>11,
     <1>12, <1>13, <1>14, <1>15, <1>16, <1>17 DEF ServerNext

(* A step either leaves the shutdown where it is, the listener not newly   *)
(* closing and no new signal handled; or it is one of the three actions    *)
(* that move it.                                                           *)
LEMMA ShutdownSteps ==
  ASSUME [ServerNext]_serverVars
  PROVE  \/ /\ UNCHANGED <<http, down, pool>>
            /\ exit' # None \/ exit' = exit
            /\ timers \ {"market"} \subseteq timers' \/ exit' # None
            /\ timers' \subseteq timers \cup {"prices", "market"}
         \/ Listen
         \/ \E s \in Signals : HandleSignal(s) \/ CloseServer(s)
<1> SUFFICES ASSUME ~ Listen, \A s \in Signals : ~ HandleSignal(s) /\ ~ CloseServer(s)
             PROVE  /\ UNCHANGED <<http, down, pool>>
                    /\ exit' # None \/ exit' = exit
                    /\ timers \ {"market"} \subseteq timers' \/ exit' # None
                    /\ timers' \subseteq timers \cup {"prices", "market"}
  OBVIOUS
<1> USE DEF None
<1>1. CASE UNCHANGED serverVars
  BY <1>1 DEF serverVars
<1>2. CASE \/ FailStart \/ Connect \/ AcceptRequest \/ EndRequest \/ Disconnect
           \/ ForceExit \/ CrashOnCoinEvents
  BY <1>2 DEF FailStart, Connect, AcceptRequest, EndRequest, Disconnect, ForceExit,
              CrashOnCoinEvents
<1>3. CASE \E w \in Workers : RunWorker(w) \/ EndRun(w)
  BY <1>3 DEF RunWorker, EndRun
<1>4. CASE \/ InitializeCoinVolatility \/ StartPriceUpdates \/ FailSimulator
           \/ StartNewMarketCycle \/ InitializeCoinEvents
           \/ \E c \in Coins : StartNewCoinEvent(c)
  BY <1>4 DEF InitializeCoinVolatility, StartPriceUpdates, FailSimulator,
              StartNewMarketCycle, InitializeCoinEvents, StartNewCoinEvent
<1>5. CASE \E s \in Signals : EndPool(s)
  BY <1>5 DEF EndPool
<1> QED
  BY <1>1, <1>2, <1>3, <1>4, <1>5 DEF ServerNext

(* The order of a shutdown outlives every step.                            *)
LEMMA ShutdownOrderStep ==
  ServerTypeOK /\ ShutdownOrder /\ [ServerNext]_serverVars => ShutdownOrder'
<1> SUFFICES ASSUME ServerTypeOK, ShutdownOrder, [ServerNext]_serverVars
             PROVE  ShutdownOrder'
  OBVIOUS
<1>1. CASE /\ UNCHANGED <<http, down, pool>>
           /\ exit' # None \/ exit' = exit
           /\ timers \ {"market"} \subseteq timers' \/ exit' # None
           /\ timers' \subseteq timers \cup {"prices", "market"}
  BY <1>1 DEF ShutdownOrder, Shutting, Closing
<1>2. CASE Listen
  BY <1>2 DEF Listen, ShutdownOrder, Shutting, Closing
<1>3. ASSUME NEW s \in Signals, HandleSignal(s) PROVE ShutdownOrder'
  <2>1. Shutting'
    BY <1>3 DEF HandleSignal, Shutting, ServerTypeOK
  <2>2. CASE FirstCall
    BY <1>3, <2>1, <2>2
       DEF HandleSignal, FirstCall, Shutting, ShutdownOrder, Closing, Stopped,
           ServerTypeOK
  <2>3. CASE ~ FirstCall
    BY <1>3, <2>1, <2>3
       DEF HandleSignal, FirstCall, Shutting, ShutdownOrder, Closing, ServerTypeOK
  <2> QED
    BY <2>2, <2>3
<1>4. ASSUME NEW s \in Signals, CloseServer(s) PROVE ShutdownOrder'
  <2>1. Shutting' /\ Closing' /\ Closing /\ Shutting
    BY <1>4 DEF CloseServer, Shutting, Closing, ShutdownOrder, ServerTypeOK
  <2> QED
    BY <1>4, <2>1 DEF CloseServer, ShutdownOrder
<1> QED
  BY <1>1, <1>2, <1>3, <1>4, ShutdownSteps

(* Requests keep to connections: the last connection to close takes what   *)
(* it carried along, and the listener is closed when none is left.         *)
LEMMA ClientsStep ==
  ASSUME ServerTypeOK, ClientsKnown, [ServerNext]_serverVars
  PROVE  ClientsKnown'
<1> USE ServerAssumption
<1>1. connections \in Nat /\ requests \in Nat
  BY DEF ServerTypeOK
<1>2. CASE UNCHANGED clients /\ (http' = "closed" => http = "closed")
  BY <1>2 DEF ClientsKnown, clients
<1>3. CASE Connect \/ AcceptRequest \/ EndRequest
  BY <1>1, <1>3 DEF Connect, AcceptRequest, EndRequest, ClientsKnown
<1>4. CASE Disconnect
  <2>1. connections' = connections - 1 /\ http' = http /\ connections > 0
    BY <1>4 DEF Disconnect
  <2>2. requests' \in 0 .. requests /\ (connections = 1 => requests' = 0)
    BY <1>4 DEF Disconnect
  <2> QED
    BY <1>1, <2>1, <2>2 DEF ClientsKnown
<1>5. ASSUME NEW s \in Signals, CloseServer(s) PROVE ClientsKnown'
  BY <1>5 DEF CloseServer, ClientsKnown, clients
<1>6. CASE UNCHANGED serverVars
  BY <1>2, <1>6 DEF serverVars
<1>7. CASE \/ Listen \/ FailStart \/ ForceExit \/ CrashOnCoinEvents
           \/ \E w \in Workers : RunWorker(w) \/ EndRun(w)
  BY <1>2, <1>7 DEF Listen, FailStart, ForceExit, CrashOnCoinEvents, RunWorker, EndRun
<1>8. CASE \/ InitializeCoinVolatility \/ StartPriceUpdates \/ FailSimulator
           \/ StartNewMarketCycle \/ InitializeCoinEvents
           \/ \E c \in Coins : StartNewCoinEvent(c)
  BY <1>2, <1>8 DEF InitializeCoinVolatility, StartPriceUpdates, FailSimulator,
                    StartNewMarketCycle, InitializeCoinEvents, StartNewCoinEvent
<1>9. CASE \E s \in Signals : HandleSignal(s) \/ EndPool(s)
  BY <1>2, <1>9 DEF HandleSignal, EndPool
<1> QED
  BY <1>3, <1>4, <1>5, <1>6, <1>7, <1>8, <1>9 DEF ServerNext

-----------------------------------------------------------------------------
(* One chain of events for a coin: a listing begins one only for coins it  *)
(* does not know yet, and those have none.                                 *)
LEMMA EventsStep ==
  ASSUME ServerTypeOK, EventsKnown, OneEventPerCoin, [ServerNext]_serverVars
  PROVE  EventsKnown' /\ OneEventPerCoin'
<1>1. CASE UNCHANGED <<events, known>>
  BY <1>1 DEF EventsKnown, OneEventPerCoin
<1>2. CASE InitializeCoinEvents
  <2>1. CASE UNCHANGED <<events, known>>
    BY <1>1, <2>1
  <2>2. CASE /\ events' = [c \in Coins |-> events[c] + IF c \in Eventless THEN 1 ELSE 0]
             /\ known' = Coins
    <3>1. EventsKnown'
      BY <2>2 DEF EventsKnown
    <3>2. ASSUME NEW c \in Coins PROVE events'[c] <= 1
      <4>1. CASE c \in Eventless
        <5>1. events[c] = 0
          BY <4>1 DEF Eventless, EventsKnown, ServerTypeOK
        <5> QED
          BY <2>2, <4>1, <5>1
      <4>2. CASE c \notin Eventless
        BY <2>2, <4>2 DEF OneEventPerCoin, ServerTypeOK
      <4> QED
        BY <4>1, <4>2
    <3> QED
      BY <3>1, <3>2 DEF OneEventPerCoin
  <2> QED
    BY <1>2, <2>1, <2>2 DEF InitializeCoinEvents
<1>3. ASSUME NEW d \in Coins, StartNewCoinEvent(d) PROVE EventsKnown' /\ OneEventPerCoin'
  BY <1>3 DEF StartNewCoinEvent, EventsKnown, OneEventPerCoin, ServerTypeOK
<1>4. CASE UNCHANGED serverVars
  BY <1>1, <1>4 DEF serverVars, simVars
<1>5. CASE \/ Listen \/ FailStart \/ Connect \/ AcceptRequest \/ EndRequest
           \/ Disconnect \/ \E w \in Workers : RunWorker(w) \/ EndRun(w)
  BY <1>1, <1>5
     DEF Listen, FailStart, Connect, AcceptRequest, EndRequest, Disconnect, RunWorker,
         EndRun, simVars
<1>6. CASE \/ InitializeCoinVolatility \/ StartPriceUpdates \/ FailSimulator
           \/ StartNewMarketCycle
  BY <1>1, <1>6 DEF InitializeCoinVolatility, StartPriceUpdates, FailSimulator,
                    StartNewMarketCycle
<1>7. CASE \/ \E s \in Signals : HandleSignal(s) \/ CloseServer(s) \/ EndPool(s)
           \/ ForceExit \/ CrashOnCoinEvents
  BY <1>1, <1>7
     DEF HandleSignal, CloseServer, EndPool, ForceExit, CrashOnCoinEvents, simVars
<1> QED
  BY <1>2, <1>3, <1>4, <1>5, <1>6, <1>7 DEF ServerNext

(* While it closes, a server begins no run of its game workers: what is    *)
(* left of their timers cannot begin one, nor can the simulator.           *)
LEMMA QuietStep ==
  ASSUME ServerTypeOK, ShutdownOrder, [ServerNext]_serverVars, Closing
  PROVE  work'["cycle"] <= work["cycle"] /\ work'["bot"] <= work["bot"]
<1> USE ServerAssumption
<1>1. /\ work["cycle"] \in Nat /\ work["bot"] \in Nat
      /\ http \in {"closing", "closed"}
      /\ "cycle" \notin timers /\ "bot" \notin timers
  BY DEF ServerTypeOK, ShutdownOrder, Closing, Workers
<1>2. CASE UNCHANGED work
  BY <1>1, <1>2
<1>3. ASSUME NEW w \in Workers, RunWorker(w)
      PROVE  work'["cycle"] = work["cycle"] /\ work'["bot"] = work["bot"]
  <2>1. w \notin {"cycle", "bot"}
    BY <1>1, <1>3 DEF RunWorker
  <2> QED
    BY <1>3, <2>1, RunningOnly DEF RunWorker, Workers
<1>4. CASE StartPriceUpdates
  BY <1>1, <1>4, RunningOnly DEF StartPriceUpdates, Workers
<1>5. ASSUME NEW w \in Workers, EndRun(w)
      PROVE  work'["cycle"] <= work["cycle"] /\ work'["bot"] <= work["bot"]
  BY <1>1, <1>5 DEF EndRun, ServerTypeOK, Workers
<1>6. CASE UNCHANGED serverVars
  BY <1>2, <1>6 DEF serverVars
<1>7. CASE \/ Listen \/ FailStart \/ Connect \/ AcceptRequest \/ EndRequest
           \/ Disconnect \/ ForceExit \/ CrashOnCoinEvents
  BY <1>1, <1>2, <1>7
     DEF Listen, FailStart, Connect, AcceptRequest, EndRequest, Disconnect, ForceExit,
         CrashOnCoinEvents
<1>8. CASE \/ InitializeCoinVolatility \/ FailSimulator \/ StartNewMarketCycle
           \/ InitializeCoinEvents \/ \E c \in Coins : StartNewCoinEvent(c)
  BY <1>2, <1>8 DEF InitializeCoinVolatility, FailSimulator, StartNewMarketCycle,
                    InitializeCoinEvents, StartNewCoinEvent
<1>9. CASE \E s \in Signals : HandleSignal(s) \/ CloseServer(s) \/ EndPool(s)
  BY <1>2, <1>9 DEF HandleSignal, CloseServer, EndPool
<1> QED
  BY <1>1, <1>3, <1>4, <1>5, <1>6, <1>7, <1>8, <1>9 DEF ServerNext

(* The invariant is one of all of them.                                    *)
LEMMA ServerInvariantHolds == ServerSpec => []ServerInvariant
<1>1. ServerInit => ServerInvariant
  <2> SUFFICES ASSUME ServerInit PROVE ServerInvariant
    OBVIOUS
  <2>1. ServerTypeOK
    BY ServerTypeInit
  <2>2. ShutdownOrder /\ ClientsKnown /\ EventsKnown /\ OneEventPerCoin
    BY DEF ServerInit, ShutdownOrder, Shutting, Closing, ClientsKnown, EventsKnown,
           OneEventPerCoin
  <2> QED
    BY <2>1, <2>2 DEF ServerInvariant
<1>2. ServerInvariant /\ [ServerNext]_serverVars => ServerInvariant'
  BY ServerTypeStep, ShutdownOrderStep, ClientsStep, EventsStep DEF ServerInvariant
<1> QED
  BY <1>1, <1>2, PTL DEF ServerSpec

-----------------------------------------------------------------------------
(* Types hold, and the bot worker never runs two ticks at once, whatever   *)
(* starts, fires, hangs and stops in whatever order.                       *)
THEOREM ServerTypesHold == ServerSpec => []ServerTypeOK
BY ServerInvariantHolds, PTL DEF ServerInvariant

(* The pool of a server that was listening never ends before the last of   *)
(* its requests has, however many signals arrive and however long clients  *)
(* keep sending: it ends with the last connection.                         *)
THEOREM RequestsDrainFirst == ServerSpec => []DrainedFirst
<1>1. ServerInvariant => DrainedFirst
  <2> SUFFICES ASSUME ServerInvariant, Closing, pool = "ending" PROVE requests = 0
    BY DEF DrainedFirst
  <2>1. connections = 0 /\ requests \in Nat
    BY ServerAssumption DEF ServerInvariant, ShutdownOrder, ClientsKnown, ServerTypeOK
  <2> QED
    BY <2>1 DEF ServerInvariant, ClientsKnown
<1> QED
  BY <1>1, ServerInvariantHolds, PTL

(* From the first signal to the end of the process the fallback timer is   *)
(* set, whatever hangs and whatever the workers' stop() methods clear: all *)
(* that SignalEnds needs besides that a timer fires.                       *)
THEOREM FallbackStaysArmed ==
  ServerSpec => [](Shutting /\ exit = None => "force" \in timers)
BY ServerInvariantHolds, PTL DEF ServerInvariant, ShutdownOrder

(* A coin never has two chains of events, however many market cycles list  *)
(* the coins at the same time and however often their queries fail.        *)
THEOREM EventsNeverDouble == ServerSpec => []OneEventPerCoin
BY ServerInvariantHolds, PTL DEF ServerInvariant

(* A listening server that was told to stop begins no further run of its   *)
(* game workers.                                                           *)
THEOREM ClosingIsQuiet == ServerSpec => QuietOnceClosing
<1>1. ServerInvariant /\ [ServerNext]_serverVars
        => [Closing => /\ work'["cycle"] <= work["cycle"]
                       /\ work'["bot"] <= work["bot"]]_serverVars
  BY QuietStep DEF ServerInvariant
<1> QED
  BY <1>1, ServerInvariantHolds, PTL DEF ServerSpec, QuietOnceClosing
=============================================================================
