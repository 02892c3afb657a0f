---------------------------- MODULE ServerProcess ----------------------------
(***************************************************************************)
(* The life of one server process in production (server.js, app.js,        *)
(* db/connection.js): it checks the database, listens and starts its       *)
(* background workers (game/gameCycleWorker.js, game/botWorker.js), while  *)
(* the price simulator (models/market-simulator.js) has been starting by   *)
(* itself since app.js was loaded; a signal shuts all of it down.          *)
(*                                                                         *)
(* The process is one event loop: an action is what runs between two       *)
(* awaits.  What the workers do with the database is the subject of the    *)
(* other modules; here their runs are counted.  Delays are left out: a     *)
(* timer may fire whenever it is set.                                      *)
(***************************************************************************)
EXTENDS Integers, FiniteSets

CONSTANTS
  Signals,      \* the signals handled, each delivered once at most
  Coins,        \* the coins of the simulator
  MaxRequests,  \* bound on the connections open and on the requests in flight
  MaxWork       \* bound on the runs of one worker in flight

ASSUME ServerAssumption ==
  /\ IsFiniteSet(Signals) /\ IsFiniteSet(Coins)
  /\ MaxRequests \in Nat /\ MaxWork \in Nat \ {0}

VARIABLES
  http,      \* the listener: "none", "open", "closing" or "closed"
  connections, \* connections of clients that are open
  requests,  \* requests in flight on them
  timers,    \* the intervals and timeouts that are set
  work,      \* per worker: its runs in flight
  sim,       \* what start() of the simulator awaits, or how it ended
  running,   \* its isRunning
  loading,   \* its initializeCoinEvents in flight, but start()'s own
  events,    \* per coin: its event timeouts pending
  known,     \* the coins in coinEvents
  pool,      \* the connection pool: "open" or "ending"
  down,      \* per signal: where the handler's shutdown stands
  exit       \* the exit code, None while the process lives

simVars == <<sim, running, loading, events, known>>
clients == <<connections, requests>>
serverVars == <<http, clients, timers, work, simVars, pool, down, exit>>

None == -1
Workers == {"cycle", "bot", "prices"}
Closing == http \in {"closing", "closed"}
Shutting == \E s \in Signals : down[s] # "none"

FaultyMayRun(w) == work[w] < MaxWork

(* A worker's run begins: the bot worker waits for its last one, the       *)
(* others do not; on an ending pool a run fails at once.                   *)
MayRun(w) ==
  /\ pool = "open"
  /\ work[w] < (IF w = "bot" THEN 1 ELSE MaxWork)

Running(ws) ==
  work' = [w \in Workers |-> IF w \in ws /\ MayRun(w) THEN work[w] + 1 ELSE work[w]]

-----------------------------------------------------------------------------
(* startServer.                                                            *)

(* The database answers in time: listen and, in the same turn of the loop, *)
(* the workers start with a run at once.  Nobody asks for a shutdown begun *)
(* meanwhile.                                                              *)
Listen ==
  /\ exit = None /\ http = "none"
  /\ http' = "open"
  /\ timers' = timers \cup {"cycle", "bot"}
  /\ Running({"cycle", "bot"})
  /\ UNCHANGED <<clients, simVars, pool, down, exit>>

(* It does not, or not within five seconds.                                *)
FailStart ==
  /\ exit = None /\ http = "none"
  /\ exit' = 1
  /\ UNCHANGED <<http, clients, timers, work, simVars, pool, down>>

(* An interval fires.                                                      *)
RunWorker(w) ==
  /\ exit = None /\ w \in timers
  /\ MayRun(w)
  /\ Running({w})
  /\ UNCHANGED <<http, clients, timers, simVars, pool, down, exit>>

(* A run ends; it may also never end.                                      *)
EndRun(w) ==
  /\ exit = None /\ work[w] > 0
  /\ work' = [work EXCEPT ![w] = @ - 1]
  /\ UNCHANGED <<http, clients, timers, simVars, pool, down, exit>>

-----------------------------------------------------------------------------
(* The clients, as node:http serves them.                                  *)

(* Only a listener that has not begun to close takes a connection.         *)
Connect ==
  /\ exit = None /\ http = "open" /\ connections < MaxRequests
  /\ connections' = connections + 1
  /\ UNCHANGED <<http, requests, timers, work, simVars, pool, down, exit>>

(* A connection is kept alive and brings one request after another, though *)
(* the listener may be closing by now.                                     *)
AcceptRequest ==
  /\ exit = None /\ connections > 0 /\ requests < MaxRequests
  /\ requests' = requests + 1
  /\ UNCHANGED <<http, connections, timers, work, simVars, pool, down, exit>>

EndRequest ==
  /\ exit = None /\ requests > 0
  /\ requests' = requests - 1
  /\ UNCHANGED <<http, connections, timers, work, simVars, pool, down, exit>>

(* A connection closes, idle or with what it carried: a request whose      *)
(* client is gone is answered to nobody.                                   *)
Disconnect ==
  /\ exit = None /\ connections > 0
  /\ connections' = connections - 1
  /\ requests' \in { n \in 0 .. requests : connections = 1 => n = 0 }
  /\ UNCHANGED <<http, timers, work, simVars, pool, down, exit>>

-----------------------------------------------------------------------------
(* The simulator's own scheduling.                                         *)

(* start(): the coins are read, and a market cycle begins.                 *)
InitializeCoinVolatility ==
  /\ exit = None /\ sim = "volatility"
  /\ sim' = "events"
  /\ timers' = timers \cup {"market"}
  /\ UNCHANGED <<http, clients, work, running, loading, events, known, pool, down, exit>>

(* Its coins are listed, too early for an event to begin, for only now     *)
(* isRunning is set.  Price updates begin, with a batch at once.           *)
StartPriceUpdates ==
  /\ exit = None /\ sim = "events"
  /\ sim' = "started"
  /\ running' = TRUE
  /\ timers' = timers \cup {"prices"}
  /\ Running({"prices"})
  /\ UNCHANGED <<http, clients, loading, events, known, pool, down, exit>>

FailSimulator ==
  /\ exit = None /\ sim \in {"volatility", "events"}
  /\ sim' = "failed"
  /\ running' = FALSE
  /\ UNCHANGED <<http, clients, timers, work, loading, events, known, pool, down, exit>>

(* The market cycle's timeout: the next one, unless stopped.               *)
StartNewMarketCycle ==
  /\ exit = None /\ "market" \in timers
  /\ running => loading < MaxWork
  /\ IF running
     THEN loading' = loading + 1 /\ UNCHANGED timers
     ELSE timers' = timers \ {"market"} /\ UNCHANGED loading
  /\ UNCHANGED <<http, clients, work, sim, running, events, known, pool, down, exit>>

FaultyEventless == Coins

(* The coins without an event, now or ever.                                *)
Eventless == Coins \ known

(* initializeCoinEvents: its query returns; a simulator stopped meanwhile  *)
(* begins no event.                                                        *)
InitializeCoinEvents ==
  /\ exit = None /\ loading > 0
  /\ loading' = loading - 1
  /\ IF running
     THEN /\ events' = [c \in Coins |-> events[c] + IF c \in Eventless THEN 1 ELSE 0]
          /\ known' = Coins
     ELSE UNCHANGED <<events, known>>
  /\ UNCHANGED <<http, clients, timers, work, sim, running, pool, down, exit>>

(* Its query fails.  The timeout that began it awaits nothing and nobody   *)
(* handles the rejection, so the process ends.                             *)
CrashOnCoinEvents ==
  /\ exit = None /\ loading > 0
  /\ exit' = 1
  /\ UNCHANGED <<http, clients, timers, work, simVars, pool, down>>

(* A coin's event is over.  The next one takes its place, which changes    *)
(* nothing here; once stopped, there is none.                              *)
StartNewCoinEvent(c) ==
  /\ exit = None /\ events[c] > 0 /\ ~ running
  /\ events' = [events EXCEPT ![c] = @ - 1]
  /\ UNCHANGED <<http, clients, timers, work, sim, running, loading, known, pool, down, exit>>

-----------------------------------------------------------------------------
(* Shutdown.                                                               *)

FaultyFirstCall == TRUE

(* No shutdownPromise yet.                                                 *)
FirstCall == ~ Shutting

FaultyStopped == {"bot", "prices", "market"}

(* What the workers' stop() methods clear.                                 *)
Stopped == {"cycle", "bot", "prices", "market"}

(* shutdown's first turn: the fallback timer is armed, the workers stop,   *)
(* the listener closes and, when there is none to wait for, the pool ends. *)
(* A later signal shares the promise of the first.                         *)
HandleSignal(s) ==
  /\ exit = None /\ down[s] = "none"
  /\ IF FirstCall
     THEN /\ timers' = (timers \ Stopped) \cup {"force"}
          /\ running' = FALSE
          /\ IF http = "open"
             THEN /\ http' = "closing"
                  /\ down' = [down EXCEPT ![s] = "draining"]
                  /\ UNCHANGED pool
             ELSE /\ pool' = "ending"
                  /\ down' = [down EXCEPT ![s] = "ending"]
                  /\ UNCHANGED http
     ELSE /\ down' = [down EXCEPT ![s] = "sharing"]
          /\ UNCHANGED <<http, timers, running, pool>>
  /\ UNCHANGED <<clients, work, sim, loading, events, known, exit>>

FaultyCloseServer(s) ==
  /\ exit = None /\ down[s] = "draining" /\ connections = 0
  /\ http' = "closed"
  /\ pool' = "ending"
  /\ down' = [down EXCEPT ![s] = "ending"]
  /\ timers' = timers \ {"force"}
  /\ UNCHANGED <<clients, work, simVars, exit>>

(* The last connection is closed: the close returns, and the pool ends.    *)
CloseServer(s) ==
  /\ exit = None /\ down[s] = "draining" /\ connections = 0
  /\ http' = "closed"
  /\ pool' = "ending"
  /\ down' = [down EXCEPT ![s] = "ending"]
  /\ UNCHANGED <<clients, timers, work, simVars, exit>>

(* The pool has its connections back and is closed: the fallback timer is  *)
(* cleared; exit(0).  A run may be between two of its transactions just    *)
(* then, so it waits for none.                                             *)
EndPool(s) ==
  /\ exit = None /\ down[s] = "ending"
  /\ timers' = timers \ {"force"}
  /\ exit' = 0
  /\ UNCHANGED <<http, clients, work, simVars, pool, down>>

(* The fallback timer fires.                                               *)
ForceExit ==
  /\ exit = None /\ "force" \in timers
  /\ exit' = 1
  /\ UNCHANGED <<http, clients, timers, work, simVars, pool, down>>

-----------------------------------------------------------------------------

ServerInit ==
  /\ http = "none" /\ connections = 0 /\ requests = 0 /\ timers = {}
  /\ work = [w \in Workers |-> 0]
  /\ sim = "volatility" /\ running = FALSE /\ loading = 0
  /\ events = [c \in Coins |-> 0] /\ known = {}
  /\ pool = "open" /\ down = [s \in Signals |-> "none"] /\ exit = None

ServerNext ==
  \/ Listen \/ FailStart
  \/ Connect \/ AcceptRequest \/ EndRequest \/ Disconnect
  \/ \E w \in Workers : RunWorker(w) \/ EndRun(w)
  \/ InitializeCoinVolatility \/ StartPriceUpdates \/ FailSimulator
  \/ StartNewMarketCycle \/ InitializeCoinEvents \/ CrashOnCoinEvents
  \/ \E c \in Coins : StartNewCoinEvent(c)
  \/ \E s \in Signals : HandleSignal(s) \/ CloseServer(s) \/ EndPool(s)
  \/ ForceExit

(* A timer that is set, and stays so, fires; only the fallback is asked to.*)
(* Nothing is asked of the database or of the clients: a run, a request, a *)
(* connection, the end of the pool, a query of start() may hang for ever.  *)
ServerSpec == ServerInit /\ [][ServerNext]_serverVars /\ WF_serverVars(ForceExit)

-----------------------------------------------------------------------------
(* Properties.                                                             *)

(* Everything has its type, and a bot tick of a process never overlaps     *)
(* another of its own, whatever starts and stops in between.               *)
ServerTypeOK ==
  /\ http \in {"none", "open", "closing", "closed"}
  /\ connections \in 0 .. MaxRequests /\ requests \in 0 .. MaxRequests
  /\ timers \subseteq Workers \cup {"market", "force"}
  /\ work \in [Workers -> 0 .. MaxWork] /\ work["bot"] <= 1
  /\ sim \in {"volatility", "events", "started", "failed"}
  /\ running \in BOOLEAN
  /\ loading \in 0 .. MaxWork
  /\ events \in [Coins -> Nat] /\ known \subseteq Coins
  /\ pool \in {"open", "ending"}
  /\ down \in [Signals -> {"none", "sharing", "draining", "ending"}]
  /\ exit \in {None, 0, 1}

(* Requests are drained before the pool goes, and before the process exits *)
(* gracefully, however many signals arrive, in whatever order, and though  *)
(* connections still open bring further requests to a closing server: the  *)
(* database is taken away from none of those it still answers.             *)
DrainedFirst ==
  Closing /\ pool = "ending" => requests = 0

(* Once a listening server has begun to close, neither of its game workers *)
(* begins another run, whichever of its timers was about to fire.          *)
QuietOnceClosing ==
  [][Closing => /\ work'["cycle"] <= work["cycle"]
                /\ work'["bot"] <= work["bot"]]_serverVars

(* However often the simulator lists its coins, and whatever it missed     *)
(* before, a coin has one chain of events at most.                         *)
OneEventPerCoin == \A c \in Coins : events[c] <= 1

(* A signal ends the process, though a client keeps its connection, or a   *)
(* transaction, the pool or the start of the server itself hangs for ever: *)
(* the fallback timer is armed at once and outlives whatever may hang.     *)
SignalEnds == Shutting ~> exit # None
=============================================================================
