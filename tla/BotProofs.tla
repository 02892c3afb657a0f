------------------------------ MODULE BotProofs ------------------------------
(***************************************************************************)
(* The roster bots (GameBots), for any number of server processes, any     *)
(* roster and any limits.                                                  *)
(*                                                                         *)
(* That a tick id of a cycle is worth one turn of the roster rests on who  *)
(* holds its claim: a claim is held by the one tick that inserted it, as   *)
(* long as that tick runs (two running ticks never hold the same one), and *)
(* what has been traded under it is what that tick remembers having done   *)
(* (Honest).  The rest is GameChange: whatever a bot does to the game is a *)
(* step RoundProofs already knows.                                         *)
(***************************************************************************)
EXTENDS GameBots, RoundProofs

-----------------------------------------------------------------------------
(* The invariant.                                                          *)

BotTick ==
  [stage : {"idle", "claiming", "provisioning", "acting", "joining", "deciding",
            "trading", "stamping", "recording"},
   cycle : Nat, bot : Bots, seen : [Bots -> Nat \cup {None}], taken : Nat,
   view : [cash : Nat, holds : [Coins -> Nat]], order : Order \cup {NoOrder}]

(* A tick past its claim.                                                  *)
Working(t) == t.stage \notin {"idle", "claiming"}

(* The claim of a tick that reads the time as `now`.                       *)
Key(t, now) == <<t.cycle, now \div TickInterval>>

(* A tick is typed, trades with an order, in a cycle there is, and never   *)
(* begins an action beyond its limit.                                      *)
TickOK(t, table) ==
  /\ t \in BotTick
  /\ t.stage = "trading" => t.order \in Order /\ t.order.quantity > 0
  /\ t.stage = "claiming" => t.taken = 0
  /\ t.stage \in {"joining", "deciding", "trading", "stamping"} => t.taken < MaxActions
  /\ Working(t) => t.cycle \in DOMAIN table

(* The bots that traded under a claim.                                     *)
Acted(held) == { b \in Bots : held[b] > 0 }

(* The bots whose turn in the tick is still to come.                       *)
Pending(t, b) ==
  \/ t.stage = "provisioning"
  \/ t.stage \in {"acting", "joining", "deciding", "trading"} /\ b >= t.bot
  \/ t.stage = "stamping" /\ b > t.bot

(* What was traded under its claim is what the tick did.                   *)
Honest(t, held) ==
  /\ \A b \in Bots : Pending(t, b) => held[b] = 0
  /\ Cardinality(Acted(held)) = t.taken + (IF t.stage = "stamping" THEN 1 ELSE 0)

(* OneTurnPerTick, of one claim.                                           *)
OneTurn(held) ==
  /\ held \in [Bots -> Nat]
  /\ \A b \in Bots : held[b] <= 1
  /\ Cardinality(Acted(held)) <= MaxActions

BotsOK ==
  /\ tick \in [Processes -> BotTick]
  /\ lastAction \in [Bots -> Nat \cup {None}]
  /\ \A t \in DOMAIN claims : OneTurn(claims[t])
  /\ \A c \in Processes :
       /\ TickOK(tick[c], cycles)
       /\ Working(tick[c]) => /\ Key(tick[c], call[c].now) \in DOMAIN claims
                              /\ Honest(tick[c], claims[Key(tick[c], call[c].now)])
  /\ \A c, d \in Processes :
       c # d /\ Working(tick[c]) /\ Working(tick[d])
         => Key(tick[c], call[c].now) # Key(tick[d], call[d].now)

-----------------------------------------------------------------------------
(* What the game leaves alone.                                             *)

(* No cycle is ever deleted.                                               *)
LEMMA CyclesStay ==
  ASSUME LawfulInvariant, GameChange
  PROVE  DOMAIN cycles \subseteq DOMAIN cycles'
<1>1. RestOK /\ TableOK /\ cycles \in Seq(Cycle) /\ AllOK /\ users \subseteq Users
  BY InvariantParts DEF LawfulInvariant, RestOK, TableOK, AllOK
<1>2. CASE cycles' = cycles
  BY <1>2
<1>3. ASSUME NEW k, NEW z, Replaced(k, z)
      PROVE  DOMAIN cycles' = DOMAIN cycles
  BY <1>3 DEF Replaced
<1>4. ASSUME NEW start \in Nat, NEW rows \in Schedules(start, start + Duration),
             Appended(NewCycle(start, rows))
      PROVE  DOMAIN cycles \subseteq DOMAIN cycles'
  <2>1. NewCycle(start, rows) \in Cycle
    BY <1>1, NewCycleOK DEF CycleOK
  <2> QED
    BY <1>1, <1>4, <2>1, AppendedTable
<1>5. CASE [Next]_vars
  BY <1>1, <1>2, <1>3, <1>4, <1>5, CycleSteps
<1>6. CASE CallStep
  BY <1>2, <1>6 DEF CallStep
<1>7. CASE PlayStep
  BY <1>3, <1>7 DEF PlayStep
<1> QED
  BY <1>5, <1>6, <1>7 DEF GameChange

(* A call keeps its `now` while its caller does not begin or end one.      *)
LEMMA NowsKept ==
  ASSUME RestOK, NEW who \in SUBSET Callers, NEW players,
         LifecycleStep(who) \/ RoundStep(who, players),
         NEW c \in Callers \ who
  PROVE  call'[c].now = call[c].now
<1>1. call \in [Callers -> [phase : {"idle", "freeze", "settle", "ensure", "done"},
                            now : 0 .. MaxClock]]
  BY DEF RestOK
<1>2. CASE call' = call
  BY <1>2
<1>3. ASSUME NEW d \in Callers, NEW phase, Goto(d, phase)
      PROVE  call'[c].now = call[c].now
  BY <1>1, <1>3 DEF Goto
<1>4. ASSUME NEW d \in who, Reconcile(d) \/ Fail(d) \/ FailJoin(d)
      PROVE  call'[c].now = call[c].now
  BY <1>1, <1>4 DEF Reconcile, Fail, FailJoin
<1>5. ASSUME NEW d \in Callers,
             \/ FreezeExpiredActiveCycle(d)
             \/ SettleSettlingCycle(d)
             \/ EnsureActiveCycle(d)
      PROVE  call'[c].now = call[c].now
  <2>1. \E phase : Goto(d, phase)
    BY <1>5 DEF FreezeExpiredActiveCycle, SettleSettlingCycle, EnsureActiveCycle,
                CreateActiveCycle, RecoverActiveCycle, Return
  <2> QED
    BY <1>3, <2>1
<1>6. CASE LifecycleStep(who)
  <2>1. CASE Tick \/ \E u \in Users : RegisterUser(u)
    BY <1>2, <2>1 DEF Tick, RegisterUser
  <2> QED
    BY <1>4, <1>5, <1>6, <2>1 DEF LifecycleStep
<1>7. ASSUME NEW d \in who, NEW u, JoinRound(d, u)
      PROVE  call'[c].now = call[c].now
  BY <1>4, <1>7 DEF JoinRound
<1>8. ASSUME NEW d \in who, JoinActiveCycle(d)
      PROVE  call'[c].now = call[c].now
  BY <1>2, <1>3, <1>8 DEF JoinActiveCycle
<1>9. ASSUME NEW k, NEW u, NEW coin, NEW q, NEW now,
             BuyRoundTrade(k, u, coin, q, now) \/ SellRoundTrade(k, u, coin, q, now)
      PROVE  call'[c].now = call[c].now
  BY <1>9 DEF BuyRoundTrade, SellRoundTrade
<1>10. CASE RoundStep(who, players)
  BY <1>4, <1>7, <1>8, <1>9, <1>10 DEF RoundStep
<1> QED
  BY <1>6, <1>10

-----------------------------------------------------------------------------
(* One process moves its tick.                                             *)

(* It is enough to look at the tick that moves, and at the claim it has or *)
(* takes: the others stand where they stood.                               *)
LEMMA TickMoves ==
  ASSUME BotsOK, NEW c \in Processes, NEW t,
         tick' = [tick EXCEPT ![c] = t],
         TickOK(t, cycles'),
         DOMAIN cycles \subseteq DOMAIN cycles',
         lastAction' \in [Bots -> Nat \cup {None}],
         \A d \in Processes \ {c} : call'[d].now = call[d].now,
         DOMAIN claims \subseteq DOMAIN claims',
         \A k \in DOMAIN claims' : OneTurn(claims'[k]),
         \A k \in DOMAIN claims :
           k # Key(tick[c], call[c].now) \/ ~ Working(tick[c]) => claims'[k] = claims[k],
         Working(t) =>
           LET key == Key(t, call'[c].now)
           IN  /\ key \in DOMAIN claims' /\ Honest(t, claims'[key])
               /\ \/ key \notin DOMAIN claims
                  \/ Working(tick[c]) /\ key = Key(tick[c], call[c].now)
  PROVE  BotsOK'
<1> DEFINE k0 == Key(tick[c], call[c].now)
           k1 == Key(t, call'[c].now)
<1>1. tick' \in [Processes -> BotTick]
  BY DEF BotsOK, TickOK
<1>2. \A d \in Processes : tick'[d] = IF d = c THEN t ELSE tick[d]
  BY DEF BotsOK
<1>3. ASSUME NEW d \in Processes, d # c
      PROVE  /\ TickOK(tick'[d], cycles')
             /\ Key(tick'[d], call'[d].now) = Key(tick[d], call[d].now)
             /\ Working(tick'[d]) =>
                  /\ Key(tick[d], call[d].now) \in DOMAIN claims
                  /\ Key(tick[d], call[d].now) # k1 \/ ~ Working(t)
                  /\ Honest(tick[d], claims'[Key(tick[d], call[d].now)])
  <2> DEFINE key == Key(tick[d], call[d].now)
  <2>1. tick'[d] = tick[d] /\ call'[d].now = call[d].now
    BY <1>2, <1>3
  <2>2. TickOK(tick[d], cycles')
    BY DEF BotsOK, TickOK
  <2>3. ASSUME Working(tick[d])
        PROVE  /\ key \in DOMAIN claims /\ Honest(tick[d], claims[key])
               /\ Working(tick[c]) => key # k0
    BY <1>3, <2>3 DEF BotsOK
  <2>4. Working(tick[d]) => claims'[key] = claims[key]
    BY <2>3
  <2>5. Working(tick[d]) /\ Working(t) => key # k1
    BY <2>3
  <2> HIDE DEF key, k1
  <2> QED
    BY <2>1, <2>2, <2>3, <2>4, <2>5 DEF key
<1>4. /\ TickOK(tick'[c], cycles')
      /\ Key(tick'[c], call'[c].now) = k1
      /\ Working(tick'[c]) => k1 \in DOMAIN claims' /\ Honest(tick'[c], claims'[k1])
  BY <1>2
<1> HIDE DEF k1, k0
<1>5. ASSUME NEW d \in Processes
      PROVE  /\ TickOK(tick'[d], cycles')
             /\ Working(tick'[d]) =>
                  /\ Key(tick'[d], call'[d].now) \in DOMAIN claims'
                  /\ Honest(tick'[d], claims'[Key(tick'[d], call'[d].now)])
  <2>1. CASE d = c
    BY <1>4, <2>1
  <2>2. CASE d # c
    BY <1>2, <1>3, <2>2
  <2> QED
    BY <2>1, <2>2
<1>6. ASSUME NEW d \in Processes, NEW e \in Processes, d # e,
             Working(tick'[d]), Working(tick'[e])
      PROVE  Key(tick'[d], call'[d].now) # Key(tick'[e], call'[e].now)
  <2>1. CASE d # c /\ e # c
    BY <1>2, <1>3, <1>6, <2>1 DEF BotsOK
  <2>2. CASE d = c
    BY <1>2, <1>3, <1>4, <1>6, <2>2
  <2>3. CASE e = c
    BY <1>2, <1>3, <1>4, <1>6, <2>3
  <2> QED
    BY <2>1, <2>2, <2>3
<1> QED
  BY <1>1, <1>5, <1>6 DEF BotsOK

(* No process moves its tick, and the game goes on.                        *)
LEMMA TicksStay ==
  ASSUME BotsOK, UNCHANGED <<tick, claims, lastAction>>,
         DOMAIN cycles \subseteq DOMAIN cycles',
         \A d \in Processes : call'[d].now = call[d].now
  PROVE  BotsOK'
<1>1. \A c \in Processes : TickOK(tick'[c], cycles')
  BY DEF BotsOK, TickOK
<1>2. tick' = tick /\ claims' = claims /\ lastAction' = lastAction
  OBVIOUS
<1> QED
  BY <1>1, <1>2 DEF BotsOK

(* Most moves leave the claims and the stamps alone.                       *)
LEMMA TickMovesOn ==
  ASSUME RoundInvariant, BotsOK, GameChange, NEW c \in Processes, NEW t,
         tick' = [tick EXCEPT ![c] = t], UNCHANGED <<claims, lastAction>>,
         \A d \in Processes \ {c} : call'[d].now = call[d].now,
         TickOK(t, cycles'),
         Working(t) => /\ Working(tick[c])
                       /\ Key(t, call'[c].now) = Key(tick[c], call[c].now)
                       /\ Honest(t, claims[Key(tick[c], call[c].now)])
  PROVE  BotsOK'
<1>1. DOMAIN cycles \subseteq DOMAIN cycles'
  BY CyclesStay DEF RoundInvariant
<1>2. /\ lastAction' \in [Bots -> Nat \cup {None}]
      /\ \A k \in DOMAIN claims : OneTurn(claims[k])
      /\ Working(tick[c]) => Key(tick[c], call[c].now) \in DOMAIN claims
  BY DEF BotsOK
<1>3. claims' = claims
  OBVIOUS
<1> HIDE DEF Working, Key, TickOK, Honest, OneTurn
<1>4. Working(t) =>
        LET key == Key(t, call'[c].now)
        IN  /\ key \in DOMAIN claims' /\ Honest(t, claims'[key])
            /\ \/ key \notin DOMAIN claims
               \/ Working(tick[c]) /\ key = Key(tick[c], call[c].now)
  BY <1>2, <1>3
<1>5. /\ DOMAIN claims \subseteq DOMAIN claims'
      /\ \A k \in DOMAIN claims' : OneTurn(claims'[k])
      /\ \A k \in DOMAIN claims :
           k # Key(tick[c], call[c].now) \/ ~ Working(tick[c]) => claims'[k] = claims[k]
  BY <1>2, <1>3
<1> QED
  BY <1>1, <1>2, <1>4, <1>5, TickMoves

(* The roster's entries.                                                   *)
LEMMA RosterOK ==
  /\ 1 \in Bots /\ Bots = 1 .. Len(Roster) /\ Len(Roster) \in Nat \ {0}
  /\ \A b \in Bots :
       /\ Roster[b].user \in Users
       /\ Roster[b].strategy \in {"conservative", "momentum", "dip_buyer", "reckless"}
<1>1. Len(Roster) \in Nat /\ Bots = 1 .. Len(Roster)
  BY BotAssumption, LenProperties DEF Bots
<1>2. Len(Roster) # 0
  BY BotAssumption, EmptySeq
<1>3. \A b \in Bots : Roster[b] \in
        [user : Users, strategy : {"conservative", "momentum", "dip_buyer", "reckless"}]
  BY <1>1, BotAssumption, ElementOfSeq
<1> QED
  BY <1>1, <1>2, <1>3

(* A tick at rest.                                                         *)
LEMMA IdleOK == Idle \in BotTick /\ \A table : TickOK(Idle, table) /\ ~ Working(Idle)
<1>1. NoOrder \in Order \cup {NoOrder}
      /\ NoView \in [cash : Nat, holds : [Coins -> Nat]]
      /\ NeverActed \in [Bots -> Nat \cup {None}]
  BY DEF NoView, NeverActed
<1>2. Idle \in BotTick
  BY <1>1, RosterOK DEF Idle, BotTick
<1> QED
  BY <1>2 DEF Idle, TickOK, Working

(* On to the next bot: its turn and those after it are still to come.      *)
LEMMA FollowingOK ==
  ASSUME NEW t \in BotTick, NEW table, t.cycle \in DOMAIN table, NEW held,
         Cardinality(Acted(held)) = t.taken,
         \A b \in Bots : b > t.bot => held[b] = 0
  PROVE  LET n == Following(t, "acting")
         IN  /\ TickOK(n, table) /\ Working(n) /\ n.cycle = t.cycle
             /\ Honest(n, held)
<1> DEFINE n == Following(t, "acting")
<1>1. /\ NoView \in [cash : Nat, holds : [Coins -> Nat]]
      /\ NoOrder \in Order \cup {NoOrder}
  BY DEF NoView
<1>2. CASE t.bot < Len(Roster)
  <2> DEFINE b1 == t.bot + 1
  <2>1. b1 \in Bots /\ b1 > t.bot /\ t.bot \in Nat
    BY <1>2, RosterOK DEF BotTick
  <2>2. n = [t EXCEPT !.stage = "acting", !.bot = b1, !.view = NoView,
                      !.order = NoOrder]
    BY <1>2 DEF Following
  <2>3. \A b \in Bots : b >= b1 => b > t.bot
    BY <2>1, RosterOK
  <2> HIDE DEF b1, n
  <2>4. n \in BotTick /\ n.stage = "acting" /\ n.bot = b1 /\ n.taken = t.taken
        /\ n.cycle = t.cycle
    BY <1>1, <2>1, <2>2 DEF BotTick
  <2>5. TickOK(n, table) /\ Working(n)
    BY <2>4 DEF TickOK, Working
  <2>6. t.taken \in Nat
    BY DEF BotTick
  <2>7. Honest(n, held)
    BY <2>3, <2>4, <2>6 DEF Honest, Pending
  <2> QED
    BY <2>4, <2>5, <2>7 DEF n
<1>3. CASE ~ (t.bot < Len(Roster))
  <2>1. n = [t EXCEPT !.stage = "recording", !.view = NoView, !.order = NoOrder]
    BY <1>3 DEF Following
  <2> HIDE DEF n
  <2>2. n \in BotTick /\ n.stage = "recording" /\ n.taken = t.taken
        /\ n.cycle = t.cycle
    BY <1>1, <2>1 DEF BotTick
  <2>3. TickOK(n, table) /\ Working(n)
    BY <2>2 DEF TickOK, Working
  <2>4. t.taken \in Nat
    BY DEF BotTick
  <2>5. Honest(n, held)
    BY <2>2, <2>4 DEF Honest, Pending
  <2> QED
    BY <2>2, <2>3, <2>5 DEF n
<1> QED
  BY <1>2, <1>3

-----------------------------------------------------------------------------
(* The actions of one process.                                             *)

(* What the proofs of the actions start from.                              *)
LEMMA BotParts ==
  ASSUME RoundInvariant, BotsOK, NEW c \in Processes
  PROVE  /\ RestOK /\ TableOK /\ JoiningOK /\ c \in Callers
         /\ tick[c] \in BotTick /\ tick[c].bot \in Bots
         /\ Roster[tick[c].bot].user \in Users
         /\ call[c].now \in Nat /\ clock \in Nat
<1>1. RestOK /\ TableOK /\ JoiningOK /\ c \in Callers
  BY TypeOKParts, BotAssumption DEF RoundInvariant, LawfulInvariant, Invariant
<1>2. tick[c] \in BotTick /\ tick[c].bot \in Bots
  BY DEF BotsOK, BotTick
<1>3. call[c].now \in Nat /\ clock \in Nat
  BY <1>1, CycleAssumption DEF RestOK
<1> QED
  BY <1>1, <1>2, <1>3, RosterOK

(* A tick that is over, recorded or not.                                   *)
LEMMA LeaveStep ==
  ASSUME RoundInvariant, BotsOK, NEW c \in Processes, Leave(c),
         UNCHANGED <<clock, users, cycles, price, claims, lastAction>>
  PROVE  GameChange /\ JoiningOK' /\ BotsOK'
<1>1. RestOK /\ JoiningOK /\ c \in Callers /\ Processes \subseteq Callers
  BY BotParts, BotAssumption
<1>2. GameChange
  BY <1>1 DEF Leave, GameChange, CallStep
<1>3. JoiningOK'
  <2>1. NoJoin \in Join
    BY RoundAssumption DEF NoJoin, Join
  <2> QED
    BY <1>1, <2>1 DEF Leave, JoiningOK
<1>4. \A d \in Processes \ {c} : call'[d].now = call[d].now
  BY <1>1 DEF Leave, RestOK
<1>5. tick' = [tick EXCEPT ![c] = Idle]
  BY DEF Leave, Set
<1>6. BotsOK'
  BY <1>2, <1>4, <1>5, IdleOK, TickMovesOn
<1> QED
  BY <1>2, <1>3, <1>6

(* A tick begins: it claims nothing yet.                                   *)
LEMMA BeginStep ==
  ASSUME RoundInvariant, BotsOK, NEW c \in Processes, BeginTick(c)
  PROVE  GameChange /\ JoiningOK' /\ BotsOK'
<1> DEFINE t == [Idle EXCEPT !.stage = "claiming"]
<1>1. RestOK /\ JoiningOK /\ c \in Callers /\ Processes \subseteq Callers
  BY BotParts, BotAssumption
<1>2. GameChange
  BY <1>1 DEF BeginTick, GameChange, Next, CycleStep
<1>3. JoiningOK'
  BY <1>1 DEF BeginTick, JoiningOK
<1>4. \A d \in Processes \ {c} : call'[d].now = call[d].now
  BY <1>1 DEF BeginTick, Reconcile, RestOK
<1>5. tick' = [tick EXCEPT ![c] = t] /\ UNCHANGED <<claims, lastAction>>
  BY DEF BeginTick, Set
<1>6. t \in BotTick /\ t.stage = "claiming" /\ t.taken = 0
  BY IdleOK DEF BotTick, Idle
<1> HIDE DEF t
<1>7. TickOK(t, cycles') /\ ~ Working(t)
  BY <1>6 DEF TickOK, Working
<1>8. BotsOK'
  BY <1>2, <1>4, <1>5, <1>7, TickMovesOn
<1> QED
  BY <1>2, <1>3, <1>8

(* A tick inserts its claim: the row was not there, so no running tick     *)
(* holds it, and nothing has been traded under it.                         *)
LEMMA ClaimStep ==
  ASSUME RoundInvariant, BotsOK, NEW c \in Processes, ClaimTick(c)
  PROVE  GameChange /\ JoiningOK' /\ BotsOK'
<1>1. UNCHANGED <<clock, users, cycles, price, lastAction>>
      /\ tick[c].stage = "claiming"
  BY DEF ClaimTick
<1>2. CASE Leave(c) /\ UNCHANGED claims
  BY <1>1, <1>2, LeaveStep
<1>3. ASSUME NEW k \in DOMAIN cycles, Unclaimed(k, TickId(c)),
             claims' = WithClaim(<<k, TickId(c)>>),
             Set(c, [tick[c] EXCEPT !.stage = "provisioning", !.cycle = k]),
             UNCHANGED <<call, joining>>
      PROVE  GameChange /\ JoiningOK' /\ BotsOK'
  <2> DEFINE t == [tick[c] EXCEPT !.stage = "provisioning", !.cycle = k]
             key == <<k, TickId(c)>>
             none == [b \in Bots |-> 0]
  <2>1. GameChange
    BY <1>1, <1>3 DEF GameChange, vars
  <2>2. JoiningOK'
    BY <1>3, BotParts DEF JoiningOK
  <2>3. key \notin DOMAIN claims
        /\ claims' = [s \in DOMAIN claims \cup {key} |->
                       IF s = key THEN none ELSE claims[s]]
    BY <1>3 DEF Unclaimed, WithClaim
  <2>4. k \in Nat
    BY BotParts, LenProperties DEF TableOK
  <2>5. tick[c] \in BotTick /\ tick[c].taken = 0
    BY <1>1 DEF BotsOK, TickOK
  <2>6. t \in BotTick /\ t.stage = "provisioning" /\ t.taken = 0 /\ t.cycle = k
    BY <2>4, <2>5 DEF BotTick
  <2>7. tick' = [tick EXCEPT ![c] = t]
    BY <1>3 DEF Set
  <2>8. key = <<k, call[c].now \div TickInterval>>
    BY DEF TickId
  <2>9. /\ none \in [Bots -> Nat] /\ \A b \in Bots : none[b] = 0
        /\ Acted(none) = {}
    BY DEF Acted
  <2> HIDE DEF t, none, key
  <2>10. Cardinality(Acted(none)) = 0
    BY <2>9, FS_EmptySet
  <2>11. OneTurn(none)
    BY <2>9, <2>10, BotAssumption DEF OneTurn
  <2>12. Honest(t, none)
    BY <2>6, <2>9, <2>10 DEF Honest
  <2>13. TickOK(t, cycles')
    BY <1>1, <2>6 DEF TickOK
  <2>14. Key(t, call'[c].now) = key
    BY <1>3, <2>6, <2>8 DEF Key
  <2>15. /\ DOMAIN claims' = DOMAIN claims \cup {key} /\ claims'[key] = none
         /\ \A s \in DOMAIN claims : claims'[s] = claims[s]
    BY <2>3
  <2>16. \A s \in DOMAIN claims' : OneTurn(claims'[s])
    BY <2>11, <2>15 DEF BotsOK
  <2>17. lastAction' \in [Bots -> Nat \cup {None}]
    BY <1>1 DEF BotsOK
  <2> HIDE DEF OneTurn, TickOK, Honest, Key, Working
  <2>18. DOMAIN cycles \subseteq DOMAIN cycles'
         /\ \A d \in Processes \ {c} : call'[d].now = call[d].now
    BY <1>1, <1>3
  <2>19. BotsOK'
    BY <2>3, <2>7, <2>12, <2>13, <2>14, <2>15, <2>16, <2>17, <2>18, TickMoves
  <2> QED
    BY <2>1, <2>2, <2>19
<1> QED
  BY <1>2, <1>3 DEF ClaimTick

(* What a tick past its claim knows of it.                                 *)
LEMMA WorkingTick ==
  ASSUME RoundInvariant, BotsOK, NEW c \in Processes, Working(tick[c])
  PROVE  LET held == claims[Key(tick[c], call[c].now)]
         IN  /\ Key(tick[c], call[c].now) \in DOMAIN claims
             /\ held \in [Bots -> Nat] /\ OneTurn(held) /\ Honest(tick[c], held)
             /\ tick[c].cycle \in DOMAIN cycles
BY DEF BotsOK, TickOK, OneTurn

(* A bot of the roster has its account.                                    *)
LEMMA ProvisionStep ==
  ASSUME RoundInvariant, BotsOK, NEW c \in Processes, ProvisionBot(c)
  PROVE  GameChange /\ JoiningOK' /\ BotsOK'
<1> DEFINE u == Roster[tick[c].bot].user
           b0 == tick[c].bot
           read == [tick[c] EXCEPT !.seen[b0] = lastAction[b0]]
           t == IF b0 < Len(Roster) THEN [read EXCEPT !.bot = @ + 1]
                ELSE [read EXCEPT !.stage = "acting", !.bot = 1]
           held == claims[Key(tick[c], call[c].now)]
<1>1. /\ tick[c].stage = "provisioning" /\ users' = users \cup {u}
      /\ UNCHANGED <<clock, cycles, price, call, joining, claims, lastAction>>
      /\ tick' = [tick EXCEPT ![c] = t]
  BY DEF ProvisionBot, Bot, Set
<1>2. JoiningOK /\ u \in Users /\ tick[c] \in BotTick /\ b0 \in Bots
  BY BotParts
<1>3. GameChange
  <2>1. CASE u \in users
    <3>1. users' = users
      BY <1>1, <2>1
    <3> QED
      BY <1>1, <3>1 DEF GameChange, vars
  <2>2. CASE u \notin users
    BY <1>1, <1>2, <2>2 DEF GameChange, Next, RegisterUser
  <2> QED
    BY <2>1, <2>2
<1>4. JoiningOK'
  BY <1>1, <1>2 DEF JoiningOK
<1>5. lastAction[b0] \in Nat \cup {None}
  BY <1>2 DEF BotsOK
<1>6. read \in BotTick /\ read.stage = "provisioning" /\ read.bot = b0
      /\ read.taken = tick[c].taken /\ read.cycle = tick[c].cycle
  BY <1>1, <1>2, <1>5 DEF BotTick
<1> HIDE DEF read
<1>7. /\ t \in BotTick /\ t.stage \in {"provisioning", "acting"}
      /\ t.taken = tick[c].taken /\ t.cycle = tick[c].cycle
  <2>1. b0 < Len(Roster) => b0 + 1 \in Bots
    BY <1>2, RosterOK
  <2> QED
    BY <1>6, <2>1, RosterOK DEF BotTick
<1>8. Working(tick[c])
  BY <1>1 DEF Working
<1>9. Honest(tick[c], held) /\ tick[c].cycle \in DOMAIN cycles
  BY <1>8, WorkingTick
<1> HIDE DEF t, held
<1>10. Honest(t, held)
  BY <1>1, <1>7, <1>9 DEF Honest, Pending
<1>11. TickOK(t, cycles')
  BY <1>1, <1>7, <1>9 DEF TickOK
<1>12. Key(t, call'[c].now) = Key(tick[c], call[c].now)
  BY <1>1, <1>7 DEF Key
<1>13. BotsOK'
  BY <1>1, <1>3, <1>8, <1>10, <1>11, <1>12, TickMovesOn DEF held
<1> QED
  BY <1>3, <1>4, <1>13

(* A tick that moves on while nothing else does.                           *)
LEMMA QuietStep ==
  ASSUME RoundInvariant, BotsOK, NEW c \in Processes, NEW t,
         tick' = [tick EXCEPT ![c] = t],
         UNCHANGED <<clock, users, cycles, price, call, joining, claims, lastAction>>,
         Working(tick[c]), TickOK(t, cycles), t.cycle = tick[c].cycle,
         Honest(t, claims[Key(tick[c], call[c].now)])
  PROVE  GameChange /\ JoiningOK' /\ BotsOK'
<1>1. GameChange
  BY DEF GameChange, vars
<1>2. JoiningOK'
  BY BotParts DEF JoiningOK
<1>3. Key(t, call'[c].now) = Key(tick[c], call[c].now)
  BY DEF Key
<1>4. TickOK(t, cycles')
  OBVIOUS
<1> HIDE DEF Working, Key, TickOK, Honest
<1>5. BotsOK'
  BY <1>1, <1>3, <1>4, TickMovesOn
<1> QED
  BY <1>1, <1>2, <1>5

(* The next bot has its turn: this one traded nothing.                     *)
LEMMA PassStep ==
  ASSUME RoundInvariant, BotsOK, NEW c \in Processes,
         tick[c].stage \in {"acting", "deciding", "trading"},
         tick' = [tick EXCEPT ![c] = Following(tick[c], "acting")],
         UNCHANGED <<clock, users, cycles, price, call, joining, claims, lastAction>>
  PROVE  GameChange /\ JoiningOK' /\ BotsOK'
<1> DEFINE held == claims[Key(tick[c], call[c].now)]
           t == Following(tick[c], "acting")
<1>1. Working(tick[c])
  BY DEF Working
<1>2. Honest(tick[c], held) /\ tick[c].cycle \in DOMAIN cycles
  BY <1>1, WorkingTick
<1>3. /\ tick[c] \in BotTick /\ tick[c].bot \in Nat /\ tick[c].taken \in Nat
      /\ \A b \in Bots : b \in Nat
  BY BotParts, RosterOK DEF BotTick
<1> HIDE DEF held, t
<1>4. Cardinality(Acted(held)) = tick[c].taken
      /\ \A b \in Bots : b > tick[c].bot => held[b] = 0
  <2>1. \A b \in Bots : b > tick[c].bot => b >= tick[c].bot
    BY <1>3
  <2> QED
    BY <1>2, <1>3, <2>1 DEF Honest, Pending
<1>5. TickOK(t, cycles) /\ Working(t) /\ t.cycle = tick[c].cycle /\ Honest(t, held)
  BY <1>2, <1>3, <1>4, FollowingOK DEF t
<1> QED
  BY <1>1, <1>5, QuietStep DEF held, t

(* A bot sits the tick out, or its trade is rejected.                      *)
LEMMA SkipStep ==
  ASSUME RoundInvariant, BotsOK, NEW c \in Processes, SkipBot(c) \/ RejectBot(c)
  PROVE  GameChange /\ JoiningOK' /\ BotsOK'
BY PassStep DEF SkipBot, RejectBot, Set

(* What a bot decides on is an order of something.                         *)
LEMMA DecisionsOK ==
  ASSUME RestOK, NEW k, NEW strategy, NEW o,
         strategy \in {"conservative", "momentum", "dip_buyer", "reckless"},
         NEW view \in [cash : Nat, holds : [Coins -> Nat]],
         o \in Decisions(k, strategy, view)
  PROVE  o \in Order /\ o.quantity > 0
<1>1. /\ o \in Purchases(strategy, view) \cup Sales(strategy, view)
      /\ o.quantity > 0
  BY DEF Decisions
<1>2. /\ Personality[strategy].stake \in {5, 10, 15, 40}
      /\ Personality[strategy].parts \in {0, 1, 2}
  BY DEF Personality
<1>3. CASE o \in Purchases(strategy, view)
  <2> DEFINE spend == Spend(strategy, view.cash)
  <2>1. PICK d \in Catalogue :
               price[d] > 0 /\ o = [type |-> "BUY", coin |-> d,
                                    quantity |-> (Scale * spend) \div price[d]]
    BY <1>3 DEF Purchases
  <2>2. d \in Coins /\ price[d] \in Nat
    BY <2>1 DEF RestOK, Catalogue
  <2>3. spend \in Nat
    <3> DEFINE part == RoundDiv(view.cash * Personality[strategy].stake, 100)
    <3>1. view.cash * Personality[strategy].stake \in Nat
      BY <1>2, SMT
    <3>2. part \in Nat
      BY <3>1, RoundDivAmount
    <3>3. view.cash \in Nat /\ MaxTradeSize \in Nat
      BY BotAssumption
    <3>4. spend = Min({part, MaxTradeSize, view.cash})
      BY DEF Spend
    <3> HIDE DEF part, spend
    <3>5. \A x, y, z \in Nat : Min({x, y, z}) \in {x, y, z}
      <4> SUFFICES ASSUME NEW x \in Nat, NEW y \in Nat, NEW z \in Nat
                   PROVE  Min({x, y, z}) \in {x, y, z}
        OBVIOUS
      <4>1. \E m \in {x, y, z} : \A n \in {x, y, z} : m <= n
        OBVIOUS
      <4> QED
        BY <4>1 DEF Min
    <3> QED
      BY <3>2, <3>3, <3>4, <3>5
  <2> HIDE DEF spend
  <2>4. Scale * spend \in Nat
    BY <2>3, RoundAssumption, SMT
  <2> DEFINE a == Scale * spend
  <2>5. a \div price[d] \in Nat
    <3>1. 0 * price[d] <= a /\ a < (a + 1) * price[d]
      BY <2>1, <2>2, <2>4, SMT
    <3> HIDE DEF a
    <3>2. a \div price[d] \in 0 .. a
      BY <2>1, <2>2, <2>4, <3>1, DivBetween DEF a
    <3> QED
      BY <2>4, <3>2 DEF a
  <2> QED
    BY <1>1, <2>1, <2>2, <2>5 DEF Order
<1>4. CASE o \in Sales(strategy, view)
  <2>1. PICK d \in Coins :
               o = [type |-> "SELL", coin |-> d,
                    quantity |-> view.holds[d] \div Personality[strategy].parts]
        /\ Personality[strategy].parts # 0
    BY <1>4 DEF Sales
  <2>2. view.holds[d] \in Nat
    OBVIOUS
  <2>3. \A n \in Nat : n \div 1 \in Nat /\ n \div 2 \in Nat
    BY SMT
  <2>4. view.holds[d] \div Personality[strategy].parts \in Nat
    BY <1>2, <2>1, <2>2, <2>3
  <2> QED
    BY <1>1, <2>1, <2>4 DEF Order
<1> QED
  BY <1>1, <1>3, <1>4

(* A bot decides, or holds.                                                *)
LEMMA DecideStep ==
  ASSUME RoundInvariant, BotsOK, NEW c \in Processes, DecideBotAction(c)
  PROVE  GameChange /\ JoiningOK' /\ BotsOK'
<1>1. tick[c].stage = "deciding"
      /\ UNCHANGED <<clock, users, cycles, price, call, joining, claims, lastAction>>
  BY DEF DecideBotAction
<1>2. CASE Set(c, Following(tick[c], "acting"))
  BY <1>1, <1>2, PassStep DEF Set
<1>3. ASSUME NEW o \in Decisions(tick[c].cycle, Bot(c).strategy, tick[c].view),
             Set(c, [tick[c] EXCEPT !.stage = "trading", !.order = o, !.view = NoView])
      PROVE  GameChange /\ JoiningOK' /\ BotsOK'
  <2> DEFINE t == [tick[c] EXCEPT !.stage = "trading", !.order = o, !.view = NoView]
             held == claims[Key(tick[c], call[c].now)]
  <2>1. tick[c] \in BotTick /\ tick[c].bot \in Bots /\ RestOK
    BY BotParts
  <2>2. tick[c].view \in [cash : Nat, holds : [Coins -> Nat]]
    BY <2>1 DEF BotTick
  <2>3. o \in Order /\ o.quantity > 0
    BY <2>1, <2>2, RosterOK, DecisionsOK DEF Bot
  <2>4. NoView \in [cash : Nat, holds : [Coins -> Nat]]
    BY DEF NoView
  <2>5. /\ t \in BotTick /\ t.stage = "trading" /\ t.order = o
        /\ t.cycle = tick[c].cycle /\ t.taken = tick[c].taken /\ t.bot = tick[c].bot
    BY <2>1, <2>3, <2>4 DEF BotTick
  <2>6. Working(tick[c])
    BY <1>1 DEF Working
  <2>7. Honest(tick[c], held) /\ tick[c].cycle \in DOMAIN cycles
        /\ tick[c].taken < MaxActions
    BY <1>1, <2>6, WorkingTick DEF BotsOK, TickOK
  <2>8. tick' = [tick EXCEPT ![c] = t]
    BY <1>3 DEF Set
  <2> HIDE DEF t, held
  <2>9. TickOK(t, cycles)
    BY <2>3, <2>5, <2>7 DEF TickOK
  <2>10. Honest(t, held)
    BY <1>1, <2>5, <2>7 DEF Honest, Pending
  <2> QED
    BY <1>1, <2>5, <2>6, <2>8, <2>9, <2>10, QuietStep DEF held
<1> QED
  BY <1>2, <1>3 DEF DecideBotAction

(* The bot's action is counted and stamped.                                *)
LEMMA StampStep ==
  ASSUME RoundInvariant, BotsOK, NEW c \in Processes, StampBot(c)
  PROVE  GameChange /\ JoiningOK' /\ BotsOK'
<1> DEFINE held == claims[Key(tick[c], call[c].now)]
           more == [tick[c] EXCEPT !.taken = @ + 1]
           t == Following(more, "acting")
<1>1. /\ tick[c].stage = "stamping"
      /\ UNCHANGED <<clock, users, cycles, price, call, joining, claims>>
      /\ lastAction' = [lastAction EXCEPT ![tick[c].bot] = call[c].now]
      /\ tick' = [tick EXCEPT ![c] = t]
  BY DEF StampBot, Set
<1>2. Working(tick[c])
  BY <1>1 DEF Working
<1>3. /\ Honest(tick[c], held) /\ tick[c].cycle \in DOMAIN cycles
      /\ Key(tick[c], call[c].now) \in DOMAIN claims
  BY <1>2, WorkingTick
<1>4. /\ tick[c] \in BotTick /\ tick[c].bot \in Bots /\ call[c].now \in Nat
      /\ JoiningOK
  BY BotParts
<1>5. /\ more \in BotTick /\ more.taken = tick[c].taken + 1
      /\ more.bot = tick[c].bot /\ more.cycle = tick[c].cycle
  BY <1>4 DEF BotTick
<1> HIDE DEF held, more
<1>6. Cardinality(Acted(held)) = more.taken
      /\ \A b \in Bots : b > more.bot => held[b] = 0
  BY <1>1, <1>3, <1>5 DEF Honest, Pending
<1>7. TickOK(t, cycles) /\ Working(t) /\ t.cycle = tick[c].cycle /\ Honest(t, held)
  BY <1>3, <1>5, <1>6, FollowingOK
<1>8. lastAction' \in [Bots -> Nat \cup {None}]
  BY <1>1, <1>4 DEF BotsOK
<1> HIDE DEF t
<1>9. Key(t, call'[c].now) = Key(tick[c], call[c].now)
  BY <1>1, <1>7 DEF Key
<1>10. \A k \in DOMAIN claims : OneTurn(claims[k])
  BY DEF BotsOK
<1>11. GameChange /\ JoiningOK'
  BY <1>1, <1>4 DEF GameChange, vars, JoiningOK
<1> HIDE DEF Working, Key, TickOK, Honest, OneTurn
<1>12. TickOK(t, cycles') /\ claims' = claims /\ cycles' = cycles /\ call' = call
  BY <1>1, <1>7
<1>13. BotsOK'
  BY <1>1, <1>2, <1>3, <1>7, <1>8, <1>9, <1>10, <1>12, TickMoves DEF held
<1> QED
  BY <1>11, <1>13

(* A bot's join begins, within the tick's limit.                           *)
LEMMA StartJoinStep ==
  ASSUME RoundInvariant, BotsOK, NEW c \in Processes, StartJoin(c)
  PROVE  GameChange /\ JoiningOK' /\ BotsOK'
<1> DEFINE t == [tick[c] EXCEPT !.stage = "joining"]
           held == claims[Key(tick[c], call[c].now)]
           join == [user |-> Roster[tick[c].bot].user, attempt |-> 1]
<1>1. /\ tick[c].stage = "acting" /\ ~ Resting(tick[c], call[c].now)
      /\ joining' = [joining EXCEPT ![c] = join]
      /\ Goto(c, "freeze")
      /\ tick' = [tick EXCEPT ![c] = t]
      /\ UNCHANGED <<clock, users, cycles, price, claims, lastAction>>
  BY DEF StartJoin, Set, Bot
<1>2. /\ RestOK /\ JoiningOK /\ c \in Callers /\ Processes \subseteq Callers
      /\ tick[c] \in BotTick /\ Roster[tick[c].bot].user \in Users
  BY BotParts, BotAssumption
<1>3. GameChange
  BY <1>1, <1>2 DEF GameChange, CallStep
<1>4. join \in Join /\ join.user \in Users
  BY <1>2, RoundAssumption DEF Join
<1> HIDE DEF join
<1>5. JoiningOK'
  BY <1>1, <1>2, <1>4 DEF JoiningOK
<1>6. /\ \A d \in Processes : call'[d].now = call[d].now
  BY <1>1, <1>2 DEF Goto, RestOK
<1>7. tick[c].taken < MaxActions
  BY <1>1, <1>2, BotAssumption DEF Resting, BotTick
<1>8. Working(tick[c])
  BY <1>1 DEF Working
<1>9. Honest(tick[c], held) /\ tick[c].cycle \in DOMAIN cycles
  BY <1>8, WorkingTick
<1>10. /\ t \in BotTick /\ t.stage = "joining" /\ t.taken = tick[c].taken
       /\ t.cycle = tick[c].cycle /\ t.bot = tick[c].bot
  BY <1>2 DEF BotTick
<1> HIDE DEF t, held
<1>11. TickOK(t, cycles')
  BY <1>1, <1>7, <1>9, <1>10 DEF TickOK
<1>12. Honest(t, held)
  BY <1>1, <1>9, <1>10 DEF Honest, Pending
<1>13. Key(t, call'[c].now) = Key(tick[c], call[c].now)
  BY <1>6, <1>10 DEF Key
<1>14. BotsOK'
  BY <1>1, <1>3, <1>6, <1>8, <1>11, <1>12, <1>13, TickMovesOn DEF held
<1> QED
  BY <1>3, <1>5, <1>14

(* A pass of a bot's join.                                                 *)
LEMMA FinishJoinStep ==
  ASSUME RoundInvariant, BotsOK, NEW c \in Processes, FinishJoin(c)
  PROVE  GameChange /\ JoiningOK' /\ BotsOK'
<1> DEFINE held == claims[Key(tick[c], call[c].now)]
<1>1. /\ tick[c].stage = "joining" /\ JoinActiveCycle(c)
      /\ UNCHANGED <<claims, lastAction>>
  BY DEF FinishJoin
<1>2. /\ RestOK /\ TableOK /\ JoiningOK /\ c \in Callers /\ Processes \subseteq Callers
      /\ tick[c] \in BotTick /\ Roster[tick[c].bot].user \in Users
  BY BotParts, BotAssumption
<1>3. RoundStep({c}, {})
  BY <1>1 DEF RoundStep
<1>4. GameChange /\ JoiningOK'
  BY <1>2, <1>3, RoundCases
<1>5. \A d \in Processes \ {c} : call'[d].now = call[d].now
  BY <1>2, <1>3, NowsKept
<1>6. call'[c].now = call[c].now
  BY <1>1, <1>2 DEF JoinActiveCycle, Goto, RestOK
<1>7. DOMAIN cycles \subseteq DOMAIN cycles'
  BY <1>4, CyclesStay DEF RoundInvariant
<1>8. Working(tick[c])
  BY <1>1 DEF Working
<1>9. Honest(tick[c], held) /\ tick[c].cycle \in DOMAIN cycles
      /\ tick[c].taken < MaxActions
  BY <1>1, <1>8, WorkingTick DEF BotsOK, TickOK
<1> HIDE DEF held
<1>10. ASSUME NEW view \in [cash : Nat, holds : [Coins -> Nat]], NEW stage,
              \/ stage = "deciding"
              \/ stage = "joining" /\ view = tick[c].view,
              tick' = [tick EXCEPT ![c] =
                         [tick[c] EXCEPT !.stage = stage, !.view = view]]
       PROVE  BotsOK'
  <2> DEFINE t == [tick[c] EXCEPT !.stage = stage, !.view = view]
  <2>1. /\ t \in BotTick /\ t.stage \in {"joining", "deciding"}
        /\ t.taken = tick[c].taken
        /\ t.cycle = tick[c].cycle /\ t.bot = tick[c].bot
    BY <1>2, <1>10 DEF BotTick
  <2>2. tick' = [tick EXCEPT ![c] = t]
    BY <1>10
  <2> HIDE DEF t
  <2>3. TickOK(t, cycles')
    BY <1>7, <1>9, <2>1 DEF TickOK
  <2>4. Honest(t, held)
    BY <1>1, <1>9, <2>1 DEF Honest, Pending
  <2>5. Key(t, call'[c].now) = Key(tick[c], call[c].now)
    BY <1>6, <2>1 DEF Key
  <2> QED
    BY <1>1, <1>4, <1>5, <1>8, <2>2, <2>3, <2>4, <2>5, TickMovesOn DEF held
<1>11. ASSUME UNCHANGED tick PROVE BotsOK'
  <2>1. tick[c].view \in [cash : Nat, holds : [Coins -> Nat]]
    BY <1>2 DEF BotTick
  <2>2. [tick[c] EXCEPT !.stage = "joining", !.view = tick[c].view] = tick[c]
    BY <1>1, <1>2 DEF BotTick
  <2>3. tick' = [tick EXCEPT ![c] = tick[c]]
    BY <1>11 DEF BotsOK
  <2> QED
    BY <1>10, <2>1, <2>2, <2>3
<1>12. ASSUME NEW k \in DOMAIN cycles,
              LET p == cycles'[k].participants[Bot(c).user]
              IN  Set(c, [tick[c] EXCEPT !.stage = "deciding",
                            !.view = [cash |-> p.cash, holds |-> p.holds]])
       PROVE  BotsOK'
  <2> DEFINE p == cycles'[k].participants[Roster[tick[c].bot].user]
  <2>1. LawfulInvariant'
    BY <1>4, ChangeStep DEF RoundInvariant
  <2>2. cycles' \in Seq(Cycle)
    BY <2>1 DEF LawfulInvariant, Invariant, TypeOK
  <2>3. cycles'[k] \in Cycle
    BY <1>7, <2>2, LenProperties, ElementOfSeq
  <2>4. p \in Participant
    BY <1>2, <2>3 DEF Cycle
  <2> DEFINE view == [cash |-> p.cash, holds |-> p.holds]
  <2>5. tick' = [tick EXCEPT ![c] = [tick[c] EXCEPT !.stage = "deciding", !.view = view]]
    BY <1>12 DEF Set, Bot
  <2>6. view \in [cash : Nat, holds : [Coins -> Nat]]
    BY <2>4 DEF Participant
  <2> HIDE DEF view
  <2> QED
    BY <1>10, <2>5, <2>6
<1>13. BotsOK'
  BY <1>11, <1>12 DEF FinishJoin
<1> QED
  BY <1>4, <1>13

(* A bot trades: the first time under this claim, and within the limit.    *)
LEMMA TradeStep ==
  ASSUME RoundInvariant, BotsOK, NEW c \in Processes, TradeBot(c)
  PROVE  GameChange /\ JoiningOK' /\ BotsOK'
<1> DEFINE key == Key(tick[c], call[c].now)
           held == claims[key]
           b0 == tick[c].bot
           more == [held EXCEPT ![b0] = held[b0] + 1]
           t == [tick[c] EXCEPT !.stage = "stamping", !.order = NoOrder]
           o == tick[c].order
           u == Roster[b0].user
           k == tick[c].cycle
<1>1. /\ tick[c].stage = "trading"
      /\ \/ BuyRoundTrade(k, u, o.coin, o.quantity, call[c].now)
         \/ SellRoundTrade(k, u, o.coin, o.quantity, call[c].now)
      /\ claims' = [claims EXCEPT ![<<k, TickId(c)>>][b0] = @ + 1]
      /\ tick' = [tick EXCEPT ![c] = t]
      /\ UNCHANGED lastAction
  BY DEF TradeBot, Pinned, Bot, Set
<1>2. /\ RestOK /\ TableOK /\ JoiningOK /\ tick[c] \in BotTick
      /\ u \in Users /\ b0 \in Bots
  BY BotParts
<1>3. o \in Order /\ o.quantity > 0 /\ tick[c].taken < MaxActions
  BY <1>1 DEF BotsOK, TickOK
<1>4. Working(tick[c])
  BY <1>1 DEF Working
<1>5. /\ key \in DOMAIN claims /\ held \in [Bots -> Nat] /\ OneTurn(held)
      /\ Honest(tick[c], held) /\ k \in DOMAIN cycles
  BY <1>4, WorkingTick
<1>6. PlayStep
  <2>1. o.coin \in Coins /\ o.quantity \in Nat \ {0}
    BY <1>3 DEF Order
  <2> HIDE DEF o, u, k
  <2> QED
    BY <1>1, <1>2, <1>5, <2>1, BuyIsPlay, SellIsPlay
<1>7. UNCHANGED <<call, joining>>
  BY <1>1 DEF BuyRoundTrade, SellRoundTrade
<1>8. GameChange /\ JoiningOK'
  BY <1>2, <1>6, <1>7 DEF GameChange, JoiningOK
<1>9. DOMAIN cycles \subseteq DOMAIN cycles'
  BY <1>8, CyclesStay DEF RoundInvariant
<1>10. /\ DOMAIN claims' = DOMAIN claims /\ claims'[key] = more
       /\ \A s \in DOMAIN claims : s # key => claims'[s] = claims[s]
  BY <1>1, <1>5 DEF Key, TickId
<1>11. /\ t \in BotTick /\ t.stage = "stamping" /\ t.taken = tick[c].taken
       /\ t.cycle = k /\ t.bot = b0
  BY <1>2 DEF BotTick
<1>12. /\ held[b0] = 0 /\ Cardinality(Acted(held)) = tick[c].taken
       /\ \A b \in Bots : b > b0 => held[b] = 0
  <2>1. /\ b0 \in Nat /\ tick[c].taken \in Nat /\ \A b \in Bots : b \in Nat
    BY <1>2, RosterOK DEF BotTick
  <2>2. \A b \in Bots : b >= b0 => Pending(tick[c], b)
    BY <1>1 DEF Pending
  <2> HIDE DEF held, b0
  <2>3. /\ \A b \in Bots : b > b0 => b >= b0
        /\ b0 >= b0
    BY <2>1
  <2> QED
    BY <1>1, <1>2, <1>5, <2>1, <2>2, <2>3 DEF Honest
<1>13. /\ more \in [Bots -> Nat] /\ more[b0] = 1
       /\ \A b \in Bots \ {b0} : more[b] = held[b]
  BY <1>2, <1>5, <1>12
<1> HIDE DEF key, held, more, t, b0
<1>14. /\ Acted(more) = Acted(held) \cup {b0} /\ b0 \notin Acted(held)
  BY <1>2, <1>12, <1>13 DEF Acted
<1>15. Cardinality(Acted(more)) = tick[c].taken + 1
  <2>1. IsFiniteSet(Bots)
    BY RosterOK, FS_Interval
  <2>2. IsFiniteSet(Acted(held))
    BY <2>1, FS_Subset DEF Acted
  <2> QED
    BY <1>12, <1>14, <2>2, FS_AddElement
<1>16. OneTurn(more)
  <2>1. tick[c].taken \in Nat /\ MaxActions \in Nat
    BY <1>2, BotAssumption DEF BotTick
  <2>2. \A b \in Bots : more[b] <= 1
    BY <1>5, <1>13 DEF OneTurn
  <2> QED
    BY <1>3, <1>13, <1>15, <2>1, <2>2 DEF OneTurn
<1>17. Honest(t, more)
  <2>1. \A b \in Bots : b > b0 => b # b0
    BY <1>2, RosterOK
  <2> QED
    BY <1>11, <1>12, <1>13, <1>15, <2>1 DEF Honest, Pending
<1>18. TickOK(t, cycles')
  BY <1>3, <1>5, <1>9, <1>11 DEF TickOK
<1>19. Key(t, call'[c].now) = key
  BY <1>7, <1>11 DEF Key, key
<1>20. lastAction' \in [Bots -> Nat \cup {None}]
  BY <1>1 DEF BotsOK
<1>21. \A s \in DOMAIN claims' : OneTurn(claims'[s])
  BY <1>10, <1>16 DEF BotsOK
<1> HIDE DEF OneTurn, TickOK, Honest, Working, Key
<1>22. BotsOK'
  <2>1. \A d \in Processes \ {c} : call'[d].now = call[d].now
    BY <1>7
  <2>2. \A s \in DOMAIN claims :
          s # Key(tick[c], call[c].now) \/ ~ Working(tick[c]) => claims'[s] = claims[s]
    BY <1>4, <1>10 DEF key
  <2>3. LET new == Key(t, call'[c].now)
        IN  /\ new \in DOMAIN claims' /\ Honest(t, claims'[new])
            /\ \/ new \notin DOMAIN claims
               \/ Working(tick[c]) /\ new = Key(tick[c], call[c].now)
    BY <1>4, <1>5, <1>10, <1>17, <1>19 DEF key
  <2>4. DOMAIN claims \subseteq DOMAIN claims'
    BY <1>10
  <2> QED
    BY <1>1, <1>9, <1>18, <1>20, <1>21, <2>1, <2>2, <2>3, <2>4, TickMoves
<1> QED
  BY <1>8, <1>22

(* What the rest of the system does leaves every tick as it is.            *)
LEMMA OthersStep ==
  ASSUME RoundInvariant, BotsOK, OtherStep
  PROVE  GameChange /\ JoiningOK' /\ BotsOK'
<1> DEFINE who == Callers \ Processes
<1>1. RestOK /\ TableOK /\ JoiningOK /\ Processes \subseteq Callers
  BY TypeOKParts, BotAssumption DEF RoundInvariant, LawfulInvariant, Invariant
<1>2. /\ LifecycleStep(who) \/ RoundStep(who, Humans)
      /\ UNCHANGED <<tick, claims, lastAction>>
  BY DEF OtherStep
<1>3. who \in SUBSET Callers /\ Humans \in SUBSET Users
  BY DEF Humans
<1>4. \A d \in Processes : d \in Callers \ who
  BY <1>1
<1> HIDE DEF who
<1>5. GameChange /\ JoiningOK'
  BY <1>1, <1>2, <1>3, RoundCases
<1>6. \A d \in Processes : call'[d].now = call[d].now
  BY <1>1, <1>2, <1>3, <1>4, NowsKept
<1>7. DOMAIN cycles \subseteq DOMAIN cycles'
  BY <1>5, CyclesStay DEF RoundInvariant
<1> QED
  BY <1>2, <1>5, <1>6, <1>7, TicksStay

-----------------------------------------------------------------------------
(* Theorems.                                                               *)

BotInvariant == RoundInvariant /\ BotsOK

(* Whatever a step of the bots or of the rest does, it changes the game as *)
(* some call, join or trade does, and keeps the ticks honest.              *)
LEMMA BotCases ==
  ASSUME BotInvariant, [BotNext]_botVars
  PROVE  GameChange /\ JoiningOK' /\ BotsOK'
<1>1. RoundInvariant /\ BotsOK
  BY DEF BotInvariant
<1>2. CASE OtherStep
  BY <1>1, <1>2, OthersStep
<1>3. ASSUME NEW c \in Processes, BotStep(c)
      PROVE  GameChange /\ JoiningOK' /\ BotsOK'
  <2>1. CASE BeginTick(c)
    BY <1>1, <2>1, BeginStep
  <2>2. CASE ClaimTick(c)
    BY <1>1, <2>2, ClaimStep
  <2>3. CASE ProvisionBot(c)
    BY <1>1, <2>3, ProvisionStep
  <2>4. CASE SkipBot(c) \/ RejectBot(c)
    BY <1>1, <2>4, SkipStep
  <2>5. CASE StartJoin(c)
    BY <1>1, <2>5, StartJoinStep
  <2>6. CASE FinishJoin(c)
    BY <1>1, <2>6, FinishJoinStep
  <2>7. CASE DecideBotAction(c)
    BY <1>1, <2>7, DecideStep
  <2>8. CASE TradeBot(c)
    BY <1>1, <2>8, TradeStep
  <2>9. CASE StampBot(c)
    BY <1>1, <2>9, StampStep
  <2>10. CASE RecordTick(c) \/ AbortTick(c)
    BY <1>1, <2>10, LeaveStep DEF RecordTick, AbortTick
  <2> QED
    BY <1>3, <2>1, <2>2, <2>3, <2>4, <2>5, <2>6, <2>7, <2>8, <2>9, <2>10 DEF BotStep
<1>4. CASE UNCHANGED botVars
  <2>1. /\ UNCHANGED <<clock, users, cycles, price, call, joining>>
        /\ UNCHANGED <<tick, claims, lastAction>>
    BY <1>4 DEF botVars
  <2>2. GameChange
    BY <2>1 DEF GameChange, vars
  <2>3. JoiningOK'
    BY <1>1, <2>1 DEF RoundInvariant, JoiningOK
  <2>4. BotsOK'
    BY <1>1, <2>1, TicksStay
  <2> QED
    BY <2>2, <2>3, <2>4
<1> QED
  BY <1>2, <1>3, <1>4 DEF BotNext

(* The invariants of the rounds hold with the bots in them, and every      *)
(* running tick is honest about its claim.                                 *)
THEOREM BotInvariantHolds == BotSpec => []BotInvariant
<1>1. BotInit => BotInvariant
  <2> SUFFICES ASSUME BotInit PROVE BotInvariant
    OBVIOUS
  <2>1. RoundInvariant
    BY RoundInvariantInit DEF BotInit
  <2>2. DOMAIN claims = {}
    BY DEF BotInit
  <2>3. lastAction \in [Bots -> Nat \cup {None}]
    BY DEF BotInit, NeverActed
  <2>4. tick = [c \in Processes |-> Idle]
    BY DEF BotInit
  <2>5. BotsOK
    BY <2>2, <2>3, <2>4, IdleOK DEF BotsOK
  <2> QED
    BY <2>1, <2>5 DEF BotInvariant
<1>2. BotInvariant /\ [BotNext]_botVars => BotInvariant'
  BY BotCases, ChangeStep DEF BotInvariant, RoundInvariant
<1> QED
  BY <1>1, <1>2, PTL DEF BotSpec

(* The rows of a round stay typed, and so never negative, whichever bot of *)
(* whichever process trades in it and however late (runBotTick).           *)
THEOREM BotsTypeCorrect == BotSpec => []BotTypeOK
<1>1. BotInvariant => BotTypeOK
  <2> SUFFICES ASSUME BotInvariant PROVE BotTypeOK
    OBVIOUS
  <2>1. RoundTypeOK
    BY DEF BotInvariant, RoundInvariant, LawfulInvariant, Invariant, RoundTypeOK, JoiningOK
  <2>2. BotsOK
    BY DEF BotInvariant
  <2>3. \A c \in Processes :
          /\ tick[c].stage \in {"idle", "claiming", "provisioning", "acting", "joining",
                                "deciding", "trading", "stamping", "recording"}
          /\ tick[c].bot \in Bots
          /\ tick[c].stage = "trading" => tick[c].order \in Order
    BY <2>2 DEF BotsOK, TickOK, BotTick
  <2> QED
    BY <2>1, <2>2, <2>3 DEF BotsOK, OneTurn, BotTypeOK
<1> QED
  BY <1>1, BotInvariantHolds, PTL

(* Each bot trades at most once under a tick id of a cycle and all of them *)
(* at most MaxActions times, over all processes and restarts: the unique   *)
(* (cycle_id, tick_id) of migration 012 is enough (runBotTick).            *)
THEOREM OneTurnEach == BotSpec => []OneTurnPerTick
<1>1. BotInvariant => OneTurnPerTick
  BY DEF BotInvariant, BotsOK, OneTurn, Acted, OneTurnPerTick
<1> QED
  BY <1>1, BotInvariantHolds, PTL

(* A trade under a claim is made in the cycle of the claim, while that     *)
(* cycle is ACTIVE, however slow the tick (executeDecision).               *)
THEOREM ClaimedCycleOnly == BotSpec => TradesUnderLiveClaim
<1>1. ASSUME BotInvariant, [BotNext]_botVars, NEW s \in DOMAIN claims,
             claims'[s] # claims[s]
      PROVE  /\ cycles[s[1]].status = "ACTIVE"
             /\ \A k \in DOMAIN cycles : k # s[1] => cycles'[k] = cycles[k]
  <2>1. claims' # claims
    BY <1>1
  <2>2. PICK c \in Processes : ClaimTick(c) \/ TradeBot(c)
    <3>1. ASSUME NEW c \in Processes, BotStep(c)
          PROVE  ClaimTick(c) \/ TradeBot(c)
      BY <2>1, <3>1 DEF BotStep, BeginTick, ProvisionBot, SkipBot, StartJoin, FinishJoin,
                        DecideBotAction, RejectBot, StampBot, RecordTick, AbortTick
    <3> QED
      BY <1>1, <2>1, <3>1 DEF BotNext, OtherStep, botVars
  <2>3. ~ ClaimTick(c)
    <3>1. ASSUME NEW t, t \notin DOMAIN claims, claims' = WithClaim(t)
          PROVE  FALSE
      <4>1. s # t /\ claims'[s] = claims[s]
        BY <3>1 DEF WithClaim
      <4> QED
        BY <1>1, <4>1
    <3> QED
      BY <2>1, <3>1 DEF ClaimTick, Unclaimed
  <2> DEFINE o == tick[c].order
             k == tick[c].cycle
             u == Roster[tick[c].bot].user
  <2>4. /\ \/ BuyRoundTrade(k, u, o.coin, o.quantity, call[c].now)
           \/ SellRoundTrade(k, u, o.coin, o.quantity, call[c].now)
        /\ claims' = [claims EXCEPT ![<<k, TickId(c)>>][tick[c].bot] = @ + 1]
    BY <2>2, <2>3 DEF TradeBot, Pinned, Bot
  <2>5. s = <<k, TickId(c)>>
    BY <1>1, <2>4
  <2>6. s[1] = k
    BY <2>5
  <2> HIDE DEF o, u, k
  <2>7. cycles[k].status = "ACTIVE"
    BY <2>4 DEF BuyRoundTrade, SellRoundTrade, BuyAllowed, SellAllowed, Live
  <2>8. \A j \in DOMAIN cycles : j # k => cycles'[j] = cycles[j]
    BY <2>4 DEF BuyRoundTrade, SellRoundTrade, Traded
  <2> QED
    BY <2>6, <2>7, <2>8
<1>2. BotInvariant /\ [BotNext]_botVars
      => [\A t \in DOMAIN claims :
            claims'[t] # claims[t] =>
              /\ cycles[t[1]].status = "ACTIVE"
              /\ \A k \in DOMAIN cycles : k # t[1] => cycles'[k] = cycles[k]]_botVars
  BY <1>1
<1> QED
  BY <1>2, BotInvariantHolds, PTL DEF BotSpec, TradesUnderLiveClaim

(* What a step leaves of a cycle it finds, bots playing or not.            *)
LEMMA BotsKeep ==
  ASSUME BotInvariant, [BotNext]_botVars, NEW k \in DOMAIN cycles
  PROVE  CycleKept(cycles[k], cycles'[k]) /\ cycles[k] \in Cycle
<1>1. cycles[k] \in Cycle
  BY TypeOKParts DEF BotInvariant, RoundInvariant, LawfulInvariant, Invariant, TableOK,
                     CycleOK
<1> QED
  BY <1>1, BotCases, ChangeKeeps DEF BotInvariant, RoundInvariant

(* No overlap of ticks, restarts or trades on an old market gives a player *)
(* something for nothing (botService, over gameRoundService).              *)
THEOREM BotsMintNothing == BotSpec => NothingForFree
<1>1. BotInvariant /\ [BotNext]_botVars
      => [EachParticipant(LAMBDA k, p, q :
            /\ (\E c \in Coins : q.holds[c] > p.holds[c]) => q.cash < p.cash
            /\ q.cash > p.cash => \E c \in Coins : q.holds[c] < p.holds[c]
            /\ \A c \in Coins :
                 q.holds[c] < p.holds[c] /\ price[c] > 0 => q.cash > p.cash)]_roundVars
  BY BotsKeep, KeptIsFair DEF EachParticipant
<1> QED
  BY <1>1, BotInvariantHolds, PTL DEF BotSpec, NothingForFree

(* No bot is enrolled anew by a tick of another process, a tick run again  *)
(* after a restart or a join that retries: it keeps its number, and only   *)
(* single trades at the live price move its cash and its coins (runBotTick,*)
(* joinRound).                                                             *)
THEOREM BotsEnrolOnce == BotSpec => EnrolledOnce
<1>1. BotInvariant /\ [BotNext]_botVars
      => [EachParticipant(LAMBDA k, p, q :
            /\ q.id = p.id /\ p.peak <= q.peak
            /\ p.status = "FINALIZED" => q = p
            /\ q.cash # p.cash \/ q.holds # p.holds =>
                 /\ UNCHANGED <<clock, users, price, call, joining>>
                 /\ \E coin \in Coins : FairDeal(p, q, coin))]_roundVars
  BY BotsKeep, KeptIsOnce DEF EachParticipant
<1> QED
  BY <1>1, BotInvariantHolds, PTL DEF BotSpec, EnrolledOnce

(* No tick that began before a cycle was frozen joins it or trades in it   *)
(* afterwards, with the `now` it still carries (runBotTick).               *)
THEOREM BotsLeaveFrozen == BotSpec => FrozenIsFrozen
<1>1. BotInvariant /\ [BotNext]_botVars
      => [\A k \in DOMAIN cycles : cycles[k].status # "ACTIVE" =>
            /\ Joined(cycles'[k].participants) = Joined(cycles[k].participants)
            /\ EachParticipant(LAMBDA j, p, q :
                 j = k => q.cash = p.cash /\ q.holds = p.holds)]_roundVars
  <2> SUFFICES ASSUME BotInvariant, [BotNext]_botVars,
                      NEW k \in DOMAIN cycles, cycles[k].status # "ACTIVE"
               PROVE  /\ Joined(cycles'[k].participants) = Joined(cycles[k].participants)
                      /\ \A u \in Joined(cycles[k].participants) :
                           /\ cycles'[k].participants[u].cash
                                = cycles[k].participants[u].cash
                           /\ cycles'[k].participants[u].holds
                                = cycles[k].participants[u].holds
    BY DEF EachParticipant
  <2>1. CycleKept(cycles[k], cycles'[k])
    BY BotsKeep
  <2> QED
    BY <2>1 DEF CycleKept, EnrolmentKept
<1> QED
  BY <1>1, BotInvariantHolds, PTL DEF BotSpec, FrozenIsFrozen

(* Bots, who bring old clocks like everybody, leave history alone: no tick *)
(* changes a COMPLETED cycle, its table or the ranks in it.                *)
THEOREM BotsLeaveHistory == BotSpec => HistoryIsFinal /\ []RankedByCash
<1>1. BotInvariant /\ [BotNext]_botVars
      => [\A k \in DOMAIN cycles :
            cycles[k].status = "COMPLETED" => cycles'[k] = cycles[k]]_vars
  BY BotCases, ChangeGrows DEF InStatus, BotInvariant, RoundInvariant
<1>2. BotInvariant => RankedByCash
  BY DEF BotInvariant, RoundInvariant, LawfulInvariant, Lawful, Law, FairRanks,
         RankedByCash, InStatus
<1> QED
  BY <1>1, <1>2, BotInvariantHolds, PTL DEF BotSpec, HistoryIsFinal

(* Bots of any number of processes do not keep the rounds from following   *)
(* one another as RoundLifecycle promises, as long as no reconciliation of *)
(* theirs, or of anybody's, opens a cycle beside one that is SETTLING.     *)
THEOREM BotsKeepTheRounds ==
  BotSpec /\ [][OpensAlone]_cycles => []Chained /\ ImplementsLifecycle
<1>1. BotInvariant /\ Solo /\ [BotNext]_botVars /\ [OpensAlone]_cycles => Solo'
  BY BotCases, SoloChange DEF BotInvariant, RoundInvariant
<1>2. BotInvariant /\ Chained' /\ [BotNext]_botVars => [Lifecycle!LifecycleNext]_Rounds
  BY BotCases, ChangeRefines DEF BotInvariant, RoundInvariant
<1>3. BotInit => Solo /\ Lifecycle!LifecycleInit
  BY SoloInit, RefineInit DEF BotInit, RoundInit
<1>4. Solo => Chained
  BY DEF Solo
<1> QED
  BY <1>1, <1>2, <1>3, <1>4, BotInvariantHolds, PTL
     DEF BotSpec, ImplementsLifecycle, Lifecycle!LifecycleSpec, Rounds, RoundsOf,
         RoundOf

(* And whatever they overlap with, rounds open and close one at a time and *)
(* are each published once (runBotTick's own reconcileCycle among others). *)
THEOREM BotsInAHurry == BotSpec => ImplementsHurried
<1>1. BotInvariant /\ [BotNext]_botVars
        => [\/ Lifecycle!OpenHurriedly
            \/ Lifecycle!CloseInTurn
            \/ Lifecycle!Publish]_Rounds
  BY BotCases, ChangeRefines DEF BotInvariant, RoundInvariant
<1>2. BotInit => Lifecycle!LifecycleInit
  BY RefineInit DEF BotInit, RoundInit
<1> QED
  BY <1>1, <1>2, BotInvariantHolds, PTL
     DEF BotSpec, ImplementsHurried, Lifecycle!HurriedSpec, Rounds, RoundsOf, RoundOf
=============================================================================
