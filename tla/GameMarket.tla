----------------------------- MODULE GameMarket -----------------------------
(***************************************************************************)
(* The price simulator (models/market-simulator.js) running beside the     *)
(* lifecycle and the players: the whole game.                              *)
(*                                                                         *)
(* Each simulator process remembers the prices it found when it started.   *)
(* A batch (updateAllPrices) is three steps: it reconciles like any other  *)
(* caller; it reads which coins are dead, outside any transaction; and it  *)
(* writes new prices in a transaction that locks every coin but not the    *)
(* lifecycle's advisory lock.  How far a price drifts is abstracted to     *)
(* Moves; the band it is kept in is the code's.  Batches of one process    *)
(* that overlap (a slow one outlives its interval) are two simulators here.*)
(***************************************************************************)
EXTENDS GameRound

CONSTANTS
  Sims,       \* the callers that are simulator processes
  Moves,      \* the drifts of a price in one batch
  MaxBatches  \* bound on the batches begun

ASSUME MarketAssumption ==
  /\ Sims \subseteq Callers
  /\ Moves \subseteq Int
  /\ MaxBatches \in Nat

VARIABLES
  sim,     \* per simulator: its stage and what it remembers
  batches  \* how many batches were begun

marketVars == <<clock, users, cycles, price, call, joining, sim, batches>>

Sim == [stage : {"stopped", "idle", "reconciling", "calculating"},
        initial : [Coins -> Nat], dead : SUBSET Coins]

Stopped == [stage |-> "stopped", initial |-> [c \in Coins |-> 0], dead |-> {}]

Stage(s, stage) == sim' = [sim EXCEPT ![s].stage = stage]

-----------------------------------------------------------------------------

(* start(): initialPrices are whatever the coins cost right now.           *)
Start(s) ==
  /\ sim[s].stage = "stopped"
  /\ sim' = [sim EXCEPT ![s] = [stage |-> "idle", initial |-> price, dead |-> {}]]
  /\ UNCHANGED <<clock, users, cycles, price, call, joining, batches>>

(* The process dies (server.js calls stop() only to exit): its memory and  *)
(* the batch it was in are gone.                                           *)
Stop(s) ==
  /\ sim[s].stage # "stopped"
  /\ sim' = [sim EXCEPT ![s] = Stopped]
  /\ call' = [call EXCEPT ![s] = [phase |-> "idle", now |-> 0]]
  /\ UNCHANGED <<clock, users, cycles, price, joining, batches>>

(* updateAllPrices begins with getGameState, hence with reconcileCycle.    *)
BeginBatch(s) ==
  /\ sim[s].stage = "idle"
  /\ batches < MaxBatches
  /\ batches' = batches + 1
  /\ Reconcile(s)
  /\ Stage(s, "reconciling")
  /\ UNCHANGED joining

(* getGameState threw: the batch is given up before it wrote anything.     *)
AbandonBatch(s) ==
  /\ sim[s].stage = "reconciling"
  /\ Fail(s)
  /\ Stage(s, "idle")
  /\ UNCHANGED <<joining, batches>>

(* getCollapsedCoinIds: executed in a cycle ACTIVE or SETTLING.            *)
CollapsedCoinIds ==
  { c \in Coins : \E k \in InStatus("ACTIVE") \cup InStatus("SETTLING") :
                    cycles[k].schedule[c].done # None }

ReadCollapsed(s) ==
  /\ sim[s].stage = "reconciling"
  /\ call[s].phase = "done"
  /\ sim' = [sim EXCEPT ![s].stage = "calculating", ![s].dead = CollapsedCoinIds]
  /\ UNCHANGED <<clock, users, cycles, price, call, joining, batches>>

FaultyNewPrice(initial, p, move) == p + move

(* calculateNewPrice: drift in proportion, so that zero stays where it is, *)
(* then keep within 20% .. 500% of the price remembered; the column rounds *)
(* the result to a penny.                                                  *)
NewPrice(initial, p, move) ==
  LET moved == IF p = 0 THEN 0 ELSE 10 * (p + move)
      low == 2 * initial
      high == 50 * initial
  IN  RoundDiv(IF moved < low THEN low ELSE IF moved > high THEN high ELSE moved, 10)

(* The two guards that roll a batch back: a dead coin that is not at zero, *)
(* and a price that is not positive, as a remembered zero always yields.   *)
BatchValid(s) ==
  /\ \A c \in sim[s].dead : price[c] = 0
  /\ \A c \in Coins \ sim[s].dead : sim[s].initial[c] > 0

FaultyPeaksReconciled(cycle, prices) == cycle

(* reconcileActivePeaks, on one cycle.                                     *)
PeaksReconciled(cycle, prices) ==
  IF cycle.status = "ACTIVE"
  THEN [cycle EXCEPT !.participants =
          [u \in Users |-> IF @[u].status = "ACTIVE" THEN Lifted(@[u], prices)
                                                     ELSE @[u]]]
  ELSE cycle

(* The write transaction.                                                  *)
WriteBatch(s) ==
  /\ sim[s].stage = "calculating"
  /\ \/ /\ BatchValid(s)
        /\ \E move \in [Coins \ sim[s].dead -> Moves] :
             price' = [c \in Coins |->
                         IF c \in sim[s].dead THEN price[c]
                         ELSE NewPrice(sim[s].initial[c], price[c], move[c])]
        /\ cycles' = [k \in DOMAIN cycles |-> PeaksReconciled(cycles[k], price')]
     \/ ~ BatchValid(s) /\ UNCHANGED <<price, cycles>>
  /\ Stage(s, "idle")
  /\ UNCHANGED <<clock, users, call, joining, batches>>

(* The write transaction fails for a reason of its own (a deadlock with a  *)
(* settlement, a lost connection) and rolls back.                          *)
FailBatch(s) ==
  /\ sim[s].stage = "calculating"
  /\ Stage(s, "idle")
  /\ UNCHANGED <<clock, users, cycles, price, call, joining, batches>>

SimStep ==
  \E s \in Sims : \/ Start(s)
                  \/ Stop(s)
                  \/ BeginBatch(s)
                  \/ AbandonBatch(s)
                  \/ ReadCollapsed(s)
                  \/ WriteBatch(s)
                  \/ FailBatch(s)

(* Everyone else, and the phases of the simulators' own calls.             *)
GameStep ==
  /\ LifecycleStep(Callers \ Sims) \/ RoundStep(Callers \ Sims, Users)
  /\ UNCHANGED <<sim, batches>>

MarketInit == /\ RoundInit
              /\ sim = [s \in Sims |-> Stopped]
              /\ batches = 0

MarketNext == SimStep \/ GameStep

MarketSpec == MarketInit /\ [][MarketNext]_marketVars

-----------------------------------------------------------------------------
(* Properties.                                                             *)

(* The rows keep their types with prices moving, and so does the memory of *)
(* each simulator: no batch, however many processes restart or race,       *)
(* stores a price below zero.                                              *)
MarketTypeOK ==
  /\ RoundTypeOK
  /\ sim \in [Sims -> Sim]
  /\ batches \in 0 .. MaxBatches

(* Whatever the simulators do to its price, nobody ever gets more of a     *)
(* coin that has collapsed in the round.                                   *)
DeadNeverBought ==
  [][\A k \in DOMAIN cycles : \A c \in Coins :
       cycles[k].schedule[c].done # None =>
         \A u \in Joined(cycles[k].participants) :
           cycles'[k].participants[u].holds[c]
             <= cycles[k].participants[u].holds[c]]_marketVars

(* "A coin collapsed in the ACTIVE cycle is dead for the rest of the       *)
(* cycle ... It stays exactly 0" (market-simulator.js:319-322).            *)
DeadStaysZero ==
  \A k \in InStatus("ACTIVE") : \A c \in Coins :
    cycles[k].schedule[c].done # None => price[c] = 0

(* "Zero itself therefore never reaches the invalid-write guard below and  *)
(* never causes a batch rollback" (market-simulator.js:324-325): no batch  *)
(* about to be written is doomed by a price of zero it remembers.          *)
ZeroNeverRollsBack ==
  \A s \in Sims : sim[s].stage = "calculating" =>
    \A c \in Coins \ sim[s].dead : sim[s].initial[c] > 0
=============================================================================
