------------------------------ MODULE GameCycle ------------------------------
(***************************************************************************)
(* The game lifecycle: reconcileCycle (game/gameCycleService.js) and the   *)
(* two settlement transactions it drives (game/gameSettlementService.js).  *)
(*                                                                         *)
(* Any number of callers (the cycle worker, the price simulator, the bot   *)
(* worker, every HTTP read of the game state) run reconcileCycle at the    *)
(* same time.  A call captures `now` once and then walks three phases,     *)
(* each its own transaction under the same advisory lock, so each phase is *)
(* one atomic action here; between two phases of one call anything else    *)
(* may run.  A failed or crashed transaction leaves no trace but its call  *)
(* is gone (Fail).                                                         *)
(***************************************************************************)
EXTENDS CollapseSchedule, Sequences

CONSTANTS
  Users,         \* user_ids that may register
  StartingCash,  \* resolveGameStartingCash, in pennies
  Baseline,      \* coins.cycle_baseline_price, per coin
  Duration,      \* GAME_CYCLE_DURATION_MS, in ticks of the model clock
  Aligned,       \* TRUE when Duration is the default half hour
  Callers,       \* the processes and requests that reconcile
  Worker,        \* the periodic game cycle worker, one of the callers
  MaxClock       \* bound on the model clock

ASSUME CycleAssumption ==
  /\ Users \subseteq Nat /\ IsFiniteSet(Users)
  /\ StartingCash \in Nat
  /\ Baseline \in [Coins -> Nat \ {0}]
  /\ Duration \in Nat \ {0}
  /\ Aligned \in BOOLEAN
  /\ Worker \in Callers
  /\ MaxClock \in Nat

VARIABLES
  clock,   \* the time every process reads
  users,   \* registered user_ids
  cycles,  \* apocalypse_cycles in cycle_id order, each with its dependent rows
  price,   \* coins.current_price
  call     \* per caller: the phase of its reconcileCycle call and its `now`

vars == <<clock, users, cycles, price, call>>

-----------------------------------------------------------------------------
(* Rows.                                                                   *)

Participant ==
  [status : {"ABSENT", "ACTIVE", "FINALIZED"}, id : Nat, cash : Nat,
   peak : Nat, final : Nat \cup {None}, holds : [Coins -> Nat]]

Absent ==
  [status |-> "ABSENT", id |-> 0, cash |-> 0, peak |-> 0, final |-> None,
   holds |-> [c \in Coins |-> 0]]

Result == [rank : Nat, cash : Nat, peak : Nat]
NoResult == [rank |-> 0, cash |-> 0, peak |-> 0]

Cycle ==
  [start : Nat, end : Nat, status : {"ACTIVE", "SETTLING", "COMPLETED"},
   schedule : [Coins -> Row], participants : [Users -> Participant],
   results : [Users -> Result]]

Joined(participants) == { u \in Users : participants[u].status # "ABSENT" }

InStatus(s) == { k \in DOMAIN cycles : cycles[k].status = s }

-----------------------------------------------------------------------------
(* Participants and results of one cycle.                                  *)

NewParticipant(id) ==
  [status |-> "ACTIVE", id |-> id, cash |-> StartingCash,
   peak |-> StartingCash, final |-> None, holds |-> [c \in Coins |-> 0]]

FaultyReenrolled(participants, who) ==
  [u \in Users |-> IF u \in who
                   THEN NewParticipant(Cardinality({v \in who : v <= u}))
                   ELSE participants[u]]

(* INSERT one row for each user of `who` ON CONFLICT DO NOTHING; a         *)
(* statement numbers its rows in user_id order, after those already there. *)
Enrolled(participants, who) ==
  LET fresh == who \ Joined(participants)
      IdOf(u) == Cardinality(Joined(participants))
                 + Cardinality({v \in fresh : v <= u})
  IN  [u \in Users |-> IF u \in fresh THEN NewParticipant(IdOf(u))
                                      ELSE participants[u]]

(* The final peak lift, then finalizeCycleParticipants: only rows still    *)
(* ACTIVE are touched.                                                     *)
Finalized(participants) ==
  LET Final(p) ==
        [p EXCEPT !.status = "FINALIZED", !.final = p.cash,
                  !.peak = IF p.peak < p.cash THEN p.cash ELSE p.peak]
  IN  [u \in Users |-> IF participants[u].status = "ACTIVE"
                       THEN Final(participants[u]) ELSE participants[u]]

FaultyBeats(p, q) == p.final > q.final \/ (p.final = q.final /\ p.id <= q.id)

FaultyBeatsById(p, q) == p.id < q.id

(* ORDER BY final_cash DESC, participant_id ASC.                           *)
Beats(p, q) == p.final > q.final \/ (p.final = q.final /\ p.id < q.id)

RankOf(participants, u) ==
  1 + Cardinality({v \in Joined(participants) :
                     Beats(participants[v], participants[u])})

(* The ranked snapshot, ON CONFLICT (cycle, participant) DO NOTHING.       *)
Ranked(participants, results) ==
  [u \in Users |->
     IF u \in Joined(participants) /\ results[u] = NoResult
     THEN [rank |-> RankOf(participants, u),
           cash |-> participants[u].final, peak |-> participants[u].peak]
     ELSE results[u]]

-----------------------------------------------------------------------------
(* One cycle's rows through its life.                                      *)

FaultyRerolled(cycle) == Schedules(cycle.start, cycle.end)

(* createScheduleForCycle: rows already there are authoritative.  New ones *)
(* record the live price as their baseline_price, which must be positive:  *)
(* with a coin of the catalogue at zero the INSERT fails, and with it the  *)
(* phase.                                                                  *)
ScheduleChoices(cycle) ==
  IF \E c \in Coins : cycle.schedule[c] # NoRow
  THEN {cycle.schedule}
  ELSE { rows \in Schedules(cycle.start, cycle.end) :
           \A c \in Catalogue : price[c] > 0 }

NewCycle(start, rows) ==
  [start |-> start, end |-> start + Duration, status |-> "ACTIVE",
   schedule |-> rows,
   participants |-> Enrolled([u \in Users |-> Absent], users),
   results |-> [u \in Users |-> NoResult]]

FaultySettledEarly(cycle, rows) ==
  LET finals == Finalized(cycle.participants)
  IN  [cycle EXCEPT !.status = "COMPLETED",
                    !.schedule = Executed(rows, cycle.end - 1),
                    !.participants = finals,
                    !.results = Ranked(finals, @)]

(* Everything the settle transaction writes to the cycle's rows.           *)
Settled(cycle, rows) ==
  LET finals == Finalized(cycle.participants)
  IN  [cycle EXCEPT !.status = "COMPLETED",
                    !.schedule = Executed(rows, cycle.end),
                    !.participants = finals,
                    !.results = Ranked(finals, @)]

FaultyRecoveredExpired(cycle, rows, now) ==
  [cycle EXCEPT !.schedule = Executed(rows, now),
                !.participants = Enrolled(@, users)]

FaultyRecoveredAlone(cycle, rows, now) ==
  [cycle EXCEPT !.schedule = IF cycle.end > now THEN Executed(rows, now)
                                                ELSE rows]

(* The recovery branch on a cycle found ACTIVE: complete its schedule and  *)
(* participants, and execute what is due only while it is live.            *)
Recovered(cycle, rows, now) ==
  [cycle EXCEPT !.schedule = IF cycle.end > now THEN Executed(rows, now)
                                                ELSE rows,
                !.participants = Enrolled(@, users)]

-----------------------------------------------------------------------------
(* reconcileCycle.                                                         *)

Goto(c, phase) == call' = [call EXCEPT ![c].phase = phase]

(* A call begins; `now` is read here and never again.                      *)
Reconcile(c) ==
  /\ call[c].phase \in {"idle", "done"}
  /\ call' = [call EXCEPT ![c] = [phase |-> "freeze", now |-> clock]]
  /\ UNCHANGED <<clock, users, cycles, price>>

FaultyFreezableOverSettling(now) ==
  { k \in InStatus("ACTIVE") : cycles[k].end <= now }

FaultyFreezableAnyStatus(now) ==
  { k \in DOMAIN cycles : /\ InStatus("SETTLING") = {}
                          /\ cycles[k].end <= now }

Freezable(now) ==
  { k \in InStatus("ACTIVE") : /\ InStatus("SETTLING") = {}
                               /\ cycles[k].end <= now }

(* Phase 1: an expired ACTIVE cycle becomes SETTLING, unless one is        *)
(* settling already; the loop starts over after a freeze.                  *)
FreezeExpiredActiveCycle(c) ==
  /\ call[c].phase = "freeze"
  /\ \/ /\ Freezable(call[c].now) = {}
        /\ Goto(c, "settle")
        /\ UNCHANGED cycles
     \/ \E k \in Freezable(call[c].now) :
          /\ cycles' = [cycles EXCEPT ![k].status = "SETTLING"]
          /\ Goto(c, "freeze")
  /\ UNCHANGED <<clock, users, price>>

FaultySettleable ==
  IF InStatus("ACTIVE") = {} THEN InStatus("SETTLING") ELSE {}

(* The SETTLING cycle settlement takes: the first, if there is one.        *)
Settleable ==
  { k \in InStatus("SETTLING") : \A j \in InStatus("SETTLING") : k <= j }

(* Phase 2: settle the SETTLING cycle completely, or not at all.           *)
SettleSettlingCycle(c) ==
  /\ call[c].phase = "settle"
  /\ \/ /\ Settleable = {}
        /\ Goto(c, "ensure")
        /\ UNCHANGED <<cycles, price>>
     \/ \E k \in Settleable : \E rows \in ScheduleChoices(cycles[k]) :
          /\ cycles' = [cycles EXCEPT ![k] = Settled(@, rows)]
          /\ price' = Collapsed(rows, cycles[k].end, price)
          /\ Goto(c, "freeze")
  /\ UNCHANGED <<clock, users>>

AlignStartTime(now) == IF Aligned THEN (now \div Duration) * Duration ELSE now

FaultyStartTimes(now) == {AlignStartTime(now)}

(* A successor starts where the latest COMPLETED cycle ended; the very     *)
(* first cycle starts at the aligned present.                              *)
StartTimes(now) ==
  IF InStatus("COMPLETED") = {}
  THEN {AlignStartTime(now)}
  ELSE { cycles[k].end : k \in { j \in InStatus("COMPLETED") :
           \A i \in InStatus("COMPLETED") : cycles[i].end <= cycles[j].end } }

FaultyReturn(c, end) == Goto(c, "freeze")

(* The loop returns a live cycle and starts over on an expired one.        *)
Return(c, end) == Goto(c, IF end > call[c].now THEN "done" ELSE "freeze")

FaultyRestoredPrices == price

(* restoreBaselinePrices: every coin, retired or not.                      *)
RestoredPrices == Baseline

(* Phase 3, no ACTIVE row: insert one, restore every baseline price,       *)
(* create its schedule and enrol every user.  Due rows are not executed.   *)
CreateActiveCycle(c) ==
  /\ InStatus("ACTIVE") = {}
  /\ \E start \in StartTimes(call[c].now) :
       /\ \E rows \in Schedules(start, start + Duration) :
            cycles' = Append(cycles, NewCycle(start, rows))
       /\ Return(c, start + Duration)
  /\ price' = RestoredPrices

(* Phase 3, an ACTIVE row exists: recover it.                              *)
RecoverActiveCycle(c) ==
  \E k \in InStatus("ACTIVE") : \E rows \in ScheduleChoices(cycles[k]) :
    /\ cycles' = [cycles EXCEPT ![k] = Recovered(@, rows, call[c].now)]
    /\ price' = IF cycles[k].end > call[c].now
                THEN Collapsed(rows, call[c].now, price) ELSE price
    /\ Return(c, cycles[k].end)

EnsureActiveCycle(c) ==
  /\ call[c].phase = "ensure"
  /\ CreateActiveCycle(c) \/ RecoverActiveCycle(c)
  /\ UNCHANGED <<clock, users>>

(* A phase's transaction throws and rolls back, or its process dies.       *)
Fail(c) ==
  /\ call[c].phase \in {"freeze", "settle", "ensure"}
  /\ call' = [call EXCEPT ![c] = [phase |-> "idle", now |-> 0]]
  /\ UNCHANGED <<clock, users, cycles, price>>

-----------------------------------------------------------------------------
(* The environment.                                                        *)

(* createUser: the users row commits on its own.                           *)
RegisterUser(u) ==
  /\ u \notin users
  /\ users' = users \cup {u}
  /\ UNCHANGED <<clock, cycles, price, call>>

Tick ==
  /\ clock < MaxClock
  /\ clock' = clock + 1
  /\ UNCHANGED <<users, cycles, price, call>>

(* A database without history, or one whose ACTIVE cycle was created       *)
(* before schedules and automatic participation existed.                   *)
LegacyCycle ==
  [start |-> 0, end |-> Duration, status |-> "ACTIVE",
   schedule |-> Unscheduled, participants |-> [u \in Users |-> Absent],
   results |-> [u \in Users |-> NoResult]]

Init ==
  /\ clock = 0
  /\ users = {}
  /\ cycles \in {<<>>, <<LegacyCycle>>}
  /\ price = Baseline
  /\ call = [c \in Callers |-> [phase |-> "idle", now |-> 0]]

(* A step of the clock or of a call.                                       *)
CycleStep ==
  \/ Tick
  \/ \E c \in Callers : \/ Reconcile(c)
                        \/ FreezeExpiredActiveCycle(c)
                        \/ SettleSettlingCycle(c)
                        \/ EnsureActiveCycle(c)
                        \/ Fail(c)

Next == CycleStep \/ \E u \in Users : RegisterUser(u)

Spec == Init /\ [][Next]_vars

(* The worker's interval keeps calling, and a phase that is attempted again*)
(* and again does not fail for ever.  Nothing is asked of other callers.   *)
Fairness ==
  /\ WF_vars(Reconcile(Worker))
  /\ SF_vars(FreezeExpiredActiveCycle(Worker))
  /\ SF_vars(SettleSettlingCycle(Worker))
  /\ SF_vars(EnsureActiveCycle(Worker))

FairSpec == Spec /\ Fairness

-----------------------------------------------------------------------------
(* Properties.                                                             *)

(* Every row has its type and obeys the CHECK constraints of migrations    *)
(* 007 to 011: a window of positive length, every coin scheduled within it *)
(* and executed_at not before scheduled_at, final_cash present exactly on  *)
(* FINALIZED participants.                                                 *)
RowOK(cycle, r) ==
  r # NoRow => /\ r.at \in cycle.start .. cycle.end
               /\ r.done # None => r.at <= r.done
ParticipantOK(p) == (p.final # None) <=> (p.status = "FINALIZED")

TypeOK ==
  /\ clock \in 0 .. MaxClock
  /\ users \subseteq Users
  /\ cycles \in Seq(Cycle)
  /\ \A k \in DOMAIN cycles :
       /\ cycles[k].start < cycles[k].end
       /\ \A c \in Coins : RowOK(cycles[k], cycles[k].schedule[c])
       /\ \A u \in Users : ParticipantOK(cycles[k].participants[u])
  /\ price \in [Coins -> Nat]
  /\ call \in [Callers -> [phase : {"idle", "freeze", "settle", "ensure", "done"},
                           now : 0 .. MaxClock]]

(* However calls interleave, at most one cycle is ACTIVE and at most one   *)
(* SETTLING: the partial unique indexes of migrations 007 and 011 are      *)
(* never what stops a phase.                                               *)
SingleLiveCycle ==
  \A j, k \in DOMAIN cycles :
    (cycles[j].status = cycles[k].status /\ cycles[j].status # "COMPLETED")
      => j = k

(* Settlement is all or nothing: a COMPLETED cycle has every row executed, *)
(* every participant FINALIZED and exactly their results, and any other    *)
(* cycle has none of its participants finalized and no result at all.      *)
SettledWhole ==
  \A k \in DOMAIN cycles :
    LET y == cycles[k]
    IN  IF y.status = "COMPLETED"
        THEN /\ \A c \in Coins : y.schedule[c] # NoRow => y.schedule[c].done # None
             /\ \A u \in Users :
                  /\ y.participants[u].status # "ACTIVE"
                  /\ (y.results[u] # NoResult) <=> (u \in Joined(y.participants))
        ELSE /\ \A u \in Users : /\ y.participants[u].status # "FINALIZED"
                                 /\ y.results[u] = NoResult

(* The ranks of a settled cycle are 1 .. N, each held once.                *)
RanksGapless ==
  \A k \in InStatus("COMPLETED") :
    LET who == Joined(cycles[k].participants)
    IN  { cycles[k].results[u].rank : u \in who } = 1 .. Cardinality(who)

(* No coin collapses early: while a cycle is ACTIVE the rows scheduled for *)
(* its very end are unexecuted, so its last coin is alive until the cycle  *)
(* is frozen, and no row ran before its time.                              *)
LastCoinSurvives ==
  \A k \in InStatus("ACTIVE") : \A c \in Coins :
    LET r == cycles[k].schedule[c]
    IN  /\ r # NoRow /\ r.at = cycles[k].end => r.done = None
        /\ r.done <= clock

(* Coins die in rank order, whatever stale `now` each call brings.         *)
CollapsesInRankOrder ==
  \A k \in DOMAIN cycles : \A c, d \in Coins :
    LET s == cycles[k].schedule
    IN  (s[d].done # None /\ s[c] # NoRow /\ s[c].rank < s[d].rank)
          => s[c].done # None /\ s[c].done <= s[d].done

(* A schedule, once persisted, is never rerolled: no later step changes a  *)
(* row's rank or time, or executes it a second time.                       *)
ScheduleNeverRerolled ==
  [][\A k \in DOMAIN cycles : \A c \in Coins :
       LET old == cycles[k].schedule[c]
           new == cycles'[k].schedule[c]
       IN  (\E d \in Coins : cycles[k].schedule[d] # NoRow)
             => /\ new.rank = old.rank
                /\ new.at = old.at
                /\ (old.done # None => new.done = old.done)]_vars

(* A COMPLETED cycle is history: no step ever touches it or its rows again *)
(* (migration 011's immutability triggers are never what protects it).     *)
HistoryIsFinal ==
  [][\A k \in DOMAIN cycles :
       cycles[k].status = "COMPLETED" => cycles'[k] = cycles[k]]_vars

(* Windows chain without gap or overlap, and a successor exists only once  *)
(* its predecessor is COMPLETED, as ImplementsLifecycle demands of every   *)
(* cycle that is opened.                                                   *)
Chained ==
  \A k \in DOMAIN cycles : k > 1 =>
    /\ cycles[k].start = cycles[k - 1].end
    /\ cycles[k - 1].status = "COMPLETED"

(* While a cycle is ACTIVE or SETTLING a coin's live price is zero exactly *)
(* when that cycle's schedule executed it: no earlier cycle's collapse     *)
(* leaks into it, and none of its own is lost.                             *)
PriceTellsDeath ==
  \A k \in InStatus("ACTIVE") \cup InStatus("SETTLING") : \A c \in Coins :
    (price[c] = 0) <=> (cycles[k].schedule[c].done # None)

(* The cycles as the rounds of RoundLifecycle.                             *)
Lifecycle ==
  INSTANCE RoundLifecycle WITH
    Players <- Users,
    rounds <- [k \in DOMAIN cycles |->
                 [start |-> cycles[k].start, end |-> cycles[k].end,
                  status |-> cycles[k].status,
                  standings |-> cycles[k].results]]

(* The lifecycle implements its abstract promise: every transaction is one *)
(* of its steps or none.                                                   *)
ImplementsLifecycle == Lifecycle!LifecycleSpec

(* However calls overlap, it keeps at least the promise that rounds open   *)
(* one at a time, close one at a time and are each published once: the one *)
(* thing overlapping calls can break is that a round opens early.          *)
ImplementsHurried == Lifecycle!HurriedSpec

(* A step that opens a cycle opens it with nothing left to settle.         *)
OpensAlone == Len(cycles') > Len(cycles) => InStatus("SETTLING") = {}

(* "concurrent processes can never create overlapping active cycles"       *)
(* (gameCycleService.js:130-131): no two cycles share a part of a window.  *)
NoOverlap ==
  \A j, k \in DOMAIN cycles : j < k => cycles[j].end <= cycles[k].start

(* The deadlock three overlapping calls can reach: a cycle created before  *)
(* schedules existed is SETTLING, its successor is already ACTIVE and has  *)
(* brought a price to zero.  Settlement must give the first a schedule,    *)
(* whose CHECK baseline_price > 0 (migration 008:216) fails; the second    *)
(* is not frozen while the first is SETTLING; and only creating a cycle    *)
(* restores prices.  Nothing but Tick, RegisterUser and failing calls is   *)
(* left, for ever.                                                         *)
Stalled ==
  /\ InStatus("ACTIVE") # {}
  /\ \E k \in InStatus("SETTLING") : cycles[k].schedule = Unscheduled
  /\ \E c \in Catalogue : price[c] = 0

(* "the next call resumes and converges to exactly one result set"         *)
(* (gameSettlementService.js:24-25): a SETTLING cycle is settled in the    *)
(* end.                                                                    *)
SettlementResumes == (InStatus("SETTLING") # {}) ~> (InStatus("SETTLING") = {})

(* No collapse is lost: again and again no row is left that is due, though *)
(* a cycle created past its collapse window returns with rows due, though  *)
(* calls with older clocks see nothing due, and whatever fails on the way. *)
DueCollapsesExecute ==
  []<>(Stalled \/ \A k \in DOMAIN cycles : \A c \in Coins :
                    LET r == cycles[k].schedule[c]
                    IN  r # NoRow /\ r.at <= clock => r.done # None)

(* Again and again every expired cycle is settled, whatever fails on the   *)
(* way and whatever the other callers do, short of the one deadlock.       *)
ExpiredCycleSettles ==
  []<>(Stalled \/ \A k \in DOMAIN cycles :
                    cycles[k].end <= clock => cycles[k].status = "COMPLETED")

(* Whoever registers eventually takes part: some reconciliation enrols     *)
(* them, and so they appear in a round without asking to join.             *)
RegisteredTakesPart ==
  \A u \in Users :
    u \in users ~> \/ Stalled
                   \/ \E k \in DOMAIN cycles : u \in Joined(cycles[k].participants)

(* The worker's reconcileCycle loop converges: again and again it returns  *)
(* a live cycle, long before its bound of 10000 passes.                    *)
WorkerReturns == []<>(Stalled \/ call[Worker].phase = "done")
=============================================================================
