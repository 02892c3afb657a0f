-------------------------- MODULE CollapseSchedule --------------------------
(***************************************************************************)
(* The persisted collapse schedule of one game cycle                       *)
(* (game/collapseScheduleService.js): when each rank collapses, which      *)
(* schedules a cycle may be given, and what executing the due rows does.   *)
(* Everything here is a function of its arguments; the state machines that *)
(* use it are ScheduleBuilder (the algorithm that computes a schedule) and *)
(* GameCycle (the lifecycle that persists and executes it).                *)
(***************************************************************************)
EXTENDS Integers, FiniteSets, Functions

CONSTANTS
  Coins,      \* every row of the coins table
  Retired     \* the coins retired from the catalogue (migration 014)

ASSUME CoinsAssumption ==
  /\ IsFiniteSet(Coins)
  /\ Retired \subseteq Coins

(* SQL NULL of a timestamp or a numeric column.                            *)
None == -1

(* The coins a schedule is drawn from: WHERE retired = FALSE.              *)
Catalogue == Coins \ Retired

(* Math.round(a / b) for a >= 0 and b > 0: halves round up.                *)
RoundDiv(a, b) == (2 * a + b) \div (2 * b)

(* The collapse window opens at 70% of the cycle.                          *)
WindowStart(start, end) == RoundDiv(10 * start + 7 * (end - start), 10)

(* The Faulty... definitions of the project are plausible bugs; the        *)
(* mutants of PROJECT.json swap them in and nothing else uses them.        *)
FaultyTruncatedCollapseTime(start, end, n, rank) ==
  LET w == WindowStart(start, end)
  IN  IF n = 1 THEN end ELSE w + ((end - w) \div (n - 1)) * rank

(* The instant rank (0 .. n-1) of n collapses: the last exactly at the     *)
(* end of the cycle, so a sole coin too; the others evenly spaced from the *)
(* window's start and rounded to a millisecond.                            *)
CollapseTime(start, end, n, rank) ==
  LET w == WindowStart(start, end)
  IN  IF rank = n - 1 THEN end
      ELSE RoundDiv(w * (n - 1) + (end - w) * rank, n - 1)

(* A row of coin_collapse_schedule; NoRow stands for its absence.          *)
Row == [rank : Nat \cup {None}, at : Nat \cup {None}, done : Nat \cup {None}]
NoRow == [rank |-> None, at |-> None, done |-> None]
Unscheduled == [c \in Coins |-> NoRow]

(* The row sets a cycle may be given: the seeded shuffle of the catalogue  *)
(* is some bijection from coins to ranks.                                  *)
Schedules(start, end) ==
  LET n == Cardinality(Catalogue)
      RowOf(rank) == [rank |-> rank,
                      at   |-> CollapseTime(start, end, n, rank),
                      done |-> None]
  IN  { [c \in Coins |-> IF c \in Catalogue THEN RowOf(rankOf[c]) ELSE NoRow] :
        rankOf \in Bijection(Catalogue, 0 .. n - 1) }

FaultyEverythingDue(rows, t) ==
  { c \in Coins : rows[c] # NoRow /\ rows[c].done = None }

FaultyDueOnTheDot(rows, t) ==
  { c \in Coins : rows[c] # NoRow /\ rows[c].done = None /\ rows[c].at = t }

(* Rows selected for execution: executed_at IS NULL AND scheduled_at <= t. *)
Due(rows, t) ==
  { c \in Coins : rows[c] # NoRow /\ rows[c].done = None /\ rows[c].at <= t }

(* executeDueCollapses, its effect on the schedule rows ...                *)
Executed(rows, t) ==
  [c \in Coins |-> IF c \in Due(rows, t) THEN [rows[c] EXCEPT !.done = t]
                                         ELSE rows[c]]

(* ... and on the live prices: exactly zero for every coin executed.       *)
Collapsed(rows, t, prices) ==
  [c \in Coins |-> IF c \in Due(rows, t) THEN 0 ELSE prices[c]]
=============================================================================
