--------------------------- MODULE ScheduleBuilder ---------------------------
(***************************************************************************)
(* buildSchedule (game/collapseScheduleService.js): a Fisher-Yates shuffle *)
(* of the catalogue driven by a random source, then the loop that gives    *)
(* each rank its time.  The run shows that whatever the source yields, the *)
(* rows built are a schedule GameCycle may persist, and what those times   *)
(* look like against the ideal spacing.                                    *)
(***************************************************************************)
EXTENDS CollapseSchedule, Sequences

CONSTANTS
  Starts,     \* cycle start times tried
  Durations,  \* cycle durations tried
  Canonical   \* the catalogue ordered by coin_id

ASSUME BuilderAssumption ==
  /\ Starts \subseteq Nat
  /\ Durations \subseteq Nat \ {0}
  /\ Canonical \in Seq(Catalogue)
  /\ Canonical \in Bijection(1 .. Cardinality(Catalogue), Catalogue)

VARIABLES
  start, end,  \* the cycle's window
  order,       \* the array being shuffled, index 1 is rank 0
  i,           \* the shuffle's loop variable, in 1-based positions
  times        \* the times computed so far, index 1 is rank 0

vars == <<start, end, order, i, times>>

coinCount == Len(Canonical)

Init ==
  /\ start \in Starts
  /\ \E d \in Durations : end = start + d
  /\ order = Canonical
  /\ i = coinCount
  /\ times = <<>>

(* Math.floor(random() * (i + 1)) for 0-based i: any position up to i.     *)
ShuffleRange(k) == 1 .. k

FaultySwapped(s, a, b) == [s EXCEPT ![a] = s[b]]

Swapped(s, a, b) == [s EXCEPT ![a] = s[b], ![b] = s[a]]

(* One turn of deterministicShuffle's loop.                                *)
Shuffle ==
  /\ i > 1
  /\ \E j \in ShuffleRange(i) : order' = Swapped(order, i, j)
  /\ i' = i - 1
  /\ UNCHANGED <<start, end, times>>

(* One turn of computeScheduleTimes' loop.                                 *)
PushTime ==
  /\ i <= 1
  /\ Len(times) < coinCount
  /\ times' = Append(times, CollapseTime(start, end, coinCount, Len(times)))
  /\ UNCHANGED <<start, end, order, i>>

Next == Shuffle \/ PushTime

Spec == Init /\ [][Next]_vars

-----------------------------------------------------------------------------

built == i <= 1 /\ Len(times) = coinCount

rowsBuilt ==
  [c \in Coins |->
     IF c \in Catalogue
     THEN LET rank == (CHOOSE p \in 1 .. coinCount : order[p] = c) - 1
          IN  [rank |-> rank, at |-> times[rank + 1], done |-> None]
     ELSE NoRow]

(* The shuffle loses and repeats no coin at any turn, so the rows built    *)
(* are one of the schedules the lifecycle model draws from.                *)
BuildsASchedule ==
  /\ { order[p] : p \in 1 .. coinCount } = Catalogue
  /\ built => rowsBuilt \in Schedules(start, end)

(* The rank spacing is even to the rounding: each time is within half a    *)
(* unit of windowStart + spacing * rank, where windowStart itself is       *)
(* within half a unit of 70% of the cycle; so no time leaves the window    *)
(* and the last rank falls on the end of the cycle.                        *)
EvenlySpaced ==
  LET w == WindowStart(start, end)
      n == coinCount - 1
      Off(r) == 2 * (n * times[r + 1] - (n * w + (end - w) * r))
  IN  /\ 2 * (10 * w - (10 * start + 7 * (end - start))) \in -10 .. 10
      /\ n > 0 => \A r \in 0 .. Len(times) - 1 : Off(r) \in (-n) .. n
=============================================================================
