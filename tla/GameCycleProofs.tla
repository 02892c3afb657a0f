--------------------------- MODULE GameCycleProofs ---------------------------
(***************************************************************************)
(* Theorems about the lifecycle (CollapseSchedule, GameCycle) for every    *)
(* set of callers, users and coins and every duration, in three parts.     *)
(*                                                                         *)
(* Schedules: a rank's time lies in its cycle's window, the rows a cycle   *)
(* may be given are rows, and executing them keeps them so.                *)
(*                                                                         *)
(* The table of cycles: every transaction changes it in one of five ways   *)
(* (CycleSteps), each of which replaces or appends one cycle by one that   *)
(* is again well formed (the lemmas on Recovered, Settled and NewCycle).   *)
(* The inductive invariant is TypeOK with SingleLiveCycle and              *)
(* SettledWhole; TypeOK carries the fact settlement rests on, that no row  *)
(* is scheduled after its cycle's end.                                     *)
(*                                                                         *)
(* What the cycles are worth to the players: coins die in rank order and   *)
(* the last one not before the end, schedules and enrolments are never     *)
(* redone, and the ranks of a settled cycle are 1 .. N in the order of the *)
(* cash. Law strengthens these, cycle by cycle: what is executed was       *)
(* executed before anything that is left comes due (a caller with an older *)
(* clock then finds nothing out of order), participants are numbered 1 ..  *)
(* N without a gap or a repetition (so the order of the results has no     *)
(* ties), and no call's `now` is ahead of the clock.                       *)
(***************************************************************************)
EXTENDS GameCycle, FiniteSetTheorems, FunctionTheorems, SequenceTheorems, TLAPS

-----------------------------------------------------------------------------
(* Schedules.                                                              *)

(* Division by a positive number lands in any interval whose bounds,       *)
(* multiplied back, enclose the dividend.                                  *)
LEMMA DivBetween ==
  ASSUME NEW a \in Int, NEW b \in Int, b > 0, NEW lo \in Int, NEW hi \in Int,
         lo * b <= a, a < (hi + 1) * b
  PROVE  a \div b \in lo .. hi
<1> DEFINE q == a \div b
<1>1. q \in Int /\ q * b <= a /\ a < (q + 1) * b
  BY SMT
<1>2. q >= lo
  <2>1. ASSUME q + 1 <= lo PROVE FALSE
    <3>1. (q + 1) * b <= lo * b
      BY <1>1, <2>1, SMT
    <3> QED
      BY <3>1, <1>1, SMT
  <2> QED
    BY <2>1, <1>1
<1>3. q <= hi
  <2>1. ASSUME hi + 1 <= q PROVE FALSE
    <3>1. (hi + 1) * b <= q * b
      BY <1>1, <2>1, SMT
    <3> QED
      BY <3>1, <1>1, SMT
  <2> QED
    BY <2>1, <1>1
<1> QED
  BY <1>1, <1>2, <1>3

(* Rounding to the nearest errs by half of the divisor at most.            *)
LEMMA RoundDivNear ==
  ASSUME NEW a \in Int, NEW b \in Nat, b > 0
  PROVE  /\ RoundDiv(a, b) \in Int
         /\ - b <= 2 * (b * RoundDiv(a, b) - a)
         /\ 2 * (b * RoundDiv(a, b) - a) <= b
         /\ a >= 0 => RoundDiv(a, b) \in Nat
<1> DEFINE x == 2 * a + b
           d == 2 * b
           q == x \div d
<1>1. x \in Int /\ d \in Int /\ d > 0
  OBVIOUS
<1>2. q \in Int /\ q * d <= x /\ x < (q + 1) * d
  <2> HIDE DEF x, d
  <2> QED
    BY <1>1, SMT
<1>3. RoundDiv(a, b) = q
  BY DEF RoundDiv
<1>4. ASSUME a >= 0 PROVE q >= 0
  <2>1. ASSUME q + 1 <= 0 PROVE FALSE
    <3>1. (q + 1) * d <= 0
      BY <1>1, <1>2, <2>1, SMT
    <3> QED
      BY <1>2, <1>4, <3>1
  <2> QED
    BY <1>2, <2>1
<1> HIDE DEF q
<1>5. q * d = 2 * (b * q) /\ (q + 1) * d = 2 * (b * q) + 2 * b /\ b * q \in Int
  BY <1>2, SMT
<1> QED
  BY <1>2, <1>3, <1>4, <1>5

(* Division by a positive number is monotone.                              *)
LEMMA DivMonotone ==
  ASSUME NEW a \in Int, NEW b \in Int, a <= b, NEW d \in Int, d > 0
  PROVE  a \div d <= b \div d
<1> DEFINE p == a \div d
           q == b \div d
<1>1. /\ p \in Int /\ q \in Int
      /\ p * d <= a /\ b < (q + 1) * d
  BY SMT
<1>2. ASSUME q + 1 <= p PROVE FALSE
  <2>1. (q + 1) * d <= p * d
    BY <1>1, <1>2, SMT
  <2> QED
    BY <2>1, <1>1, SMT
<1> QED
  BY <1>1, <1>2

(* The collapse window opens within the cycle.                             *)
LEMMA WindowStartInCycle ==
  ASSUME NEW s \in Nat, NEW e \in Nat, s < e
  PROVE  WindowStart(s, e) \in s .. e
BY SMT DEF WindowStart, RoundDiv

(* Every rank collapses within the cycle.                                  *)
LEMMA CollapseTimeInCycle ==
  ASSUME NEW s \in Nat, NEW e \in Nat, s < e, NEW n \in Nat, NEW r \in 0 .. n - 1
  PROVE  CollapseTime(s, e, n, r) \in s .. e
<1> DEFINE w == WindowStart(s, e)
           m == n - 1
<1>1. w \in s .. e
  BY WindowStartInCycle
<1>2. CASE r = n - 1
  BY <1>2, SMT DEF CollapseTime
<1>3. CASE r # n - 1
  <2>1. m \in Nat /\ m > r
    BY <1>3
  <2> HIDE DEF w, m
  <2>2. RoundDiv(w * m + (e - w) * r, m) \in w .. e
    <3> DEFINE a == 2 * (w * m + (e - w) * r) + m
    <3>1. (e - w) * r >= 0
      BY <1>1, <2>1, SMT
    <3>2. (e - w) * r <= (e - w) * m
      BY <1>1, <2>1, SMT
    <3>3. a \in Int /\ w * (2 * m) <= a /\ a < (e + 1) * (2 * m)
      BY <1>1, <2>1, <3>1, <3>2, SMT
    <3>4. a \div (2 * m) \in w .. e
      BY <3>3, <1>1, <2>1, DivBetween
    <3> QED
      BY <3>4 DEF RoundDiv
  <2> QED
    BY <2>2, <1>1, <1>3 DEF CollapseTime, w, m
<1> QED
  BY <1>2, <1>3

(* A later rank never collapses earlier, though times are rounded.         *)
LEMMA CollapseTimesAscend ==
  ASSUME NEW s \in Nat, NEW e \in Nat, s < e, NEW n \in Nat,
         NEW q \in 0 .. n - 1, NEW r \in 0 .. n - 1, q < r
  PROVE  CollapseTime(s, e, n, q) <= CollapseTime(s, e, n, r)
<1> DEFINE w == WindowStart(s, e)
           m == n - 1
           Sum(k) == 2 * (w * m + (e - w) * k) + m
<1>1. w \in s .. e
  BY WindowStartInCycle
<1>2. CASE r = n - 1
  BY <1>2, CollapseTimeInCycle DEF CollapseTime
<1>3. CASE r # n - 1
  <2>1. m \in Nat /\ q < r /\ r < m
    BY <1>3
  <2> HIDE DEF w, m
  <2>2. (e - w) * q <= (e - w) * r
    BY <1>1, <2>1, SMT
  <2>3. Sum(q) \in Int /\ Sum(r) \in Int /\ Sum(q) <= Sum(r)
    BY <1>1, <2>1, <2>2, SMT
  <2> HIDE DEF Sum
  <2>4. Sum(q) \div (2 * m) <= Sum(r) \div (2 * m)
    BY <2>1, <2>3, DivMonotone
  <2>5. CollapseTime(s, e, n, q) = Sum(q) \div (2 * m)
    BY <2>1 DEF CollapseTime, RoundDiv, w, m, Sum
  <2>6. CollapseTime(s, e, n, r) = Sum(r) \div (2 * m)
    BY <2>1 DEF CollapseTime, RoundDiv, w, m, Sum
  <2> QED
    BY <2>4, <2>5, <2>6
<1> QED
  BY <1>2, <1>3

(* Rows as executions that look at the past leave them: times ascend with  *)
(* the rank, what is executed was executed before anything that is left    *)
(* comes due, and ranks were executed in their order.                      *)
InOrder(rows) ==
  \A c, d \in Coins : rows[c] # NoRow /\ rows[d] # NoRow =>
    /\ rows[c].rank < rows[d].rank => rows[c].at <= rows[d].at
    /\ rows[c].done # None /\ rows[d].done = None => rows[c].done < rows[d].at
    /\ rows[c].rank < rows[d].rank /\ rows[d].done # None
         => rows[c].done # None /\ rows[c].done <= rows[d].done

(* A freshly drawn schedule: typed rows, none executed, all in the cycle,  *)
(* and a coin has a row exactly when it is in the catalogue.               *)
LEMMA SchedulesAreRows ==
  ASSUME NEW s \in Nat, NEW e \in Nat, s < e, NEW rows \in Schedules(s, e)
  PROVE  /\ rows \in [Coins -> Row]
         /\ \A c \in Coins : /\ rows[c].done = None
                             /\ rows[c] # NoRow => rows[c].at \in s .. e
         /\ InOrder(rows)
<1> DEFINE n == Cardinality(Catalogue)
           RowOf(r) == [rank |-> r, at |-> CollapseTime(s, e, n, r), done |-> None]
<1>1. n \in Nat
  BY FS_Subset, FS_CardinalityType, CoinsAssumption DEF Catalogue
<1>2. PICK rankOf \in Bijection(Catalogue, 0 .. n - 1) :
        rows = [c \in Coins |-> IF c \in Catalogue THEN RowOf(rankOf[c]) ELSE NoRow]
  BY DEF Schedules
<1>3. rankOf \in [Catalogue -> 0 .. n - 1]
  BY <1>2 DEF Bijection, Injection
<1>4. NoRow \in Row
  BY DEF NoRow, Row
<1>5. ASSUME NEW c \in Coins, c \in Catalogue
      PROVE  /\ RowOf(rankOf[c]) \in Row
             /\ RowOf(rankOf[c]).at \in s .. e
  <2>1. rankOf[c] \in 0 .. n - 1
    BY <1>3, <1>5
  <2>2. CollapseTime(s, e, n, rankOf[c]) \in s .. e
    BY <1>1, <2>1, CollapseTimeInCycle
  <2> HIDE DEF n
  <2> QED
    BY <1>1, <2>1, <2>2 DEF Row, None
<1>6. /\ rows \in [Coins -> Row]
      /\ \A c \in Coins : /\ rows[c].done = None
                          /\ rows[c] # NoRow => rows[c].at \in s .. e
  BY <1>2, <1>4, <1>5 DEF NoRow
<1>7. InOrder(rows)
  <2> SUFFICES ASSUME NEW c \in Coins, NEW d \in Coins, rows[c] # NoRow,
                      rows[d] # NoRow, rows[c].rank < rows[d].rank
               PROVE  rows[c].at <= rows[d].at
    BY <1>6 DEF InOrder
  <2>1. c \in Catalogue /\ d \in Catalogue
    BY <1>2
  <2>2. rows[c] = RowOf(rankOf[c]) /\ rows[d] = RowOf(rankOf[d])
    BY <1>2, <2>1
  <2>3. /\ rankOf[c] \in 0 .. n - 1 /\ rankOf[d] \in 0 .. n - 1
        /\ rankOf[c] < rankOf[d]
    BY <1>3, <2>1, <2>2
  <2>4. CollapseTime(s, e, n, rankOf[c]) <= CollapseTime(s, e, n, rankOf[d])
    BY <1>1, <2>3, CollapseTimesAscend
  <2> QED
    BY <2>2, <2>4
<1> QED
  BY <1>6, <1>7

(* Executing what is due keeps the rows typed and their ranks and times,   *)
(* and stamps a row only at or after its time.                             *)
LEMMA ExecutedRows ==
  ASSUME NEW rows \in [Coins -> Row], NEW t \in Nat
  PROVE  /\ Executed(rows, t) \in [Coins -> Row]
         /\ \A c \in Coins :
              LET old == rows[c]
                  new == Executed(rows, t)[c]
              IN  /\ new.rank = old.rank /\ new.at = old.at
                  /\ old.done # None => new = old
                  /\ (old = NoRow) <=> (new = NoRow)
                  /\ old # NoRow /\ old.at <= t => new.done # None
                  /\ old.done = None /\ new.done # None
                       => new.done = t /\ old.at <= t
<1> SUFFICES ASSUME NEW c \in Coins
             PROVE  LET old == rows[c]
                        new == IF c \in Due(rows, t) THEN [old EXCEPT !.done = t]
                                                     ELSE old
                    IN  /\ new \in Row
                        /\ new.rank = old.rank /\ new.at = old.at
                        /\ old.done # None => new = old
                        /\ (old = NoRow) <=> (new = NoRow)
                        /\ old # NoRow /\ old.at <= t => new.done # None
                        /\ old.done = None /\ new.done # None
                             => new.done = t /\ old.at <= t
  BY DEF Executed
<1>1. rows[c] \in Row
  OBVIOUS
<1>2. CASE c \in Due(rows, t)
  BY <1>1, <1>2 DEF Due, Row, NoRow, None
<1>3. CASE c \notin Due(rows, t)
  BY <1>1, <1>3 DEF Due, Row, NoRow, None
<1> QED
  BY <1>2, <1>3

(* Executing what is due, whatever stale time it is due at, keeps the      *)
(* order: a row left over is due later than every execution so far.        *)
LEMMA ExecutedInOrder ==
  ASSUME NEW rows \in [Coins -> Row], NEW t \in Nat, InOrder(rows)
  PROVE  InOrder(Executed(rows, t))
<1> DEFINE new == Executed(rows, t)
<1>1. \A c \in Coins :
        /\ new[c].rank = rows[c].rank /\ new[c].at = rows[c].at
        /\ rows[c].done # None => new[c] = rows[c]
        /\ (rows[c] = NoRow) <=> (new[c] = NoRow)
        /\ rows[c] # NoRow /\ rows[c].at <= t => new[c].done # None
        /\ rows[c].done = None /\ new[c].done # None
             => new[c].done = t /\ rows[c].at <= t
  BY ExecutedRows
<1>2. new \in [Coins -> Row]
  BY ExecutedRows
<1> HIDE DEF new
<1> SUFFICES ASSUME NEW c \in Coins, NEW d \in Coins,
                    new[c] # NoRow, new[d] # NoRow
             PROVE  /\ new[c].rank < new[d].rank => new[c].at <= new[d].at
                    /\ new[c].done # None /\ new[d].done = None
                         => new[c].done < new[d].at
                    /\ new[c].rank < new[d].rank /\ new[d].done # None
                         => new[c].done # None /\ new[c].done <= new[d].done
  BY DEF InOrder, new
<1>3. /\ rows[c] # NoRow /\ rows[d] # NoRow
      /\ rows[c].rank < rows[d].rank => rows[c].at <= rows[d].at
      /\ rows[c].done # None /\ rows[d].done = None => rows[c].done < rows[d].at
      /\ rows[c].rank < rows[d].rank /\ rows[d].done # None
           => rows[c].done # None /\ rows[c].done <= rows[d].done
  BY <1>1 DEF InOrder
<1>4. /\ rows[c].at \in Int /\ rows[d].at \in Int
      /\ rows[c].done \in Int /\ rows[d].done \in Int
      /\ new[c].done \in Int /\ new[d].done \in Int
  BY <1>2 DEF Row, None
<1>5. new[c].done # None /\ new[d].done = None => new[c].done < new[d].at
  BY <1>1, <1>3, <1>4
<1>6. new[c].rank < new[d].rank /\ new[d].done # None
        => new[c].done # None /\ new[c].done <= new[d].done
  BY <1>1, <1>3, <1>4
<1> QED
  BY <1>1, <1>3, <1>5, <1>6

(* Collapsing changes a price to zero or not at all.                       *)
LEMMA CollapsedPrices ==
  ASSUME NEW rows, NEW t, NEW prices \in [Coins -> Nat]
  PROVE  Collapsed(rows, t, prices) \in [Coins -> Nat]
BY DEF Collapsed

-----------------------------------------------------------------------------
(* The table of cycles.                                                    *)

(* A cycle's rows are typed and obey the schema: TypeOK, of one cycle.     *)
CycleOK(y) ==
  /\ y \in Cycle
  /\ y.start < y.end
  /\ \A c \in Coins : RowOK(y, y.schedule[c])
  /\ \A u \in Users : ParticipantOK(y.participants[u])

(* SettledWhole, of one cycle.                                             *)
WholeOK(y) ==
  IF y.status = "COMPLETED"
  THEN /\ \A c \in Coins : y.schedule[c] # NoRow => y.schedule[c].done # None
       /\ \A u \in Users :
            /\ y.participants[u].status # "ACTIVE"
            /\ (y.results[u] # NoResult) <=> (u \in Joined(y.participants))
  ELSE \A u \in Users : /\ y.participants[u].status # "FINALIZED"
                        /\ y.results[u] = NoResult

-----------------------------------------------------------------------------
(* Participants and results.                                               *)

(* The set of users is finite, so those joined can be counted.             *)
LEMMA JoinedFinite ==
  ASSUME NEW ps
  PROVE  /\ Joined(ps) \subseteq Users
         /\ \A T \in SUBSET Users : Cardinality(T) \in Nat
BY FS_Subset, FS_CardinalityType, CycleAssumption DEF Joined

(* The rows a cycle starts from are well formed.                           *)
LEMMA NoOneYet ==
  /\ Absent \in Participant
  /\ ParticipantOK(Absent)
  /\ NoResult \in Result
BY DEF Absent, Participant, ParticipantOK, NoResult, Result, None

(* Enrolment keeps the rows well formed, finalizes nobody and leaves those *)
(* already in as they were.                                                *)
LEMMA EnrolledOK ==
  ASSUME NEW ps \in [Users -> Participant], NEW who \in SUBSET Users,
         \A u \in Users : ParticipantOK(ps[u])
  PROVE  LET new == Enrolled(ps, who)
         IN  /\ new \in [Users -> Participant]
             /\ \A u \in Users :
                  /\ ParticipantOK(new[u])
                  /\ new[u].status = "FINALIZED" => ps[u].status = "FINALIZED"
                  /\ u \in Joined(ps) => new[u] = ps[u]
<1> DEFINE fresh == who \ Joined(ps)
           IdOf(u) == Cardinality(Joined(ps)) + Cardinality({v \in fresh : v <= u})
<1>1. ASSUME NEW u \in Users PROVE IdOf(u) \in Nat
  BY JoinedFinite
<1>2. ASSUME NEW id \in Nat
      PROVE  /\ NewParticipant(id) \in Participant
             /\ ParticipantOK(NewParticipant(id))
             /\ NewParticipant(id).status = "ACTIVE"
  BY <1>2, CycleAssumption DEF NewParticipant, Participant, ParticipantOK, None
<1>3. Enrolled(ps, who) =
        [u \in Users |-> IF u \in fresh THEN NewParticipant(IdOf(u)) ELSE ps[u]]
  BY DEF Enrolled
<1> HIDE DEF IdOf
<1> QED
  BY <1>1, <1>2, <1>3 DEF fresh

(* Finalization keeps the rows well formed, keeps who is joined and leaves *)
(* no participant ACTIVE.                                                  *)
LEMMA FinalizedOK ==
  ASSUME NEW ps \in [Users -> Participant],
         \A u \in Users : ParticipantOK(ps[u])
  PROVE  LET new == Finalized(ps)
         IN  /\ new \in [Users -> Participant]
             /\ Joined(new) = Joined(ps)
             /\ \A u \in Users : /\ ParticipantOK(new[u])
                                 /\ new[u].status # "ACTIVE"
<1> DEFINE Final(p) ==
             [p EXCEPT !.status = "FINALIZED", !.final = p.cash,
                       !.peak = IF p.peak < p.cash THEN p.cash ELSE p.peak]
<1>1. ASSUME NEW p \in Participant
      PROVE  /\ Final(p) \in Participant
             /\ ParticipantOK(Final(p))
             /\ Final(p).status = "FINALIZED"
  <2> DEFINE top == IF p.peak < p.cash THEN p.cash ELSE p.peak
  <2>1. top \in Nat /\ p.cash \in Nat
    BY DEF Participant
  <2>2. Final(p) = [p EXCEPT !.status = "FINALIZED", !.final = p.cash, !.peak = top]
    OBVIOUS
  <2> HIDE DEF top, Final
  <2>3. Final(p) \in Participant
    BY <2>1, <2>2 DEF Participant
  <2>4. Final(p).status = "FINALIZED" /\ Final(p).final = p.cash
    BY <2>1, <2>2 DEF Participant
  <2> QED
    BY <2>1, <2>3, <2>4 DEF ParticipantOK, None
<1>2. Finalized(ps) = [u \in Users |-> IF ps[u].status = "ACTIVE"
                                       THEN Final(ps[u]) ELSE ps[u]]
  BY DEF Finalized
<1> HIDE DEF Final
<1> QED
  BY <1>1, <1>2 DEF Joined

(* A snapshot of results: exactly the participants have one.               *)
LEMMA RankedOK ==
  ASSUME NEW ps \in [Users -> Participant], NEW rs \in [Users -> Result],
         \A u \in Users : ParticipantOK(ps[u]) /\ ps[u].status # "ACTIVE",
         \A u \in Users : rs[u] = NoResult
  PROVE  LET new == Ranked(ps, rs)
         IN  /\ new \in [Users -> Result]
             /\ \A u \in Users : (new[u] # NoResult) <=> (u \in Joined(ps))
<1>1. ASSUME NEW u \in Joined(ps)
      PROVE  /\ RankOf(ps, u) \in Nat \ {0}
             /\ ps[u].final \in Nat
             /\ ps[u].peak \in Nat
  <2>1. RankOf(ps, u) \in Nat \ {0}
    <3> DEFINE ahead == {v \in Joined(ps) : Beats(ps[v], ps[u])}
    <3>1. ahead \in SUBSET Users
      BY JoinedFinite
    <3>2. Cardinality(ahead) \in Nat
      BY <3>1, JoinedFinite
    <3> QED
      BY <3>2 DEF RankOf
  <2>2. ps[u] \in Participant /\ ParticipantOK(ps[u]) /\ ps[u].status = "FINALIZED"
    BY <1>1 DEF Joined, Participant
  <2>3. ps[u].final \in Nat
    BY <2>2 DEF Participant, ParticipantOK
  <2> QED
    BY <2>1, <2>2, <2>3 DEF Participant
<1>2. Ranked(ps, rs) =
        [u \in Users |-> IF u \in Joined(ps)
                         THEN [rank |-> RankOf(ps, u), cash |-> ps[u].final,
                               peak |-> ps[u].peak]
                         ELSE NoResult]
  BY DEF Ranked
<1> QED
  BY <1>1, <1>2, NoOneYet DEF Result, NoResult

-----------------------------------------------------------------------------
(* One cycle through its life.                                             *)

(* Whatever schedule a cycle is given or has, its rows lie in its window,  *)
(* and one it already has is kept.                                         *)
LEMMA ChoicesOK ==
  ASSUME NEW y, CycleOK(y), NEW rows \in ScheduleChoices(y)
  PROVE  /\ rows \in [Coins -> Row]
         /\ \A c \in Coins : RowOK(y, rows[c])
         /\ (\E c \in Coins : y.schedule[c] # NoRow) => rows = y.schedule
<1>1. y.start \in Nat /\ y.end \in Nat /\ y.start < y.end
      /\ y.schedule \in [Coins -> Row]
  BY DEF CycleOK, Cycle
<1>2. CASE \E c \in Coins : y.schedule[c] # NoRow
  BY <1>1, <1>2 DEF ScheduleChoices, CycleOK
<1>3. CASE ~ \E c \in Coins : y.schedule[c] # NoRow
  <2>1. rows \in Schedules(y.start, y.end)
    BY <1>3 DEF ScheduleChoices
  <2> QED
    BY <1>1, <1>3, <2>1, SchedulesAreRows DEF RowOK
<1> QED
  BY <1>2, <1>3

(* Executing due rows keeps every row lawful.                              *)
LEMMA ExecutedOK ==
  ASSUME NEW y, NEW rows \in [Coins -> Row], NEW t \in Nat,
         \A c \in Coins : RowOK(y, rows[c])
  PROVE  /\ Executed(rows, t) \in [Coins -> Row]
         /\ \A c \in Coins : RowOK(y, Executed(rows, t)[c])
<1>1. Executed(rows, t) \in [Coins -> Row]
  BY ExecutedRows
<1> SUFFICES ASSUME NEW c \in Coins PROVE RowOK(y, Executed(rows, t)[c])
  BY <1>1
<1>2. RowOK(y, rows[c])
  OBVIOUS
<1>3. CASE rows[c].done # None
  BY <1>2, <1>3, ExecutedRows
<1>4. CASE rows[c].done = None
  BY <1>2, <1>4, ExecutedRows DEF RowOK
<1> QED
  BY <1>3, <1>4

(* A cycle just created, with its schedule and participants, is well       *)
(* formed and has settled nothing.                                         *)
LEMMA NewCycleOK ==
  ASSUME NEW start \in Nat, NEW rows \in Schedules(start, start + Duration),
         users \subseteq Users
  PROVE  /\ CycleOK(NewCycle(start, rows))
         /\ WholeOK(NewCycle(start, rows))
<1> DEFINE y == NewCycle(start, rows)
           nobody == [u \in Users |-> Absent]
<1>1. start + Duration \in Nat /\ start < start + Duration
  BY CycleAssumption
<1>2. /\ nobody \in [Users -> Participant]
      /\ \A u \in Users : ParticipantOK(nobody[u])
      /\ \A u \in Users : nobody[u].status = "ABSENT"
  BY NoOneYet DEF Absent
<1>3. LET new == Enrolled(nobody, users)
      IN  /\ new \in [Users -> Participant]
          /\ \A u \in Users : ParticipantOK(new[u]) /\ new[u].status # "FINALIZED"
  BY <1>2, EnrolledOK
<1>4. /\ rows \in [Coins -> Row]
      /\ \A c \in Coins : /\ rows[c].done = None
                          /\ rows[c] # NoRow => rows[c].at \in start .. start + Duration
  BY <1>1, SchedulesAreRows
<1>5. y.start = start /\ y.end = start + Duration /\ y.status = "ACTIVE"
      /\ y.schedule = rows /\ y.participants = Enrolled(nobody, users)
      /\ y.results = [u \in Users |-> NoResult]
  BY DEF NewCycle
<1>6. y \in Cycle
  BY <1>1, <1>3, <1>4, NoOneYet DEF NewCycle, Cycle
<1> HIDE DEF y, nobody
<1>7. CycleOK(y)
  BY <1>1, <1>3, <1>4, <1>5, <1>6 DEF CycleOK, RowOK
<1>8. WholeOK(y)
  BY <1>3, <1>5 DEF WholeOK
<1> QED
  BY <1>7, <1>8 DEF y

(* Recovering an ACTIVE cycle keeps it so.                                 *)
LEMMA RecoveredOK ==
  ASSUME NEW y, CycleOK(y), WholeOK(y), y.status = "ACTIVE",
         NEW rows \in ScheduleChoices(y), NEW now \in Nat, users \subseteq Users
  PROVE  /\ CycleOK(Recovered(y, rows, now))
         /\ WholeOK(Recovered(y, rows, now))
         /\ Recovered(y, rows, now).status = "ACTIVE"
<1> DEFINE z == Recovered(y, rows, now)
           sched == IF y.end > now THEN Executed(rows, now) ELSE rows
           ps == Enrolled(y.participants, users)
<1>1. y \in Cycle
  BY DEF CycleOK
<1>2. /\ sched \in [Coins -> Row]
      /\ \A c \in Coins : RowOK(y, sched[c])
  BY ChoicesOK, ExecutedOK
<1>3. /\ ps \in [Users -> Participant]
      /\ \A u \in Users : ParticipantOK(ps[u]) /\ ps[u].status # "FINALIZED"
  BY <1>1, EnrolledOK DEF CycleOK, WholeOK, Cycle
<1>4. z = [y EXCEPT !.schedule = sched, !.participants = ps]
  BY DEF Recovered
<1> HIDE DEF z, sched, ps
<1>5. z \in Cycle /\ z.start = y.start /\ z.end = y.end /\ z.status = "ACTIVE"
      /\ z.schedule = sched /\ z.participants = ps /\ z.results = y.results
  BY <1>1, <1>2, <1>3, <1>4 DEF Cycle
<1>6. CycleOK(z)
  BY <1>2, <1>3, <1>5 DEF CycleOK, RowOK
<1>7. WholeOK(z)
  BY <1>3, <1>5 DEF WholeOK
<1> QED
  BY <1>5, <1>6, <1>7 DEF z

(* Settling at the cycle's end executes every row that is left, because    *)
(* none is scheduled later, and snapshots exactly the participants.        *)
LEMMA SettledOK ==
  ASSUME NEW y, CycleOK(y), WholeOK(y), y.status # "COMPLETED",
         NEW rows \in ScheduleChoices(y)
  PROVE  /\ CycleOK(Settled(y, rows))
         /\ WholeOK(Settled(y, rows))
         /\ Settled(y, rows).status = "COMPLETED"
<1> DEFINE z == Settled(y, rows)
           sched == Executed(rows, y.end)
           ps == Finalized(y.participants)
           rs == Ranked(ps, y.results)
<1>1. y \in Cycle
  BY DEF CycleOK
<1>2. y.end \in Nat
  BY <1>1 DEF Cycle
<1>3. /\ rows \in [Coins -> Row]
      /\ \A c \in Coins : RowOK(y, rows[c])
  BY ChoicesOK
<1>4. /\ sched \in [Coins -> Row]
      /\ \A c \in Coins : RowOK(y, sched[c])
  BY <1>2, <1>3, ExecutedOK
<1>5. \A c \in Coins : sched[c] # NoRow => sched[c].done # None
  BY <1>1, <1>2, <1>3, ExecutedRows DEF RowOK, Cycle
<1>6. /\ ps \in [Users -> Participant]
      /\ Joined(ps) = Joined(y.participants)
      /\ \A u \in Users : ParticipantOK(ps[u]) /\ ps[u].status # "ACTIVE"
  BY <1>1, FinalizedOK DEF CycleOK, Cycle
<1>7. y.results \in [Users -> Result] /\ \A u \in Users : y.results[u] = NoResult
  BY <1>1 DEF WholeOK, Cycle
<1> HIDE DEF sched, ps
<1>8. /\ rs \in [Users -> Result]
      /\ \A u \in Users : (rs[u] # NoResult) <=> (u \in Joined(ps))
  BY <1>6, <1>7, RankedOK
<1>9. z = [y EXCEPT !.status = "COMPLETED", !.schedule = sched,
                    !.participants = ps, !.results = rs]
  BY DEF Settled, sched, ps
<1> HIDE DEF z, rs
<1>10. z \in Cycle /\ z.start = y.start /\ z.end = y.end
       /\ z.status = "COMPLETED" /\ z.schedule = sched
       /\ z.participants = ps /\ z.results = rs
  BY <1>1, <1>4, <1>6, <1>8, <1>9 DEF Cycle
<1>11. CycleOK(z)
  BY <1>4, <1>6, <1>10 DEF CycleOK, RowOK
<1>12. WholeOK(z)
  BY <1>5, <1>6, <1>8, <1>10 DEF WholeOK
<1> QED
  BY <1>10, <1>11, <1>12 DEF z

-----------------------------------------------------------------------------
(* The table of cycles.                                                    *)

Replaced(k, z) == cycles' = [cycles EXCEPT ![k] = z]
Appended(z) == cycles' = Append(cycles, z)

(* Replacing one cycle leaves the others and their order alone.            *)
LEMMA ReplacedTable ==
  ASSUME cycles \in Seq(Cycle), NEW k \in DOMAIN cycles, NEW z \in Cycle,
         Replaced(k, z)
  PROVE  /\ cycles' \in Seq(Cycle)
         /\ DOMAIN cycles' = DOMAIN cycles
         /\ \A j \in DOMAIN cycles : cycles'[j] = IF j = k THEN z ELSE cycles[j]
BY LenProperties, ExceptSeq DEF Replaced

(* So does appending one.                                                  *)
LEMMA AppendedTable ==
  ASSUME cycles \in Seq(Cycle), NEW z \in Cycle, Appended(z)
  PROVE  /\ cycles' \in Seq(Cycle)
         /\ DOMAIN cycles' = DOMAIN cycles \cup {Len(cycles) + 1}
         /\ Len(cycles) + 1 \notin DOMAIN cycles
         /\ cycles'[Len(cycles) + 1] = z
         /\ \A j \in DOMAIN cycles : cycles'[j] = cycles[j]
BY LenProperties, AppendProperties DEF Appended

(* What the invariant says of the parts of the state that are not cycles.  *)
RestOK ==
  /\ clock \in 0 .. MaxClock
  /\ users \subseteq Users
  /\ price \in [Coins -> Nat]
  /\ call \in [Callers -> [phase : {"idle", "freeze", "settle", "ensure", "done"},
                           now : 0 .. MaxClock]]

TableOK == cycles \in Seq(Cycle) /\ \A k \in DOMAIN cycles : CycleOK(cycles[k])

(* The table of cycles, row by row.                                        *)
LEMMA TypeOKParts == TypeOK <=> RestOK /\ TableOK
BY LenProperties, ElementOfSeq DEF TypeOK, RestOK, TableOK, CycleOK

(* SettledWhole, cycle by cycle.                                           *)
LEMMA SettledWholeParts == SettledWhole <=> \A k \in DOMAIN cycles : WholeOK(cycles[k])
BY DEF SettledWhole, WholeOK

(* A successor starts at an instant.                                       *)
LEMMA StartTimesOK ==
  ASSUME TableOK, NEW now \in Nat
  PROVE  StartTimes(now) \subseteq Nat
<1>1. AlignStartTime(now) \in Nat
  <2>1. now \div Duration \in Nat
    <3>1. /\ now \in Int /\ Duration \in Int /\ Duration > 0 /\ 0 * Duration <= now
          /\ now < (now + 1) * Duration
      BY CycleAssumption, SMT
    <3> QED
      BY <3>1, DivBetween
  <2>2. (now \div Duration) * Duration \in Nat
    BY <2>1, CycleAssumption, SMT
  <2> QED
    BY <2>2 DEF AlignStartTime
<1>2. \A k \in InStatus("COMPLETED") : cycles[k].end \in Nat
  BY DEF TableOK, CycleOK, Cycle, InStatus
<1> QED
  BY <1>1, <1>2 DEF StartTimes

(* A start at the end of the latest COMPLETED cycle, if there is one.      *)
FollowsOn(start) ==
  InStatus("COMPLETED") # {} =>
    \E k \in InStatus("COMPLETED") :
      /\ start = cycles[k].end
      /\ \A j \in InStatus("COMPLETED") : cycles[j].end <= cycles[k].end

(* Such is the start of any successor.                                     *)
LEMMA SuccessorsFollowOn ==
  ASSUME NEW now, NEW start \in StartTimes(now)
  PROVE  FollowsOn(start)
BY DEF StartTimes, FollowsOn

(* The five things a step can do to the table of cycles.                   *)
LEMMA CycleSteps ==
  ASSUME RestOK, TableOK, [Next]_vars
  PROVE  \/ cycles' = cycles
         \/ \E k \in InStatus("ACTIVE") :
              /\ InStatus("SETTLING") = {}
              /\ Replaced(k, [cycles[k] EXCEPT !.status = "SETTLING"])
         \/ \E k \in InStatus("SETTLING") : \E rows \in ScheduleChoices(cycles[k]) :
              Replaced(k, Settled(cycles[k], rows))
         \/ /\ InStatus("ACTIVE") = {}
            /\ \E start \in Nat :
                 /\ FollowsOn(start)
                 /\ \E rows \in Schedules(start, start + Duration) :
                      Appended(NewCycle(start, rows))
         \/ \E k \in InStatus("ACTIVE") : \E c \in Callers :
              \E rows \in ScheduleChoices(cycles[k]) :
                Replaced(k, Recovered(cycles[k], rows, call[c].now))
<1>1. CASE UNCHANGED vars
  BY <1>1 DEF vars
<1>2. CASE Tick \/ (\E u \in Users : RegisterUser(u))
  BY <1>2 DEF Tick, RegisterUser
<1>3. ASSUME NEW c \in Callers, Reconcile(c) \/ Fail(c)
      PROVE  cycles' = cycles
  BY <1>3 DEF Reconcile, Fail
<1>4. ASSUME NEW c \in Callers, FreezeExpiredActiveCycle(c)
      PROVE  \/ cycles' = cycles
             \/ \E k \in InStatus("ACTIVE") :
                  /\ InStatus("SETTLING") = {}
                  /\ Replaced(k, [cycles[k] EXCEPT !.status = "SETTLING"])
  BY <1>4 DEF FreezeExpiredActiveCycle, Freezable, Replaced
<1>5. ASSUME NEW c \in Callers, SettleSettlingCycle(c)
      PROVE  \/ cycles' = cycles
             \/ \E k \in InStatus("SETTLING") :
                  \E rows \in ScheduleChoices(cycles[k]) :
                    Replaced(k, Settled(cycles[k], rows))
  BY <1>5 DEF SettleSettlingCycle, Settleable, Replaced
<1>6. ASSUME NEW c \in Callers, EnsureActiveCycle(c)
      PROVE  \/ /\ InStatus("ACTIVE") = {}
                /\ \E start \in Nat :
                     /\ FollowsOn(start)
                     /\ \E rows \in Schedules(start, start + Duration) :
                          Appended(NewCycle(start, rows))
             \/ \E k \in InStatus("ACTIVE") :
                  \E rows \in ScheduleChoices(cycles[k]) :
                    Replaced(k, Recovered(cycles[k], rows, call[c].now))
  <2>1. call[c].now \in Nat
    BY DEF RestOK
  <2>2. CASE CreateActiveCycle(c)
    BY <2>1, <2>2, StartTimesOK, SuccessorsFollowOn DEF CreateActiveCycle, Appended
  <2>3. CASE RecoverActiveCycle(c)
    BY <2>3 DEF RecoverActiveCycle, Replaced
  <2> QED
    BY <1>6, <2>2, <2>3 DEF EnsureActiveCycle
<1> QED
  BY <1>1, <1>2, <1>3, <1>4, <1>5, <1>6 DEF Next, CycleStep

-----------------------------------------------------------------------------
(* The inductive invariant.                                                *)

Invariant == TypeOK /\ SingleLiveCycle /\ SettledWhole

(* Every cycle well formed and settled whole: Invariant, of the table.     *)
AllOK == \A k \in DOMAIN cycles : CycleOK(cycles[k]) /\ WholeOK(cycles[k])

(* Invariant, split into what concerns the table and what does not.        *)
LEMMA InvariantParts ==
  Invariant <=> RestOK /\ cycles \in Seq(Cycle) /\ AllOK /\ SingleLiveCycle
BY TypeOKParts, SettledWholeParts DEF Invariant, TableOK, AllOK

(* The database starts without history or with a cycle that predates       *)
(* schedules; either satisfies the invariant.                              *)
LEMMA InvariantInit == Init => Invariant
<1> SUFFICES ASSUME Init PROVE Invariant
  OBVIOUS
<1>1. RestOK
  BY CycleAssumption DEF Init, RestOK
<1>2. CycleOK(LegacyCycle) /\ WholeOK(LegacyCycle)
  <2>1. LegacyCycle \in Cycle
    BY NoOneYet, CycleAssumption
       DEF LegacyCycle, Cycle, Unscheduled, NoRow, Row, None
  <2>2. LegacyCycle.start < LegacyCycle.end
    BY CycleAssumption DEF LegacyCycle
  <2>3. \A c \in Coins : RowOK(LegacyCycle, LegacyCycle.schedule[c])
    BY DEF LegacyCycle, Unscheduled, RowOK
  <2>4. \A u \in Users : ParticipantOK(LegacyCycle.participants[u])
    BY NoOneYet DEF LegacyCycle
  <2>5. WholeOK(LegacyCycle)
    BY DEF LegacyCycle, WholeOK, Absent
  <2> QED
    BY <2>1, <2>2, <2>3, <2>4, <2>5 DEF CycleOK
<1>3. CASE cycles = <<>>
  <2>1. cycles \in Seq(Cycle) /\ DOMAIN cycles = {}
    BY <1>3, EmptySeq, LenProperties
  <2> QED
    BY <2>1, <1>1, InvariantParts DEF AllOK, SingleLiveCycle
<1>4. CASE cycles = <<LegacyCycle>>
  <2>1. /\ cycles \in Seq(Cycle)
        /\ DOMAIN cycles = {1}
        /\ cycles[1] = LegacyCycle
    BY <1>2, <1>4 DEF CycleOK
  <2> QED
    BY <2>1, <1>1, <1>2, InvariantParts DEF AllOK, SingleLiveCycle
<1> QED
  BY <1>3, <1>4 DEF Init

(* The clock, the users, the prices and the calls stay typed.              *)
LEMMA RestStep ==
  ASSUME RestOK, TableOK, [Next]_vars
  PROVE  RestOK'
<1>1. CASE UNCHANGED vars
  BY <1>1 DEF vars, RestOK
<1>2. CASE Tick
  BY <1>2, CycleAssumption DEF Tick, RestOK
<1>3. ASSUME NEW u \in Users, RegisterUser(u) PROVE RestOK'
  BY <1>3 DEF RegisterUser, RestOK
<1>4. ASSUME NEW c \in Callers, Reconcile(c) PROVE RestOK'
  BY <1>4 DEF Reconcile, RestOK
<1>5. ASSUME NEW c \in Callers, FreezeExpiredActiveCycle(c) PROVE RestOK'
  BY <1>5 DEF FreezeExpiredActiveCycle, Goto, RestOK
<1>6. ASSUME NEW c \in Callers, SettleSettlingCycle(c) PROVE RestOK'
  <2>1. price' \in [Coins -> Nat]
    BY <1>6, CollapsedPrices DEF SettleSettlingCycle, Settleable, RestOK
  <2> QED
    BY <1>6, <2>1 DEF SettleSettlingCycle, Goto, RestOK
<1>7. ASSUME NEW c \in Callers, EnsureActiveCycle(c) PROVE RestOK'
  <2>1. price' \in [Coins -> Nat]
    BY <1>7, CollapsedPrices, CycleAssumption
       DEF EnsureActiveCycle, CreateActiveCycle, RecoverActiveCycle,
           RestoredPrices, RestOK
  <2>2. \E phase \in {"done", "freeze"} : Goto(c, phase)
    BY <1>7 DEF EnsureActiveCycle, CreateActiveCycle, RecoverActiveCycle, Return
  <2> QED
    BY <1>7, <2>1, <2>2 DEF EnsureActiveCycle, Goto, RestOK
<1>8. ASSUME NEW c \in Callers, Fail(c) PROVE RestOK'
  BY <1>8, CycleAssumption DEF Fail, RestOK
<1> QED
  BY <1>1, <1>2, <1>3, <1>4, <1>5, <1>6, <1>7, <1>8 DEF Next, CycleStep

(* Every transaction preserves the invariant.                              *)
LEMMA InvariantStep == Invariant /\ [Next]_vars => Invariant'
<1> SUFFICES ASSUME Invariant, [Next]_vars PROVE Invariant'
  OBVIOUS
<1>1. RestOK /\ TableOK /\ cycles \in Seq(Cycle) /\ AllOK /\ SingleLiveCycle
  BY InvariantParts DEF TableOK, AllOK
<1>2. RestOK'
  BY <1>1, RestStep
<1>3. users \subseteq Users
  BY <1>1 DEF RestOK
<1> SUFFICES cycles' \in Seq(Cycle) /\ AllOK' /\ SingleLiveCycle'
  <2>1. cycles' \in Seq(Cycle) /\ AllOK' => TypeOK'
    BY <1>2 DEF TypeOK, RestOK, AllOK, CycleOK
  <2>2. AllOK' => SettledWhole'
    BY DEF AllOK, SettledWhole, WholeOK
  <2> QED
    BY <2>1, <2>2 DEF Invariant
<1>4. CASE cycles' = cycles
  BY <1>1, <1>4 DEF AllOK, SingleLiveCycle
<1>5. ASSUME NEW k \in InStatus("ACTIVE"), InStatus("SETTLING") = {},
             Replaced(k, [cycles[k] EXCEPT !.status = "SETTLING"])
      PROVE  cycles' \in Seq(Cycle) /\ AllOK' /\ SingleLiveCycle'
  <2> DEFINE z == [cycles[k] EXCEPT !.status = "SETTLING"]
  <2>1. k \in DOMAIN cycles /\ cycles[k].status = "ACTIVE"
    BY DEF InStatus
  <2>2. cycles[k] \in Cycle
    BY <1>1, <2>1 DEF AllOK, CycleOK
  <2>3. z \in Cycle /\ z.status = "SETTLING" /\ z.start = cycles[k].start
        /\ z.end = cycles[k].end /\ z.schedule = cycles[k].schedule
        /\ z.participants = cycles[k].participants /\ z.results = cycles[k].results
    BY <2>2 DEF Cycle
  <2> HIDE DEF z
  <2>4. CycleOK(z) /\ WholeOK(z)
    BY <1>1, <2>1, <2>3 DEF AllOK, CycleOK, WholeOK, RowOK
  <2>5. /\ cycles' \in Seq(Cycle) /\ DOMAIN cycles' = DOMAIN cycles
        /\ \A j \in DOMAIN cycles : cycles'[j] = IF j = k THEN z ELSE cycles[j]
    BY <1>1, <1>5, <2>1, <2>3, ReplacedTable DEF z
  <2> QED
    BY <1>1, <1>5, <2>1, <2>3, <2>4, <2>5 DEF AllOK, SingleLiveCycle, InStatus
<1>6. ASSUME NEW k \in InStatus("SETTLING"), NEW rows \in ScheduleChoices(cycles[k]),
             Replaced(k, Settled(cycles[k], rows))
      PROVE  cycles' \in Seq(Cycle) /\ AllOK' /\ SingleLiveCycle'
  <2> DEFINE z == Settled(cycles[k], rows)
  <2>1. k \in DOMAIN cycles /\ cycles[k].status = "SETTLING"
    BY DEF InStatus
  <2>2. CycleOK(z) /\ WholeOK(z) /\ z.status = "COMPLETED"
    BY <1>1, <2>1, SettledOK DEF AllOK
  <2> HIDE DEF z
  <2>3. /\ cycles' \in Seq(Cycle) /\ DOMAIN cycles' = DOMAIN cycles
        /\ \A j \in DOMAIN cycles : cycles'[j] = IF j = k THEN z ELSE cycles[j]
    BY <1>1, <1>6, <2>1, <2>2, ReplacedTable DEF z, CycleOK
  <2> QED
    BY <1>1, <2>1, <2>2, <2>3 DEF AllOK, SingleLiveCycle
<1>7. ASSUME InStatus("ACTIVE") = {}, NEW start \in Nat,
             NEW rows \in Schedules(start, start + Duration),
             Appended(NewCycle(start, rows))
      PROVE  cycles' \in Seq(Cycle) /\ AllOK' /\ SingleLiveCycle'
  <2> DEFINE z == NewCycle(start, rows)
  <2>1. CycleOK(z) /\ WholeOK(z)
    BY <1>3, NewCycleOK
  <2>2. z.status = "ACTIVE"
    BY DEF NewCycle
  <2> HIDE DEF z
  <2>3. /\ cycles' \in Seq(Cycle)
        /\ DOMAIN cycles' = DOMAIN cycles \cup {Len(cycles) + 1}
        /\ Len(cycles) + 1 \notin DOMAIN cycles
        /\ cycles'[Len(cycles) + 1] = z
        /\ \A j \in DOMAIN cycles : cycles'[j] = cycles[j]
    BY <1>1, <1>7, <2>1, AppendedTable DEF z, CycleOK
  <2>4. AllOK'
    BY <1>1, <2>1, <2>3 DEF AllOK
  <2>5. SingleLiveCycle'
    BY <1>1, <1>7, <2>2, <2>3 DEF SingleLiveCycle, InStatus
  <2> QED
    BY <2>3, <2>4, <2>5
<1>8. ASSUME NEW k \in InStatus("ACTIVE"), NEW now \in Nat,
             NEW rows \in ScheduleChoices(cycles[k]),
             Replaced(k, Recovered(cycles[k], rows, now))
      PROVE  cycles' \in Seq(Cycle) /\ AllOK' /\ SingleLiveCycle'
  <2> DEFINE z == Recovered(cycles[k], rows, now)
  <2>1. k \in DOMAIN cycles /\ cycles[k].status = "ACTIVE"
    BY DEF InStatus
  <2>2. CycleOK(z) /\ WholeOK(z) /\ z.status = "ACTIVE"
    BY <1>1, <1>3, <2>1, RecoveredOK DEF AllOK
  <2> HIDE DEF z
  <2>3. /\ cycles' \in Seq(Cycle) /\ DOMAIN cycles' = DOMAIN cycles
        /\ \A j \in DOMAIN cycles : cycles'[j] = IF j = k THEN z ELSE cycles[j]
    BY <1>1, <1>8, <2>1, <2>2, ReplacedTable DEF z, CycleOK
  <2> QED
    BY <1>1, <2>1, <2>2, <2>3 DEF AllOK, SingleLiveCycle
<1>9. \A c \in Callers : call[c].now \in Nat
  BY <1>1 DEF RestOK
<1> QED
  BY <1>1, <1>4, <1>5, <1>6, <1>7, <1>8, <1>9, CycleSteps

(* The invariant holds throughout, for any number of concurrent callers.   *)
THEOREM InvariantHolds == Spec => []Invariant
BY InvariantInit, InvariantStep, PTL DEF Spec

(* Every row always has its type and obeys the CHECK constraints of the    *)
(* schema (gameCycleService, gameSettlementService, migrations 007-011).   *)
THEOREM TypeCorrect == Spec => []TypeOK
BY InvariantHolds, PTL DEF Invariant

(* However many callers reconcile, there is never a second ACTIVE or a     *)
(* second SETTLING cycle.                                                  *)
THEOREM OneLiveCycle == Spec => []SingleLiveCycle
BY InvariantHolds, PTL DEF Invariant

(* However calls fail and interleave, a cycle is settled wholly or not at  *)
(* all: every coin dead, every participant finalized and in the results.   *)
THEOREM SettlementIsWhole == Spec => []SettledWhole
BY InvariantHolds, PTL DEF Invariant

(* No step takes a cycle away, or touches one that is COMPLETED.           *)
LEMMA TableGrows ==
  ASSUME Invariant, [Next]_vars
  PROVE  /\ DOMAIN cycles \subseteq DOMAIN cycles'
         /\ \A k \in InStatus("COMPLETED") : cycles'[k] = cycles[k]
<1>1. RestOK /\ TableOK /\ cycles \in Seq(Cycle) /\ AllOK /\ users \subseteq Users
  BY InvariantParts DEF TableOK, AllOK, RestOK
<1> DEFINE Grows == /\ DOMAIN cycles \subseteq DOMAIN cycles'
                    /\ \A k \in InStatus("COMPLETED") : cycles'[k] = cycles[k]
<1>2. ASSUME NEW j \in DOMAIN cycles, cycles[j].status # "COMPLETED", NEW z,
             Replaced(j, z)
      PROVE  Grows
  BY <1>1, <1>2, LenProperties DEF Replaced, InStatus
<1>3. ASSUME NEW start \in Nat, NEW rows \in Schedules(start, start + Duration),
             Appended(NewCycle(start, rows))
      PROVE  Grows
  BY <1>1, <1>3, NewCycleOK, AppendedTable DEF CycleOK, InStatus
<1> QED
  BY <1>1, <1>2, <1>3, CycleSteps DEF InStatus

(* No transaction touches a COMPLETED cycle: a step replaces a live cycle  *)
(* or appends a new one.                                                   *)
THEOREM CompletedIsForever == Spec => HistoryIsFinal
<1>1. Invariant /\ [Next]_vars
      => [\A k \in DOMAIN cycles :
            cycles[k].status = "COMPLETED" => cycles'[k] = cycles[k]]_vars
  BY TableGrows DEF InStatus
<1> QED
  BY <1>1, InvariantHolds, PTL DEF Spec, HistoryIsFinal

-----------------------------------------------------------------------------
(* What the cycles are worth.                                              *)

(* Everybody in a cycle has a number of 1 .. N alone.                      *)
Numbered(ps) ==
  \A u \in Joined(ps) :
    /\ ps[u].id \in 1 .. Cardinality(Joined(ps))
    /\ \A v \in Joined(ps) : ps[u].id = ps[v].id => u = v

(* The results of a settled cycle: ranks 1 .. N, each held once, ordered   *)
(* by the cash the participants ended with, and by nothing else than their *)
(* numbers where that ties.                                                *)
FairRanks(ps, rs) ==
  LET who == Joined(ps)
  IN  /\ { rs[u].rank : u \in who } = 1 .. Cardinality(who)
      /\ \A u, v \in who : rs[u].rank = rs[v].rank => u = v
      /\ \A u, v \in who : /\ rs[u].cash = ps[u].cash
                           /\ rs[u].rank < rs[v].rank => ps[u].cash >= ps[v].cash
      /\ \A u \in who : rs[u].rank = RankOf(ps, u) /\ rs[u].cash = ps[u].final

(* Nothing is executed ahead of the clock, or at the end of a live cycle.  *)
AliveAt(y, now) ==
  \A c \in Coins : /\ y.schedule[c].done <= now
                   /\ y.schedule[c] # NoRow /\ y.schedule[c].at = y.end
                        => y.schedule[c].done = None

(* The law of one cycle.                                                   *)
Law(y, now) ==
  /\ InOrder(y.schedule)
  /\ Numbered(y.participants)
  /\ y.status = "ACTIVE" => AliveAt(y, now)
  /\ y.status = "COMPLETED" => FairRanks(y.participants, y.results)

Lawful == \A k \in DOMAIN cycles : Law(cycles[k], clock)

(* A call's `now` is an instant of the past.                               *)
NowNotAhead == \A c \in Callers : call[c].now <= clock

-----------------------------------------------------------------------------
(* Counting.                                                               *)

(* A set that lacks one element of another is smaller.                     *)
LEMMA SmallerSubset ==
  ASSUME NEW T, IsFiniteSet(T), NEW S \in SUBSET T, NEW x \in T, x \notin S
  PROVE  /\ Cardinality(S) \in Nat /\ Cardinality(T) \in Nat
         /\ Cardinality(S) < Cardinality(T)
<1>1. /\ IsFiniteSet(S)
      /\ Cardinality(S) <= Cardinality(T)
      /\ Cardinality(S) # Cardinality(T)
  BY FS_Subset
<1>2. Cardinality(S) \in Nat /\ Cardinality(T) \in Nat
  BY <1>1, FS_CardinalityType
<1> QED
  BY <1>1, <1>2

(* Where each element of a set stands: 1 and those ahead of it.            *)
Place(S, ahead) == [u \in S |-> 1 + Cardinality(ahead[u])]

(* In a strict order that compares any two elements, the places are 1 .. N *)
(* and each is held by one element.                                        *)
LEMMA PlacesInOrder ==
  ASSUME NEW S, IsFiniteSet(S), NEW ahead \in [S -> SUBSET S],
         \A u \in S : u \notin ahead[u],
         \A u, v \in S : u # v => u \in ahead[v] \/ v \in ahead[u],
         \A u, v \in S : u \in ahead[v] => ahead[u] \subseteq ahead[v]
  PROVE  /\ { Place(S, ahead)[u] : u \in S } = 1 .. Cardinality(S)
         /\ \A u, v \in S : /\ Place(S, ahead)[u] = Place(S, ahead)[v] => u = v
                            /\ Place(S, ahead)[u] < Place(S, ahead)[v]
                                 => u \in ahead[v]
<1> DEFINE N == Cardinality(S)
           place == Place(S, ahead)
<1>1. N \in Nat
  BY FS_CardinalityType
<1>2. ASSUME NEW u \in S
      PROVE  place[u] = 1 + Cardinality(ahead[u]) /\ place[u] \in 1 .. N
  BY <1>1, SmallerSubset DEF Place
<1>3. ASSUME NEW u \in S, NEW v \in S, u \in ahead[v]
      PROVE  place[u] < place[v]
  <2>1. /\ ahead[u] \in SUBSET ahead[v] /\ u \notin ahead[u]
        /\ IsFiniteSet(ahead[v])
    BY <1>3, FS_Subset
  <2>2. place[u] = 1 + Cardinality(ahead[u]) /\ place[v] = 1 + Cardinality(ahead[v])
    BY <1>2
  <2> HIDE DEF place
  <2> QED
    BY <1>3, <2>1, <2>2, SmallerSubset
<1>4. place = [u \in S |-> place[u]]
  BY DEF Place
<1> HIDE DEF place, N
<1>5. ASSUME NEW u \in S, NEW v \in S
      PROVE  /\ place[u] = place[v] => u = v
             /\ place[u] < place[v] => u \in ahead[v]
  <2>1. place[u] \in Int /\ place[v] \in Int
    BY <1>1, <1>2
  <2>2. u = v \/ u \in ahead[v] \/ v \in ahead[u]
    OBVIOUS
  <2>3. /\ u \in ahead[v] => place[u] < place[v]
        /\ v \in ahead[u] => place[v] < place[u]
    BY <1>3
  <2> QED
    BY <2>1, <2>2, <2>3
<1>6. { place[u] : u \in S } = 1 .. N
  <2>1. place \in [S -> 1 .. N]
    BY <1>2, <1>4
  <2>2. IsFiniteSet(1 .. N) /\ Cardinality(1 .. N) = N
    BY <1>1, FS_Interval
  <2>3. place \in Injection(S, 1 .. N)
    BY <1>5, <2>1, Fun_IsInj
  <2>4. place \in Surjection(S, 1 .. N)
    BY <2>2, <2>3, FS_Injection DEF N
  <2>5. \A r \in 1 .. N : \E u \in S : place[u] = r
    BY <2>4 DEF Surjection
  <2> QED
    BY <2>1, <2>5
<1> QED
  BY <1>5, <1>6 DEF place, N

(* Enrolment numbers the newcomers after those already in.                 *)
LEMMA EnrolledNumbered ==
  ASSUME NEW ps \in [Users -> Participant], NEW who \in SUBSET Users, Numbered(ps)
  PROVE  Numbered(Enrolled(ps, who))
<1> DEFINE J == Joined(ps)
           fresh == who \ J
           upto(u) == {v \in fresh : v <= u}
           IdOf(u) == Cardinality(J) + Cardinality(upto(u))
           new == Enrolled(ps, who)
<1>1. /\ J \subseteq Users /\ fresh \subseteq Users
      /\ IsFiniteSet(J) /\ IsFiniteSet(fresh)
      /\ Cardinality(J) \in Nat /\ Cardinality(fresh) \in Nat
  BY JoinedFinite, FS_Subset, CycleAssumption
<1>2. /\ \A u \in fresh : new[u].id = IdOf(u) /\ new[u].status = "ACTIVE"
      /\ \A u \in Users \ fresh : new[u] = ps[u]
  BY <1>1 DEF Enrolled, NewParticipant
<1>3. Joined(new) = J \cup fresh
  BY <1>1, <1>2 DEF Joined
<1>4. Cardinality(J \cup fresh) = Cardinality(J) + Cardinality(fresh)
  <2>1. J \cap fresh = {}
    OBVIOUS
  <2> HIDE DEF J, fresh
  <2> QED
    BY <1>1, <2>1, FS_Union, FS_EmptySet
<1>5. ASSUME NEW u \in fresh
      PROVE  Cardinality(upto(u)) \in 1 .. Cardinality(fresh)
  <2>1. upto(u) \in SUBSET fresh /\ u \in upto(u)
    BY <1>1, CycleAssumption
  <2> HIDE DEF upto, fresh
  <2>2. /\ IsFiniteSet(upto(u))
        /\ Cardinality(upto(u)) <= Cardinality(fresh)
    BY <1>1, <2>1, FS_Subset
  <2>3. Cardinality(upto(u)) \in Nat /\ Cardinality(upto(u)) # 0
    BY <2>1, <2>2, FS_CardinalityType, FS_EmptySet
  <2> QED
    BY <1>1, <2>2, <2>3
<1>6. ASSUME NEW u \in fresh, NEW v \in fresh, u < v
      PROVE  Cardinality(upto(u)) < Cardinality(upto(v))
  <2>1. u \in Nat /\ v \in Nat /\ fresh \subseteq Nat
    BY <1>1, CycleAssumption
  <2>2. /\ upto(u) \in SUBSET upto(v)
        /\ v \in upto(v) /\ v \notin upto(u)
        /\ upto(v) \in SUBSET fresh
    BY <1>6, <2>1
  <2>3. IsFiniteSet(upto(v))
    BY <1>1, <2>2, FS_Subset
  <2> HIDE DEF upto, fresh
  <2> QED
    BY <2>2, <2>3, SmallerSubset
<1> HIDE DEF fresh, upto, J, new
<1>7. \A u \in J : /\ new[u] = ps[u]
                   /\ ps[u].id \in 1 .. Cardinality(J)
                   /\ \A v \in J : ps[u].id = ps[v].id => u = v
  BY <1>1, <1>2 DEF Numbered, fresh, J
<1>8. ASSUME NEW u \in fresh
      PROVE  /\ new[u].id > Cardinality(J)
             /\ new[u].id <= Cardinality(J) + Cardinality(fresh)
             /\ new[u].id \in Nat
             /\ \A v \in fresh : new[u].id = new[v].id => u = v
  <2>1. /\ new[u].id = Cardinality(J) + Cardinality(upto(u))
        /\ Cardinality(upto(u)) \in 1 .. Cardinality(fresh)
    BY <1>2, <1>5
  <2>2. ASSUME NEW v \in fresh, new[u].id = new[v].id PROVE u = v
    <3>1. /\ new[v].id = Cardinality(J) + Cardinality(upto(v))
          /\ Cardinality(upto(v)) \in 1 .. Cardinality(fresh)
      BY <1>2, <1>5
    <3>2. Cardinality(upto(u)) = Cardinality(upto(v))
      BY <1>1, <2>1, <2>2, <3>1
    <3>3. ~ (u < v) /\ ~ (v < u)
      BY <1>1, <1>6, <2>1, <3>1, <3>2
    <3> QED
      BY <1>1, <3>3, CycleAssumption
  <2> QED
    BY <1>1, <2>1, <2>2
<1>9. ASSUME NEW u \in Joined(new)
      PROVE  /\ new[u].id \in 1 .. Cardinality(Joined(new))
             /\ \A v \in Joined(new) : new[u].id = new[v].id => u = v
  BY <1>1, <1>3, <1>4, <1>7, <1>8
<1> QED
  BY <1>9 DEF Numbered, new

(* Finalization leaves everybody's number and cash, records that cash as   *)
(* final and lets no peak fall.                                            *)
LEMMA FinalizedKeeps ==
  ASSUME NEW ps \in [Users -> Participant],
         \A u \in Users : ps[u].status # "FINALIZED"
  PROVE  LET new == Finalized(ps)
         IN  /\ Joined(new) = Joined(ps)
             /\ \A u \in Joined(ps) :
                  /\ new[u].id = ps[u].id /\ new[u].cash = ps[u].cash
                  /\ new[u].holds = ps[u].holds
                  /\ new[u].final = ps[u].cash /\ ps[u].peak <= new[u].peak
<1> DEFINE new == Finalized(ps)
           top(p) == IF p.peak < p.cash THEN p.cash ELSE p.peak
<1>1. ASSUME NEW u \in Users, u \in Joined(ps)
      PROVE  /\ new[u].id = ps[u].id /\ new[u].cash = ps[u].cash
             /\ new[u].holds = ps[u].holds
             /\ new[u].final = ps[u].cash /\ ps[u].peak <= new[u].peak
             /\ new[u].status = "FINALIZED"
  <2>1. ps[u].status = "ACTIVE" /\ ps[u] \in Participant
    BY <1>1 DEF Joined, Participant
  <2>2. new[u] = [ps[u] EXCEPT !.status = "FINALIZED", !.final = ps[u].cash,
                               !.peak = top(ps[u])]
    BY <2>1 DEF Finalized
  <2>3. ps[u].peak <= top(ps[u])
    BY <2>1 DEF Participant
  <2> HIDE DEF new, top
  <2> QED
    BY <2>1, <2>2, <2>3 DEF Participant
<1>2. ASSUME NEW u \in Users, u \notin Joined(ps)
      PROVE  new[u] = ps[u]
  BY <1>2 DEF Finalized, Joined
<1> HIDE DEF new
<1>3. Joined(new) = Joined(ps)
  BY <1>1, <1>2 DEF Joined
<1> QED
  BY <1>1, <1>3, JoinedFinite DEF new

(* So it keeps the numbering.                                              *)
LEMMA FinalizedNumbered ==
  ASSUME NEW ps \in [Users -> Participant], Numbered(ps),
         \A u \in Users : ps[u].status # "FINALIZED"
  PROVE  Numbered(Finalized(ps))
BY FinalizedKeeps DEF Numbered

(* Whoever beats another has the better rank, and one of any two does; so  *)
(* the ranks exhaust 1 .. N.                                               *)
LEMMA RanksAreFair ==
  ASSUME NEW ps, Numbered(ps), \A u \in Joined(ps) : ps[u].final \in Nat
  PROVE  /\ { RankOf(ps, u) : u \in Joined(ps) } = 1 .. Cardinality(Joined(ps))
         /\ \A u, v \in Joined(ps) :
              /\ RankOf(ps, u) = RankOf(ps, v) => u = v
              /\ RankOf(ps, u) < RankOf(ps, v) => ps[u].final >= ps[v].final
<1> DEFINE J == Joined(ps)
           ahead == [u \in J |-> {v \in J : Beats(ps[v], ps[u])}]
<1>1. IsFiniteSet(J)
  BY JoinedFinite, FS_Subset, CycleAssumption
<1>2. \A u \in J : ps[u].final \in Nat /\ ps[u].id \in Int
  BY DEF Numbered
<1>3. \A u, v \in J : ps[u].id = ps[v].id => u = v
  BY DEF Numbered
<1>4. /\ ahead \in [J -> SUBSET J]
      /\ \A u \in J : u \notin ahead[u]
      /\ \A u, v \in J : u # v => u \in ahead[v] \/ v \in ahead[u]
      /\ \A u, v \in J : u \in ahead[v] => ahead[u] \subseteq ahead[v]
  BY <1>2, <1>3 DEF Beats
<1>5. \A u \in J : RankOf(ps, u) = Place(J, ahead)[u]
  BY DEF RankOf, Place
<1>6. \A u, v \in J : u \in ahead[v] => ps[u].final >= ps[v].final
  BY <1>2 DEF Beats
<1> HIDE DEF J, ahead
<1>7. /\ { Place(J, ahead)[u] : u \in J } = 1 .. Cardinality(J)
      /\ \A u, v \in J : /\ Place(J, ahead)[u] = Place(J, ahead)[v] => u = v
                         /\ Place(J, ahead)[u] < Place(J, ahead)[v] => u \in ahead[v]
  BY <1>1, <1>4, PlacesInOrder
<1>8. { RankOf(ps, u) : u \in J } = { Place(J, ahead)[u] : u \in J }
  BY <1>5
<1> QED
  BY <1>5, <1>6, <1>7, <1>8 DEF J

(* The snapshot of finalized participants ranks them fairly.               *)
LEMMA RankedFair ==
  ASSUME NEW ps \in [Users -> Participant], NEW rs \in [Users -> Result],
         Numbered(ps), \A u \in Joined(ps) : ps[u].final = ps[u].cash,
         \A u \in Users : rs[u] = NoResult
  PROVE  FairRanks(ps, Ranked(ps, rs))
<1> DEFINE new == Ranked(ps, rs)
<1>1. \A u \in Joined(ps) : ps[u].final \in Nat /\ ps[u].final = ps[u].cash
  BY JoinedFinite DEF Participant
<1>2. \A u \in Joined(ps) : /\ new[u].rank = RankOf(ps, u)
                            /\ new[u].cash = ps[u].final
  BY JoinedFinite DEF Ranked
<1>3. /\ { RankOf(ps, u) : u \in Joined(ps) } = 1 .. Cardinality(Joined(ps))
      /\ \A u, v \in Joined(ps) :
           /\ RankOf(ps, u) = RankOf(ps, v) => u = v
           /\ RankOf(ps, u) < RankOf(ps, v) => ps[u].final >= ps[v].final
  BY <1>1, RanksAreFair
<1> HIDE DEF new
<1>4. { new[u].rank : u \in Joined(ps) } = { RankOf(ps, u) : u \in Joined(ps) }
  BY <1>2
<1> QED
  BY <1>1, <1>2, <1>3, <1>4 DEF FairRanks, new

-----------------------------------------------------------------------------
(* The law of one cycle through its life.                                  *)

(* A schedule a cycle is given or has is in order.                         *)
LEMMA ChoicesInOrder ==
  ASSUME NEW y, CycleOK(y), InOrder(y.schedule), NEW rows \in ScheduleChoices(y)
  PROVE  InOrder(rows)
<1>1. y.start \in Nat /\ y.end \in Nat /\ y.start < y.end
  BY DEF CycleOK, Cycle
<1>2. CASE \E c \in Coins : y.schedule[c] # NoRow
  BY <1>2 DEF ScheduleChoices
<1>3. CASE ~ \E c \in Coins : y.schedule[c] # NoRow
  BY <1>1, <1>3, SchedulesAreRows DEF ScheduleChoices
<1> QED
  BY <1>2, <1>3

(* ... and has not executed anything the cycle itself has not.             *)
LEMMA ChoicesAlive ==
  ASSUME NEW y, CycleOK(y), NEW now \in Nat, AliveAt(y, now),
         NEW rows \in ScheduleChoices(y), NEW c \in Coins
  PROVE  /\ rows[c].done <= now
         /\ rows[c] # NoRow /\ rows[c].at = y.end => rows[c].done = None
<1>1. y.start \in Nat /\ y.end \in Nat /\ y.start < y.end
  BY DEF CycleOK, Cycle
<1>2. CASE \E d \in Coins : y.schedule[d] # NoRow
  BY <1>2 DEF ScheduleChoices, AliveAt
<1>3. CASE ~ \E d \in Coins : y.schedule[d] # NoRow
  BY <1>1, <1>3, SchedulesAreRows DEF ScheduleChoices, None
<1> QED
  BY <1>2, <1>3

(* A cycle just created.                                                   *)
LEMMA NewCycleLaw ==
  ASSUME NEW start \in Nat, NEW rows \in Schedules(start, start + Duration),
         NEW now \in Nat, users \subseteq Users
  PROVE  Law(NewCycle(start, rows), now)
<1> DEFINE y == NewCycle(start, rows)
           nobody == [u \in Users |-> Absent]
<1>1. start + Duration \in Nat /\ start < start + Duration
  BY CycleAssumption
<1>2. InOrder(rows) /\ \A c \in Coins : rows[c].done = None
  BY <1>1, SchedulesAreRows
<1>3. nobody \in [Users -> Participant] /\ Numbered(nobody)
  BY NoOneYet DEF Numbered, Joined, Absent
<1>4. y.schedule = rows /\ y.participants = Enrolled(nobody, users)
      /\ y.status = "ACTIVE"
  BY DEF NewCycle
<1> HIDE DEF y, nobody
<1>5. Numbered(y.participants)
  BY <1>3, <1>4, EnrolledNumbered
<1>6. AliveAt(y, now)
  BY <1>2, <1>4 DEF AliveAt, None
<1> QED
  BY <1>2, <1>4, <1>5, <1>6 DEF Law, y

(* Recovery executes nothing due at the end of the cycle: it executes only *)
(* while the end is still to come.                                         *)
LEMMA RecoveredLaw ==
  ASSUME NEW y, CycleOK(y), y.status = "ACTIVE",
         NEW clk \in Nat, Law(y, clk),
         NEW rows \in ScheduleChoices(y), NEW now \in Nat, now <= clk,
         users \subseteq Users
  PROVE  Law(Recovered(y, rows, now), clk)
<1> DEFINE z == Recovered(y, rows, now)
           sched == IF y.end > now THEN Executed(rows, now) ELSE rows
           ps == Enrolled(y.participants, users)
<1>1. y \in Cycle /\ y.end \in Nat
  BY DEF CycleOK, Cycle
<1>2. rows \in [Coins -> Row] /\ InOrder(rows)
  BY ChoicesOK, ChoicesInOrder DEF Law
<1>3. InOrder(sched)
  BY <1>2, ExecutedInOrder
<1>4. ASSUME NEW c \in Coins
      PROVE  /\ sched[c].done <= clk
             /\ sched[c] # NoRow /\ sched[c].at = y.end => sched[c].done = None
  <2>1. /\ rows[c].done <= clk
        /\ rows[c] # NoRow /\ rows[c].at = y.end => rows[c].done = None
    BY ChoicesAlive DEF Law
  <2>2. CASE y.end > now
    <3>1. sched = Executed(rows, now)
      BY <2>2
    <3>2. LET old == rows[c]
              new == sched[c]
          IN  /\ new.at = old.at
              /\ old.done # None => new = old
              /\ (old = NoRow) <=> (new = NoRow)
              /\ old.done = None /\ new.done # None
                   => new.done = now /\ old.at <= now
      BY <1>2, <3>1, ExecutedRows
    <3> HIDE DEF sched
    <3> QED
      BY <1>1, <2>1, <2>2, <3>2 DEF None
  <2>3. CASE ~ (y.end > now)
    BY <2>1, <2>3
  <2> QED
    BY <2>2, <2>3
<1>5. Numbered(ps)
  BY <1>1, EnrolledNumbered DEF Law, Cycle
<1>6. z = [y EXCEPT !.schedule = sched, !.participants = ps]
  BY DEF Recovered
<1> HIDE DEF z, sched, ps
<1>7. z.end = y.end /\ z.schedule = sched /\ z.participants = ps
      /\ z.status = "ACTIVE"
  BY <1>1, <1>6 DEF Cycle
<1>8. AliveAt(z, clk)
  BY <1>4, <1>7 DEF AliveAt
<1> QED
  BY <1>3, <1>5, <1>7, <1>8 DEF Law, z

(* Settlement keeps the order of deaths and ranks everybody fairly.        *)
LEMMA SettledLaw ==
  ASSUME NEW y, CycleOK(y), WholeOK(y), y.status = "SETTLING",
         NEW clk, Law(y, clk), NEW rows \in ScheduleChoices(y)
  PROVE  Law(Settled(y, rows), clk)
<1> DEFINE z == Settled(y, rows)
           sched == Executed(rows, y.end)
           ps == Finalized(y.participants)
           rs == Ranked(ps, y.results)
<1>1. y \in Cycle /\ y.end \in Nat
      /\ y.participants \in [Users -> Participant]
      /\ y.results \in [Users -> Result]
  BY DEF CycleOK, Cycle
<1>2. \A u \in Users : /\ y.participants[u].status # "FINALIZED"
                       /\ y.results[u] = NoResult
  BY DEF WholeOK
<1>3. InOrder(sched)
  BY <1>1, ChoicesOK, ChoicesInOrder, ExecutedInOrder DEF Law
<1>4. /\ ps \in [Users -> Participant]
      /\ Numbered(ps)
      /\ \A u \in Joined(ps) : ps[u].final = ps[u].cash
  BY <1>1, <1>2, FinalizedOK, FinalizedNumbered, FinalizedKeeps DEF Law, CycleOK
<1> HIDE DEF sched, ps
<1>5. FairRanks(ps, rs)
  BY <1>1, <1>2, <1>4, RankedFair
<1>6. z = [y EXCEPT !.status = "COMPLETED", !.schedule = sched,
                    !.participants = ps, !.results = rs]
  BY DEF Settled, sched, ps
<1> HIDE DEF z, rs
<1>7. z.status = "COMPLETED" /\ z.schedule = sched /\ z.participants = ps
      /\ z.results = rs
  BY <1>1, <1>6 DEF Cycle
<1> QED
  BY <1>3, <1>4, <1>5, <1>7 DEF Law, z

-----------------------------------------------------------------------------
(* The law of all cycles.                                                  *)

(* A law obeyed at one time is obeyed at any later one.                    *)
LEMMA LawLater ==
  ASSUME NEW y \in Cycle, NEW s \in Nat, NEW t \in Nat, s <= t, Law(y, s)
  PROVE  Law(y, t)
<1>1. \A c \in Coins : y.schedule[c].done \in Int
  BY DEF Cycle, Row, None
<1> QED
  BY <1>1 DEF Law, AliveAt

(* Time only passes, and a call reads it when it begins.                   *)
LEMMA NowStep ==
  ASSUME RestOK, NowNotAhead, [Next]_vars
  PROVE  clock <= clock' /\ NowNotAhead'
<1>1. /\ clock \in Nat
      /\ \A c \in Callers : call[c].now \in Nat /\ call[c].now <= clock
      /\ call \in [Callers -> [phase : {"idle", "freeze", "settle", "ensure", "done"},
                               now : 0 .. MaxClock]]
  BY CycleAssumption DEF RestOK, NowNotAhead
<1>2. CASE UNCHANGED vars
  BY <1>1, <1>2 DEF vars, NowNotAhead
<1>3. CASE Tick
  BY <1>1, <1>3 DEF Tick, NowNotAhead
<1>4. CASE \E u \in Users : RegisterUser(u)
  BY <1>1, <1>4 DEF RegisterUser, NowNotAhead
<1>5. ASSUME NEW c \in Callers, Reconcile(c) \/ Fail(c)
      PROVE  clock <= clock' /\ NowNotAhead'
  BY <1>1, <1>5 DEF Reconcile, Fail, NowNotAhead
<1>6. ASSUME NEW c \in Callers,
             \/ FreezeExpiredActiveCycle(c)
             \/ SettleSettlingCycle(c)
             \/ EnsureActiveCycle(c)
      PROVE  clock <= clock' /\ NowNotAhead'
  <2>1. clock' = clock /\ \E phase : Goto(c, phase)
    BY <1>6 DEF FreezeExpiredActiveCycle, SettleSettlingCycle, EnsureActiveCycle,
                CreateActiveCycle, RecoverActiveCycle, Return
  <2>2. \A d \in Callers : call'[d].now = call[d].now
    BY <1>1, <2>1 DEF Goto
  <2> QED
    BY <1>1, <2>1, <2>2 DEF NowNotAhead
<1> QED
  BY <1>2, <1>3, <1>4, <1>5, <1>6 DEF Next, CycleStep

(* Every transaction keeps the law.                                        *)
LEMMA LawStep ==
  ASSUME Invariant, Lawful, NowNotAhead, [Next]_vars
  PROVE  Lawful'
<1>1. RestOK /\ TableOK /\ cycles \in Seq(Cycle) /\ AllOK /\ users \subseteq Users
  BY InvariantParts DEF TableOK, AllOK, RestOK
<1>2. clock \in Nat /\ clock' \in Nat /\ clock <= clock'
  <2>1. RestOK' /\ clock <= clock'
    BY <1>1, RestStep, NowStep
  <2> QED
    BY <1>1, <2>1, CycleAssumption DEF RestOK
<1>3. \A k \in DOMAIN cycles : /\ cycles[k] \in Cycle
                               /\ CycleOK(cycles[k]) /\ WholeOK(cycles[k])
                               /\ Law(cycles[k], clock)
                               /\ Law(cycles[k], clock')
  BY <1>1, <1>2, LawLater DEF AllOK, CycleOK, Lawful
<1>4. CASE cycles' = cycles
  BY <1>3, <1>4 DEF Lawful
<1>5. ASSUME NEW k \in DOMAIN cycles, NEW z \in Cycle, Replaced(k, z), Law(z, clock')
      PROVE  Lawful'
  BY <1>1, <1>3, <1>5, ReplacedTable DEF Lawful
<1>6. ASSUME NEW k \in InStatus("ACTIVE"),
             Replaced(k, [cycles[k] EXCEPT !.status = "SETTLING"])
      PROVE  Lawful'
  <2> DEFINE z == [cycles[k] EXCEPT !.status = "SETTLING"]
  <2>1. k \in DOMAIN cycles
    BY DEF InStatus
  <2>2. /\ z \in Cycle /\ z.status = "SETTLING"
        /\ z.schedule = cycles[k].schedule
        /\ z.participants = cycles[k].participants
    BY <1>3, <2>1 DEF Cycle
  <2> HIDE DEF z
  <2>3. Law(z, clock')
    BY <1>3, <2>1, <2>2 DEF Law
  <2> QED
    BY <1>5, <1>6, <2>1, <2>2, <2>3 DEF z
<1>7. ASSUME NEW k \in InStatus("SETTLING"), NEW rows \in ScheduleChoices(cycles[k]),
             Replaced(k, Settled(cycles[k], rows))
      PROVE  Lawful'
  <2>1. k \in DOMAIN cycles /\ cycles[k].status = "SETTLING"
    BY DEF InStatus
  <2>2. Settled(cycles[k], rows) \in Cycle
    BY <1>3, <2>1, SettledOK DEF CycleOK
  <2>3. Law(Settled(cycles[k], rows), clock')
    BY <1>3, <2>1, SettledLaw
  <2> QED
    BY <1>5, <1>7, <2>1, <2>2, <2>3
<1>8. ASSUME NEW start \in Nat, NEW rows \in Schedules(start, start + Duration),
             Appended(NewCycle(start, rows))
      PROVE  Lawful'
  <2> DEFINE z == NewCycle(start, rows)
  <2>1. z \in Cycle /\ Law(z, clock')
    BY <1>1, <1>2, NewCycleOK, NewCycleLaw DEF CycleOK
  <2> HIDE DEF z
  <2>2. /\ DOMAIN cycles' = DOMAIN cycles \cup {Len(cycles) + 1}
        /\ cycles'[Len(cycles) + 1] = z
        /\ \A j \in DOMAIN cycles : cycles'[j] = cycles[j]
    BY <1>1, <1>8, <2>1, AppendedTable DEF z
  <2> QED
    BY <1>3, <2>1, <2>2 DEF Lawful
<1>9. ASSUME NEW k \in InStatus("ACTIVE"), NEW c \in Callers,
             NEW rows \in ScheduleChoices(cycles[k]),
             Replaced(k, Recovered(cycles[k], rows, call[c].now))
      PROVE  Lawful'
  <2>1. k \in DOMAIN cycles /\ cycles[k].status = "ACTIVE"
    BY DEF InStatus
  <2>2. call[c].now \in Nat /\ call[c].now <= clock'
    BY <1>1, <1>2 DEF RestOK, NowNotAhead
  <2>3. Recovered(cycles[k], rows, call[c].now) \in Cycle
    BY <1>1, <1>3, <2>1, <2>2, RecoveredOK DEF CycleOK
  <2>4. Law(Recovered(cycles[k], rows, call[c].now), clock')
    BY <1>1, <1>2, <1>3, <2>1, <2>2, RecoveredLaw
  <2> QED
    BY <1>5, <1>9, <2>1, <2>3, <2>4
<1> QED
  BY <1>1, <1>4, <1>6, <1>7, <1>8, <1>9, CycleSteps

(* A database without history, or with one unscheduled cycle, is lawful.   *)
LEMMA LawInit == Init => Lawful /\ NowNotAhead
<1> SUFFICES ASSUME Init PROVE Lawful /\ NowNotAhead
  OBVIOUS
<1>1. NowNotAhead
  BY DEF Init, NowNotAhead
<1>2. Law(LegacyCycle, 0)
  BY DEF Law, LegacyCycle, InOrder, Unscheduled, Numbered, Joined, Absent, AliveAt,
         NoRow, None
<1>3. CASE cycles = <<>>
  BY <1>1, <1>3, EmptySeq DEF Lawful
<1>4. CASE cycles = <<LegacyCycle>>
  <2>1. DOMAIN cycles = {1} /\ cycles[1] = LegacyCycle
    BY <1>4
  <2> QED
    BY <1>1, <1>2, <2>1 DEF Lawful, Init
<1> QED
  BY <1>1, <1>3, <1>4 DEF Init

(* The inductive invariant of this module.                                 *)
LawfulInvariant == Invariant /\ Lawful /\ NowNotAhead

(* It is inductive.                                                        *)
LEMMA LawfulInvariantStep == LawfulInvariant /\ [Next]_vars => LawfulInvariant'
<1> SUFFICES ASSUME LawfulInvariant, [Next]_vars PROVE LawfulInvariant'
  OBVIOUS
<1>1. RestOK
  BY InvariantParts DEF LawfulInvariant
<1>2. Invariant'
  BY InvariantStep DEF LawfulInvariant
<1>3. Lawful'
  BY LawStep DEF LawfulInvariant
<1>4. NowNotAhead'
  BY <1>1, NowStep DEF LawfulInvariant
<1> QED
  BY <1>2, <1>3, <1>4 DEF LawfulInvariant

(* Every cycle obeys the law for ever, for any number of callers.          *)
THEOREM LawHolds == Spec => []LawfulInvariant
<1>1. Init => LawfulInvariant
  BY InvariantInit, LawInit DEF LawfulInvariant
<1> QED
  BY <1>1, LawfulInvariantStep, PTL DEF Spec

(* Coins collapse in rank order (executeDueCollapses), though every caller *)
(* executes what is due at an older or newer `now` of its own.             *)
THEOREM RankOrder == Spec => []CollapsesInRankOrder
<1>1. LawfulInvariant => CollapsesInRankOrder
  <2> SUFFICES ASSUME LawfulInvariant, NEW k \in DOMAIN cycles,
                      NEW c \in Coins, NEW d \in Coins,
                      cycles[k].schedule[d].done # None,
                      cycles[k].schedule[c] # NoRow,
                      cycles[k].schedule[c].rank < cycles[k].schedule[d].rank
               PROVE  /\ cycles[k].schedule[c].done # None
                      /\ cycles[k].schedule[c].done <= cycles[k].schedule[d].done
    BY DEF CollapsesInRankOrder
  <2>1. InOrder(cycles[k].schedule)
    BY DEF LawfulInvariant, Lawful, Law
  <2>2. cycles[k].schedule[d] # NoRow
    BY DEF NoRow
  <2> QED
    BY <2>1, <2>2 DEF InOrder
<1> QED
  BY <1>1, LawHolds, PTL

(* No coin collapses early: the last one of an ACTIVE cycle is alive until *)
(* the cycle is frozen, and no row is executed at a time still to come.    *)
THEOREM LastCoinAlive == Spec => []LastCoinSurvives
<1>1. LawfulInvariant => LastCoinSurvives
  BY DEF LawfulInvariant, Lawful, Law, AliveAt, LastCoinSurvives, InStatus
<1> QED
  BY <1>1, LawHolds, PTL

(* The ranks of a settled cycle are 1 .. N, each held once, whatever cash  *)
(* is tied (snapshotCycleResults orders ties by participant_id).           *)
THEOREM RanksWithoutGap == Spec => []RanksGapless
<1>1. LawfulInvariant => RanksGapless
  BY DEF LawfulInvariant, Lawful, Law, FairRanks, RanksGapless, InStatus
<1> QED
  BY <1>1, LawHolds, PTL

-----------------------------------------------------------------------------
(* What a step leaves of a cycle.                                          *)

(* No row of a schedule once persisted is moved or executed again.         *)
ScheduleKept(y, z) ==
  (\E d \in Coins : y.schedule[d] # NoRow) =>
    \A c \in Coins : /\ z.schedule[c].rank = y.schedule[c].rank
                     /\ z.schedule[c].at = y.schedule[c].at
                     /\ y.schedule[c].done # None
                          => z.schedule[c].done = y.schedule[c].done

(* Whoever is in stays in, with number, cash and holdings, and no peak     *)
(* falls; once the cycle is frozen nobody else gets in.                    *)
EnrolmentKept(y, z) ==
  /\ \A u \in Joined(y.participants) :
       LET old == y.participants[u]
           new == z.participants[u]
       IN  /\ new.id = old.id /\ new.cash = old.cash /\ new.holds = old.holds
           /\ old.peak <= new.peak
           /\ old.status = "FINALIZED" => new = old
  /\ y.status # "ACTIVE" => Joined(z.participants) = Joined(y.participants)

(* A step that leaves a cycle's rows alone keeps both ...                  *)
LEMMA UntouchedKept ==
  ASSUME NEW y \in Cycle, NEW z, z.schedule = y.schedule,
         z.participants = y.participants
  PROVE  ScheduleKept(y, z) /\ EnrolmentKept(y, z)
<1>1. \A u \in Joined(y.participants) : y.participants[u].peak \in Nat
  BY JoinedFinite DEF Cycle, Participant
<1> QED
  BY <1>1 DEF ScheduleKept, EnrolmentKept

(* ... so does settlement, which executes only what is left ...            *)
LEMMA SettledKept ==
  ASSUME NEW y, CycleOK(y), WholeOK(y), y.status = "SETTLING",
         NEW rows \in ScheduleChoices(y)
  PROVE  ScheduleKept(y, Settled(y, rows)) /\ EnrolmentKept(y, Settled(y, rows))
<1> DEFINE z == Settled(y, rows)
           ps == Finalized(y.participants)
<1>1. y \in Cycle /\ y.end \in Nat /\ y.participants \in [Users -> Participant]
  BY DEF CycleOK, Cycle
<1>2. z.schedule = Executed(rows, y.end) /\ z.participants = ps
  BY <1>1 DEF Settled, Cycle
<1>3. ScheduleKept(y, z)
  <2> SUFFICES ASSUME NEW d \in Coins, y.schedule[d] # NoRow, NEW c \in Coins
               PROVE  /\ z.schedule[c].rank = y.schedule[c].rank
                      /\ z.schedule[c].at = y.schedule[c].at
                      /\ y.schedule[c].done # None
                           => z.schedule[c].done = y.schedule[c].done
    BY DEF ScheduleKept
  <2>1. rows = y.schedule /\ rows \in [Coins -> Row]
    BY ChoicesOK
  <2> QED
    BY <1>1, <1>2, <2>1, ExecutedRows
<1>4. \A u \in Joined(y.participants) :
        /\ ps[u].id = y.participants[u].id /\ ps[u].cash = y.participants[u].cash
        /\ ps[u].holds = y.participants[u].holds
        /\ y.participants[u].peak <= ps[u].peak
        /\ y.participants[u].status # "FINALIZED"
  BY <1>1, FinalizedKeeps, JoinedFinite DEF WholeOK
<1>5. Joined(ps) = Joined(y.participants)
  BY <1>1, FinalizedKeeps DEF WholeOK
<1> HIDE DEF z, ps
<1>6. EnrolmentKept(y, z)
  BY <1>2, <1>4, <1>5 DEF EnrolmentKept
<1> QED
  BY <1>3, <1>6 DEF z

(* ... and recovery, which completes a schedule only when there is none.   *)
LEMMA RecoveredKept ==
  ASSUME NEW y, CycleOK(y), y.status = "ACTIVE",
         NEW rows \in ScheduleChoices(y), NEW now \in Nat, users \subseteq Users
  PROVE  /\ ScheduleKept(y, Recovered(y, rows, now))
         /\ EnrolmentKept(y, Recovered(y, rows, now))
<1> DEFINE z == Recovered(y, rows, now)
           ps == Enrolled(y.participants, users)
<1>1. y \in Cycle /\ y.participants \in [Users -> Participant]
  BY DEF CycleOK, Cycle
<1>2. /\ z.schedule = IF y.end > now THEN Executed(rows, now) ELSE rows
      /\ z.participants = ps
  BY <1>1 DEF Recovered, Cycle
<1>3. ScheduleKept(y, z)
  <2> SUFFICES ASSUME NEW d \in Coins, y.schedule[d] # NoRow, NEW c \in Coins
               PROVE  /\ z.schedule[c].rank = y.schedule[c].rank
                      /\ z.schedule[c].at = y.schedule[c].at
                      /\ y.schedule[c].done # None
                           => z.schedule[c].done = y.schedule[c].done
    BY DEF ScheduleKept
  <2>1. rows = y.schedule /\ rows \in [Coins -> Row]
    BY ChoicesOK
  <2>2. CASE y.end > now
    BY <1>2, <2>1, <2>2, ExecutedRows
  <2>3. CASE ~ (y.end > now)
    BY <1>2, <2>1, <2>3
  <2> QED
    BY <2>2, <2>3
<1>4. \A u \in Joined(y.participants) :
        ps[u] = y.participants[u] /\ y.participants[u].peak \in Nat
  BY <1>1, EnrolledOK, JoinedFinite DEF CycleOK, Participant
<1> HIDE DEF z, ps
<1>5. EnrolmentKept(y, z)
  BY <1>2, <1>4 DEF EnrolmentKept
<1> QED
  BY <1>3, <1>5 DEF z

(* Whatever the step, it keeps the schedule and the enrolment of each      *)
(* cycle it finds.                                                         *)
LEMMA StepKeeps ==
  ASSUME Invariant, [Next]_vars, NEW k \in DOMAIN cycles
  PROVE  ScheduleKept(cycles[k], cycles'[k]) /\ EnrolmentKept(cycles[k], cycles'[k])
<1>1. RestOK /\ TableOK /\ cycles \in Seq(Cycle) /\ AllOK /\ users \subseteq Users
  BY InvariantParts DEF TableOK, AllOK, RestOK
<1>2. \A j \in DOMAIN cycles : /\ cycles[j] \in Cycle
                               /\ CycleOK(cycles[j]) /\ WholeOK(cycles[j])
  BY <1>1 DEF AllOK, CycleOK
<1>3. CASE cycles'[k] = cycles[k]
  BY <1>2, <1>3, UntouchedKept
<1>4. ASSUME NEW j \in DOMAIN cycles, NEW z \in Cycle, Replaced(j, z),
             ScheduleKept(cycles[j], z) /\ EnrolmentKept(cycles[j], z)
      PROVE  ScheduleKept(cycles[k], cycles'[k]) /\ EnrolmentKept(cycles[k], cycles'[k])
  <2>1. cycles'[k] = IF k = j THEN z ELSE cycles[k]
    BY <1>1, <1>4, ReplacedTable
  <2> QED
    BY <1>3, <1>4, <2>1
<1>5. ASSUME NEW j \in InStatus("ACTIVE"),
             Replaced(j, [cycles[j] EXCEPT !.status = "SETTLING"])
      PROVE  ScheduleKept(cycles[k], cycles'[k]) /\ EnrolmentKept(cycles[k], cycles'[k])
  <2> DEFINE z == [cycles[j] EXCEPT !.status = "SETTLING"]
  <2>1. j \in DOMAIN cycles
    BY DEF InStatus
  <2>2. /\ z \in Cycle
        /\ z.schedule = cycles[j].schedule
        /\ z.participants = cycles[j].participants
    BY <1>2, <2>1 DEF Cycle
  <2> HIDE DEF z
  <2>3. ScheduleKept(cycles[j], z) /\ EnrolmentKept(cycles[j], z)
    BY <1>2, <2>1, <2>2, UntouchedKept
  <2> QED
    BY <1>4, <1>5, <2>1, <2>2, <2>3 DEF z
<1>6. ASSUME NEW j \in InStatus("SETTLING"), NEW rows \in ScheduleChoices(cycles[j]),
             Replaced(j, Settled(cycles[j], rows))
      PROVE  ScheduleKept(cycles[k], cycles'[k]) /\ EnrolmentKept(cycles[k], cycles'[k])
  <2>1. j \in DOMAIN cycles /\ cycles[j].status = "SETTLING"
    BY DEF InStatus
  <2>2. Settled(cycles[j], rows) \in Cycle
    BY <1>2, <2>1, SettledOK DEF CycleOK
  <2> QED
    BY <1>2, <1>4, <1>6, <2>1, <2>2, SettledKept
<1>7. ASSUME NEW start \in Nat, NEW rows \in Schedules(start, start + Duration),
             Appended(NewCycle(start, rows))
      PROVE  cycles'[k] = cycles[k]
  BY <1>1, <1>7, NewCycleOK, AppendedTable DEF CycleOK
<1>8. ASSUME NEW j \in InStatus("ACTIVE"), NEW c \in Callers,
             NEW rows \in ScheduleChoices(cycles[j]),
             Replaced(j, Recovered(cycles[j], rows, call[c].now))
      PROVE  ScheduleKept(cycles[k], cycles'[k]) /\ EnrolmentKept(cycles[k], cycles'[k])
  <2>1. j \in DOMAIN cycles /\ cycles[j].status = "ACTIVE" /\ call[c].now \in Nat
    BY <1>1 DEF InStatus, RestOK
  <2>2. Recovered(cycles[j], rows, call[c].now) \in Cycle
    BY <1>1, <1>2, <2>1, RecoveredOK DEF CycleOK
  <2> QED
    BY <1>1, <1>2, <1>4, <1>8, <2>1, <2>2, RecoveredKept
<1> QED
  BY <1>1, <1>3, <1>5, <1>6, <1>7, <1>8, CycleSteps

(* A schedule, once persisted, is authoritative (createScheduleForCycle):  *)
(* no step rerolls it or executes a row of it a second time.               *)
THEOREM ScheduleIsKept == Spec => ScheduleNeverRerolled
<1>1. Invariant /\ [Next]_vars
      => [\A k \in DOMAIN cycles : \A c \in Coins :
            LET old == cycles[k].schedule[c]
                new == cycles'[k].schedule[c]
            IN  (\E d \in Coins : cycles[k].schedule[d] # NoRow)
                  => /\ new.rank = old.rank
                     /\ new.at = old.at
                     /\ (old.done # None => new.done = old.done)]_vars
  BY StepKeeps DEF ScheduleKept
<1> QED
  BY <1>1, InvariantHolds, PTL DEF Spec, ScheduleNeverRerolled

-----------------------------------------------------------------------------
(* Rounds opened alone.                                                    *)

(* A coin's price is zero exactly when the cycle executed it.              *)
TellsDeath(y, prices) ==
  \A c \in Coins : (prices[c] = 0) <=> (y.schedule[c].done # None)

(* As long as no cycle is opened beside one that is still to be settled,   *)
(* cycles follow one another without overlap, and prices are those of the  *)
(* only cycle that lives.                                                  *)
Solo == Chained /\ NoOverlap /\ PriceTellsDeath

(* In a chain only the last cycle lives.                                   *)
LEMMA ChainedLast ==
  ASSUME Chained, cycles \in Seq(Cycle), NEW k \in DOMAIN cycles,
         cycles[k].status # "COMPLETED", NEW j \in DOMAIN cycles, j # k
  PROVE  j < k /\ cycles[j].status = "COMPLETED"
<1>1. DOMAIN cycles = 1 .. Len(cycles) /\ Len(cycles) \in Nat
  BY LenProperties
<1>2. ASSUME NEW i \in DOMAIN cycles, i + 1 \in DOMAIN cycles
      PROVE  cycles[i].status = "COMPLETED"
  <2>1. i + 1 > 1 /\ (i + 1) - 1 = i
    BY <1>1
  <2> QED
    BY <1>2, <2>1 DEF Chained
<1>3. j < k
  <2>1. CASE k < j
    <3>1. k + 1 \in DOMAIN cycles
      BY <1>1, <2>1
    <3> QED
      BY <1>2, <3>1
  <2> QED
    BY <1>1, <2>1
<1>4. j + 1 \in DOMAIN cycles
  BY <1>1, <1>3
<1> QED
  BY <1>2, <1>3, <1>4

(* One cycle that lives is replaced by one over the same window.           *)
LEMMA SoloReplaced ==
  ASSUME Solo, cycles \in Seq(Cycle), NEW k \in DOMAIN cycles,
         cycles[k].status # "COMPLETED", NEW z \in Cycle, Replaced(k, z),
         z.start = cycles[k].start, z.end = cycles[k].end,
         z.status # "COMPLETED" => TellsDeath(z, price')
  PROVE  Solo'
<1>1. /\ DOMAIN cycles' = DOMAIN cycles
      /\ \A j \in DOMAIN cycles : cycles'[j] = IF j = k THEN z ELSE cycles[j]
  BY ReplacedTable
<1>2. DOMAIN cycles = 1 .. Len(cycles) /\ Len(cycles) \in Nat
  BY LenProperties
<1>3. \A j \in DOMAIN cycles : /\ cycles'[j].start = cycles[j].start
                               /\ cycles'[j].end = cycles[j].end
  BY <1>1
<1>4. \A j \in DOMAIN cycles :
        j # k => j < k /\ cycles[j].status = "COMPLETED" /\ cycles'[j] = cycles[j]
  BY <1>1, ChainedLast DEF Solo
<1>5. Chained'
  <2> SUFFICES ASSUME NEW j \in DOMAIN cycles, j > 1
               PROVE  /\ cycles'[j].start = cycles'[j - 1].end
                      /\ cycles'[j - 1].status = "COMPLETED"
    BY <1>1 DEF Chained
  <2>1. j - 1 \in DOMAIN cycles /\ (j <= k => j - 1 # k)
    BY <1>2
  <2>2. j - 1 # k
    BY <1>2, <1>4, <2>1
  <2>3. cycles[j].start = cycles[j - 1].end
    BY DEF Solo, Chained
  <2> QED
    BY <1>3, <1>4, <2>1, <2>2, <2>3
<1>6. NoOverlap'
  BY <1>1, <1>3 DEF Solo, NoOverlap
<1>7. PriceTellsDeath'
  <2> SUFFICES ASSUME NEW j \in DOMAIN cycles, cycles'[j].status # "COMPLETED"
               PROVE  TellsDeath(cycles'[j], price')
    BY <1>1 DEF PriceTellsDeath, InStatus, TellsDeath
  <2>1. j = k
    BY <1>4
  <2> QED
    BY <1>1, <2>1
<1> QED
  BY <1>5, <1>6, <1>7 DEF Solo

(* Recovery leaves the prices of the cycle's dead at zero, and no others.  *)
LEMMA RecoveredTellsDeath ==
  ASSUME NEW y, CycleOK(y), NEW rows \in ScheduleChoices(y), NEW now \in Nat,
         TellsDeath(y, price), price \in [Coins -> Nat], NEW prices,
         prices = IF y.end > now THEN Collapsed(rows, now, price) ELSE price
  PROVE  TellsDeath(Recovered(y, rows, now), prices)
<1> DEFINE sched == IF y.end > now THEN Executed(rows, now) ELSE rows
<1>1. Recovered(y, rows, now).schedule = sched
  BY DEF Recovered, CycleOK, Cycle
<1>2. \A c \in Coins : (price[c] = 0) <=> (rows[c].done # None)
  <2>1. CASE \E c \in Coins : y.schedule[c] # NoRow
    BY <2>1, ChoicesOK DEF TellsDeath
  <2>2. CASE ~ \E c \in Coins : y.schedule[c] # NoRow
    <3>1. y.start \in Nat /\ y.end \in Nat /\ y.start < y.end
      BY DEF CycleOK, Cycle
    <3>2. \A c \in Coins : rows[c].done = None
      BY <2>2, <3>1, SchedulesAreRows DEF ScheduleChoices
    <3>3. \A c \in Coins : y.schedule[c].done = None
      BY <2>2 DEF NoRow
    <3> QED
      BY <3>2, <3>3 DEF TellsDeath
  <2> QED
    BY <2>1, <2>2
<1>3. CASE ~ (y.end > now)
  BY <1>1, <1>2, <1>3 DEF TellsDeath
<1>4. CASE y.end > now
  <2>1. rows \in [Coins -> Row]
    BY ChoicesOK
  <2>2. \A c \in Coins :
          /\ Executed(rows, now)[c].done
               = IF c \in Due(rows, now) THEN now ELSE rows[c].done
          /\ Collapsed(rows, now, price)[c]
               = IF c \in Due(rows, now) THEN 0 ELSE price[c]
    BY <2>1 DEF Executed, Collapsed, Row
  <2>3. now # None
    BY DEF None
  <2> HIDE DEF sched
  <2>4. sched = Executed(rows, now) /\ prices = Collapsed(rows, now, price)
    BY <1>4 DEF sched
  <2> QED
    BY <1>1, <1>2, <2>2, <2>3, <2>4 DEF TellsDeath
<1> QED
  BY <1>3, <1>4

(* A successor of a chain that is all settled starts where it ends.        *)
LEMMA SoloAppended ==
  ASSUME Solo, Invariant, InStatus("ACTIVE") = {}, InStatus("SETTLING") = {},
         NEW now, NEW start \in StartTimes(now), start \in Nat,
         NEW rows \in Schedules(start, start + Duration),
         Appended(NewCycle(start, rows)), price' = Baseline
  PROVE  Solo'
<1> DEFINE n == Len(cycles)
           z == NewCycle(start, rows)
<1>1. /\ RestOK /\ cycles \in Seq(Cycle) /\ users \subseteq Users
      /\ \A j \in DOMAIN cycles : CycleOK(cycles[j]) /\ cycles[j] \in Cycle
  BY InvariantParts DEF AllOK, CycleOK, RestOK
<1>2. n \in Nat /\ DOMAIN cycles = 1 .. n
  BY <1>1, LenProperties
<1>3. /\ z \in Cycle /\ z.start = start /\ z.schedule = rows /\ z.status = "ACTIVE"
  BY <1>1, NewCycleOK DEF CycleOK, NewCycle
<1> HIDE DEF z
<1>4. /\ DOMAIN cycles' = DOMAIN cycles \cup {n + 1}
      /\ cycles'[n + 1] = z
      /\ \A j \in DOMAIN cycles : cycles'[j] = cycles[j]
  BY <1>1, <1>3, AppendedTable DEF z
<1> HIDE DEF n
<1>5. \A j \in DOMAIN cycles : cycles[j].status = "COMPLETED"
  BY <1>1 DEF InStatus, Cycle
<1>6. \A j \in DOMAIN cycles : /\ cycles[j].start \in Nat /\ cycles[j].end \in Nat
                               /\ cycles[j].start < cycles[j].end
  BY <1>1 DEF CycleOK, Cycle
<1>7. ASSUME n > 0 PROVE start = cycles[n].end
  <2>1. n \in DOMAIN cycles
    BY <1>2, <1>7
  <2>2. n \in InStatus("COMPLETED")
    BY <1>5, <2>1 DEF InStatus
  <2>3. PICK k \in DOMAIN cycles :
          /\ start = cycles[k].end
          /\ cycles[n].end <= cycles[k].end
    BY <2>2 DEF StartTimes, InStatus
  <2>4. k # n => cycles[k].end <= cycles[n].start
    BY <1>2, <2>1 DEF Solo, NoOverlap
  <2> QED
    BY <1>6, <2>1, <2>3, <2>4
<1>8. Chained'
  <2> SUFFICES ASSUME NEW j \in DOMAIN cycles \cup {n + 1}, j > 1
               PROVE  /\ cycles'[j].start = cycles'[j - 1].end
                      /\ cycles'[j - 1].status = "COMPLETED"
    BY <1>4 DEF Chained
  <2>1. j - 1 \in DOMAIN cycles
    BY <1>2
  <2>2. CASE j \in DOMAIN cycles
    BY <1>4, <1>5, <2>1, <2>2 DEF Solo, Chained
  <2>3. CASE j = n + 1
    BY <1>2, <1>3, <1>4, <1>5, <1>7, <2>1, <2>3
  <2> QED
    BY <2>2, <2>3
<1>9. NoOverlap'
  <2> SUFFICES ASSUME NEW i \in DOMAIN cycles \cup {n + 1},
                      NEW j \in DOMAIN cycles \cup {n + 1}, i < j
               PROVE  cycles'[i].end <= cycles'[j].start
    BY <1>4 DEF NoOverlap
  <2>1. i \in DOMAIN cycles
    BY <1>2
  <2>2. CASE j \in DOMAIN cycles
    BY <1>4, <2>1, <2>2 DEF Solo, NoOverlap
  <2>3. CASE j = n + 1
    <3>1. n > 0 /\ n \in DOMAIN cycles /\ cycles'[j].start = cycles[n].end
      BY <1>2, <1>3, <1>4, <1>7, <2>1, <2>3
    <3>2. i # n => cycles[i].end <= cycles[n].start
      BY <1>2, <2>1, <3>1 DEF Solo, NoOverlap
    <3> QED
      BY <1>4, <1>6, <2>1, <3>1, <3>2
  <2> QED
    BY <2>2, <2>3
<1>10. PriceTellsDeath'
  <2>1. \A c \in Coins : price'[c] # 0 /\ rows[c].done = None
    <3>1. start + Duration \in Nat /\ start < start + Duration
      BY CycleAssumption
    <3> QED
      BY <3>1, SchedulesAreRows, CycleAssumption
  <2>2. \A k \in DOMAIN cycles' : cycles'[k].status # "COMPLETED" => k = n + 1
    BY <1>4, <1>5
  <2> QED
    BY <1>3, <1>4, <2>1, <2>2 DEF PriceTellsDeath, InStatus
<1> QED
  BY <1>8, <1>9, <1>10 DEF Solo

(* Nothing that leaves cycles and prices alone disturbs it.                *)
LEMMA SoloStays ==
  ASSUME Solo, UNCHANGED <<cycles, price>>
  PROVE  Solo'
<1>1. cycles' = cycles /\ price' = price
  OBVIOUS
<1> QED
  BY <1>1 DEF Solo, Chained, NoOverlap, PriceTellsDeath, InStatus

(* Every step of the lifecycle that opens no cycle too early keeps it.     *)
LEMMA SoloStep ==
  ASSUME Invariant, Solo, [Next]_vars, [OpensAlone]_cycles
  PROVE  Solo'
<1>1. /\ RestOK /\ TableOK /\ cycles \in Seq(Cycle) /\ users \subseteq Users
      /\ \A j \in DOMAIN cycles : /\ CycleOK(cycles[j]) /\ cycles[j] \in Cycle
                                  /\ WholeOK(cycles[j])
  BY InvariantParts DEF AllOK, CycleOK, RestOK, TableOK
<1>2. price \in [Coins -> Nat] /\ \A c \in Callers : call[c].now \in Nat
  BY <1>1, CycleAssumption DEF RestOK
<1>3. \A k \in DOMAIN cycles :
        cycles[k].status # "COMPLETED" => TellsDeath(cycles[k], price)
  BY <1>1 DEF Solo, PriceTellsDeath, InStatus, TellsDeath, Cycle
<1>4. CASE UNCHANGED vars \/ Tick \/ \E u \in Users : RegisterUser(u)
  BY <1>4, SoloStays DEF vars, Tick, RegisterUser
<1>5. ASSUME NEW c \in Callers, Reconcile(c) \/ Fail(c) PROVE Solo'
  BY <1>5, SoloStays DEF Reconcile, Fail
<1>6. ASSUME NEW c \in Callers, FreezeExpiredActiveCycle(c) PROVE Solo'
  <2>1. CASE UNCHANGED cycles
    BY <1>6, <2>1, SoloStays DEF FreezeExpiredActiveCycle
  <2>2. ASSUME NEW k \in Freezable(call[c].now),
               cycles' = [cycles EXCEPT ![k].status = "SETTLING"]
        PROVE  Solo'
    <3> DEFINE z == [cycles[k] EXCEPT !.status = "SETTLING"]
    <3>1. k \in DOMAIN cycles /\ cycles[k].status = "ACTIVE"
      BY DEF Freezable, InStatus
    <3>2. /\ z \in Cycle /\ z.start = cycles[k].start /\ z.end = cycles[k].end
          /\ z.schedule = cycles[k].schedule
      BY <1>1, <3>1 DEF Cycle
    <3>3. Replaced(k, z)
      BY <2>2 DEF Replaced
    <3> HIDE DEF z
    <3>4. TellsDeath(z, price')
      BY <1>3, <1>6, <3>1, <3>2 DEF TellsDeath, FreezeExpiredActiveCycle
    <3> QED
      BY <1>1, <3>1, <3>2, <3>3, <3>4, SoloReplaced
  <2> QED
    BY <1>6, <2>1, <2>2 DEF FreezeExpiredActiveCycle
<1>7. ASSUME NEW c \in Callers, SettleSettlingCycle(c) PROVE Solo'
  <2>1. CASE UNCHANGED <<cycles, price>>
    BY <2>1, SoloStays
  <2>2. ASSUME NEW k \in InStatus("SETTLING"), NEW rows \in ScheduleChoices(cycles[k]),
               cycles' = [cycles EXCEPT ![k] = Settled(@, rows)]
        PROVE  Solo'
    <3> DEFINE z == Settled(cycles[k], rows)
    <3>1. k \in DOMAIN cycles /\ cycles[k].status = "SETTLING"
      BY DEF InStatus
    <3>2. z \in Cycle /\ z.status = "COMPLETED"
      BY <1>1, <3>1, SettledOK DEF CycleOK
    <3>3. z.start = cycles[k].start /\ z.end = cycles[k].end
      BY <1>1, <3>1 DEF Settled, Cycle
    <3>4. Replaced(k, z)
      BY <2>2 DEF Replaced
    <3> HIDE DEF z
    <3> QED
      BY <1>1, <3>1, <3>2, <3>3, <3>4, SoloReplaced
  <2> QED
    BY <1>7, <2>1, <2>2 DEF SettleSettlingCycle, Settleable
<1>8. ASSUME NEW c \in Callers, CreateActiveCycle(c) PROVE Solo'
  <2>1. InStatus("ACTIVE") = {} /\ price' = Baseline
    BY <1>8 DEF CreateActiveCycle, RestoredPrices
  <2>2. PICK start \in StartTimes(call[c].now) :
               \E rows \in Schedules(start, start + Duration) :
                 cycles' = Append(cycles, NewCycle(start, rows))
    BY <1>8 DEF CreateActiveCycle
  <2>3. start \in Nat
    BY <1>1, <1>2, StartTimesOK
  <2>4. PICK rows \in Schedules(start, start + Duration) :
               Appended(NewCycle(start, rows))
    BY <2>2 DEF Appended
  <2>5. Len(cycles') > Len(cycles)
    BY <1>1, <2>4, LenProperties, AppendProperties DEF Appended
  <2>6. InStatus("SETTLING") = {}
    BY <2>5, LenProperties, <1>1 DEF OpensAlone
  <2> QED
    BY <2>1, <2>3, <2>4, <2>6, SoloAppended
<1>9. ASSUME NEW c \in Callers, RecoverActiveCycle(c) PROVE Solo'
  <2> DEFINE now == call[c].now
  <2>1. PICK k \in InStatus("ACTIVE") : \E rows \in ScheduleChoices(cycles[k]) :
               /\ cycles' = [cycles EXCEPT ![k] = Recovered(@, rows, now)]
               /\ price' = IF cycles[k].end > now
                           THEN Collapsed(rows, now, price) ELSE price
    BY <1>9 DEF RecoverActiveCycle
  <2>2. PICK rows \in ScheduleChoices(cycles[k]) :
               /\ cycles' = [cycles EXCEPT ![k] = Recovered(@, rows, now)]
               /\ price' = IF cycles[k].end > now
                           THEN Collapsed(rows, now, price) ELSE price
    BY <2>1
  <2>3. k \in DOMAIN cycles /\ cycles[k].status = "ACTIVE" /\ now \in Nat
    BY <1>2 DEF InStatus
  <2> HIDE DEF now
  <2> DEFINE z == Recovered(cycles[k], rows, now)
  <2>4. z \in Cycle
    BY <1>1, <2>3, RecoveredOK DEF CycleOK
  <2>5. z.start = cycles[k].start /\ z.end = cycles[k].end
    BY <1>1, <2>3 DEF Recovered, Cycle
  <2>6. TellsDeath(z, price')
    BY <1>1, <1>2, <1>3, <2>2, <2>3, RecoveredTellsDeath
  <2>7. Replaced(k, z)
    BY <2>2 DEF Replaced
  <2> HIDE DEF z
  <2> QED
    BY <1>1, <2>3, <2>4, <2>5, <2>6, <2>7, SoloReplaced
<1> QED
  BY <1>4, <1>5, <1>6, <1>7, <1>8, <1>9 DEF Next, CycleStep, EnsureActiveCycle

(* The history a database begins with is a chain of at most one cycle.     *)
LEMMA SoloInit == Init => Solo
<1> SUFFICES ASSUME Init PROVE Solo
  OBVIOUS
<1>1. \A k \in DOMAIN cycles : k = 1 /\ cycles[k] = LegacyCycle
  <2>1. CASE cycles = <<>>
    BY <2>1, EmptySeq
  <2>2. CASE cycles = <<LegacyCycle>>
    BY <2>2
  <2> QED
    BY <2>1, <2>2 DEF Init
<1>2. \A c \in Coins : price[c] # 0 /\ LegacyCycle.schedule[c].done = None
  BY CycleAssumption DEF Init, LegacyCycle, Unscheduled, NoRow
<1> QED
  BY <1>1, <1>2 DEF Solo, Chained, NoOverlap, PriceTellsDeath, InStatus

-----------------------------------------------------------------------------
(* The refinement: each transaction is a step of RoundLifecycle, or none.  *)

RoundOf(y) == [start |-> y.start, end |-> y.end, status |-> y.status,
               standings |-> y.results]

RoundsOf(table) == [k \in DOMAIN table |-> RoundOf(table[k])]

Rounds == RoundsOf(cycles)

Round == [start : Nat, end : Nat, status : {"ACTIVE", "SETTLING", "COMPLETED"},
          standings : [Users -> Result]]

(* The rounds are as many as the cycles, each the image of its own.        *)
LEMMA RoundsOfCycles ==
  ASSUME NEW table \in Seq(Cycle)
  PROVE  /\ RoundsOf(table) \in Seq(Round) /\ Len(RoundsOf(table)) = Len(table)
         /\ DOMAIN RoundsOf(table) = DOMAIN table
         /\ \A k \in DOMAIN table : RoundsOf(table)[k] = RoundOf(table[k])
<1>1. Len(table) \in Nat /\ DOMAIN table = 1 .. Len(table)
      /\ \A k \in DOMAIN table : table[k] \in Cycle
  BY LenProperties, ElementOfSeq
<1>2. \A k \in DOMAIN table : RoundOf(table[k]) \in Round
  BY <1>1 DEF RoundOf, Round, Cycle
<1> HIDE DEF Round
<1>3. RoundsOf(table) \in [1 .. Len(table) -> Round]
  BY <1>1, <1>2 DEF RoundsOf
<1>4. RoundsOf(table) \in Seq(Round)
  BY <1>1, <1>3, SeqDef
<1> QED
  BY <1>1, <1>3, <1>4, LenProperties DEF RoundsOf

(* The results of a settled cycle are final standings.                     *)
LEMMA ResultsAreStandings ==
  ASSUME NEW y, CycleOK(y), WholeOK(y), y.status = "COMPLETED",
         FairRanks(y.participants, y.results)
  PROVE  Lifecycle!IsStandings(y.results)
<1> DEFINE who == Joined(y.participants)
           ranked == { p \in Users : y.results[p] # Lifecycle!Unranked }
<1>1. y.results \in [Users -> Result]
  BY DEF CycleOK, Cycle
<1>2. ranked = who
  <2>1. Lifecycle!Unranked = NoResult
    BY DEF Lifecycle!Unranked, NoResult
  <2>2. \A u \in Users : (y.results[u] # NoResult) <=> (u \in who)
    BY DEF WholeOK
  <2>3. who \subseteq Users
    BY JoinedFinite
  <2> HIDE DEF who
  <2> QED
    BY <2>1, <2>2, <2>3
<1>3. y.results \in [Users -> Lifecycle!Standing]
  BY <1>1 DEF Result, Lifecycle!Standing
<1>4. \A p \in who : y.results[p].rank \in 1 .. Cardinality(who)
  BY DEF FairRanks
<1>5. /\ \A p, q \in who : y.results[p].rank = y.results[q].rank => p = q
      /\ \A p, q \in who : y.results[p].rank < y.results[q].rank
                              => y.results[p].cash >= y.results[q].cash
  BY DEF FairRanks
<1> HIDE DEF ranked, who
<1>6. /\ y.results \in [Users -> Lifecycle!Standing]
      /\ \A p \in ranked : y.results[p].rank \in 1 .. Cardinality(ranked)
      /\ \A p, q \in ranked : y.results[p].rank = y.results[q].rank => p = q
      /\ \A p, q \in ranked : y.results[p].rank < y.results[q].rank
                                 => y.results[p].cash >= y.results[q].cash
  BY <1>2, <1>3, <1>4, <1>5
<1>7. Lifecycle!Cardinality(ranked) = Cardinality(ranked)
  BY DEF Lifecycle!Cardinality, Cardinality, Lifecycle!IsFiniteSet, IsFiniteSet
<1> QED
  BY <1>6, <1>7 DEF Lifecycle!IsStandings, ranked

(* A table of rounds of which one is replaced.                             *)
LEMMA RoundReplaced ==
  ASSUME cycles \in Seq(Cycle), NEW k \in DOMAIN cycles, NEW z \in Cycle,
         Replaced(k, z)
  PROVE  Rounds' = [Rounds EXCEPT ![k] = RoundOf(z)] /\ Len(Rounds') = Len(Rounds)
<1>1. /\ cycles' \in Seq(Cycle)
      /\ DOMAIN cycles' = DOMAIN cycles
      /\ \A j \in DOMAIN cycles : cycles'[j] = IF j = k THEN z ELSE cycles[j]
  BY ReplacedTable
<1>2. Len(cycles') = Len(cycles)
  BY <1>1, LenProperties
<1>3. Len(Rounds') = Len(cycles') /\ Len(Rounds) = Len(cycles)
  BY <1>1, RoundsOfCycles DEF Rounds
<1> QED
  BY <1>1, <1>2, <1>3 DEF Rounds, RoundsOf

(* A freeze closes a round.                                                *)
LEMMA FreezeCloses ==
  ASSUME cycles \in Seq(Cycle), NEW k \in DOMAIN cycles,
         cycles[k].status = "ACTIVE",
         Replaced(k, [cycles[k] EXCEPT !.status = "SETTLING"])
  PROVE  Lifecycle!Close
<1> DEFINE z == [cycles[k] EXCEPT !.status = "SETTLING"]
<1>1. cycles[k] \in Cycle
  BY LenProperties, ElementOfSeq
<1>2. /\ z \in Cycle
      /\ z.start = cycles[k].start /\ z.end = cycles[k].end
      /\ z.status = "SETTLING" /\ z.results = cycles[k].results
  BY <1>1 DEF Cycle
<1> HIDE DEF z
<1>3. Rounds' = [Rounds EXCEPT ![k] = RoundOf(z)]
  BY <1>2, RoundReplaced DEF z
<1>4. k \in DOMAIN Rounds /\ Rounds[k] = RoundOf(cycles[k])
  BY DEF Rounds, RoundsOf
<1>5. Rounds' = [Rounds EXCEPT ![k].status = "SETTLING"]
  <2>1. RoundOf(z) = [Rounds[k] EXCEPT !.status = "SETTLING"]
    BY <1>2, <1>4 DEF RoundOf
  <2> QED
    BY <1>3, <2>1
<1>6. Rounds[k].status = "ACTIVE"
  BY <1>4 DEF RoundOf
<1> QED
  BY <1>4, <1>5, <1>6 DEF Lifecycle!Close, Rounds, RoundsOf, RoundOf

(* A settlement publishes its standings.                                   *)
LEMMA SettlementPublishes ==
  ASSUME cycles \in Seq(Cycle), NEW k \in DOMAIN cycles,
         cycles[k].status = "SETTLING", NEW z, Replaced(k, z),
         CycleOK(z), WholeOK(z), z.status = "COMPLETED",
         FairRanks(z.participants, z.results),
         z.start = cycles[k].start, z.end = cycles[k].end
  PROVE  Lifecycle!Publish
<1>1. z \in Cycle
  BY DEF CycleOK
<1>2. Rounds' = [Rounds EXCEPT ![k] = RoundOf(z)] /\ Len(Rounds') = Len(Rounds)
  BY <1>1, RoundReplaced
<1>3. k \in DOMAIN Rounds /\ Rounds[k] = RoundOf(cycles[k])
  BY DEF Rounds, RoundsOf
<1>4. Rounds'[k] = RoundOf(z)
  BY <1>2, <1>3
<1>5. RoundOf(z) = [Rounds[k] EXCEPT !.status = "COMPLETED",
                                     !.standings = z.results]
  <2> DEFINE published == [Rounds[k] EXCEPT !.status = "COMPLETED",
                                            !.standings = z.results]
  <2>1. Rounds[k] \in Round /\ RoundOf(z) \in Round /\ z.results \in [Users -> Result]
    <3>1. cycles[k] \in Cycle
      BY LenProperties, ElementOfSeq
    <3> QED
      BY <1>1, <1>3, <3>1 DEF Round, RoundOf, Cycle
  <2>2. /\ published.start = z.start /\ published.end = z.end
        /\ published.status = "COMPLETED" /\ published.standings = z.results
    BY <1>3, <2>1 DEF Round, RoundOf
  <2>3. published \in Round
    BY <2>1 DEF Round
  <2>4. /\ RoundOf(z).start = z.start /\ RoundOf(z).end = z.end
        /\ RoundOf(z).status = "COMPLETED" /\ RoundOf(z).standings = z.results
    BY DEF RoundOf
  <2> HIDE DEF published
  <2> QED
    <3>1. RoundOf(z) = published
      BY <2>1, <2>2, <2>3, <2>4 DEF Round
    <3> QED
      BY <3>1 DEF published
<1>6. Rounds[k].status = "SETTLING" /\ Rounds'[k].standings = z.results
  BY <1>3, <1>4 DEF RoundOf
<1>7. Rounds' = [Rounds EXCEPT ![k].status = "COMPLETED",
                               ![k].standings = Rounds'[k].standings]
  BY <1>2, <1>3, <1>5, <1>6
<1>8. Lifecycle!IsStandings(Rounds'[k].standings)
  BY <1>6, ResultsAreStandings
<1> QED
  BY <1>2, <1>3, <1>6, <1>7, <1>8 DEF Lifecycle!Publish, Rounds, RoundsOf, RoundOf

(* A successor is a fresh round after all the others.                      *)
LEMMA CreationAppends ==
  ASSUME cycles \in Seq(Cycle), NEW start \in Nat,
         NEW rows \in Schedules(start, start + Duration),
         NewCycle(start, rows) \in Cycle, Appended(NewCycle(start, rows))
  PROVE  /\ Len(Rounds) = Len(cycles)
         /\ Len(Rounds') = Len(Rounds) + 1
         /\ Rounds' = Append(Rounds, Rounds'[Len(Rounds) + 1])
         /\ Lifecycle!IsFresh(Rounds'[Len(Rounds) + 1])
         /\ Rounds'[Len(Rounds) + 1].start = start
<1> DEFINE z == NewCycle(start, rows)
           n == Len(cycles)
<1>1. z.start = start /\ z.end = start + Duration /\ z.status = "ACTIVE"
      /\ z.results = Lifecycle!Nobody
  BY DEF NewCycle, NoResult, Lifecycle!Nobody, Lifecycle!Unranked
<1>2. start < start + Duration
  BY CycleAssumption
<1> HIDE DEF z
<1>3. n \in Nat /\ DOMAIN cycles = 1 .. n
  BY LenProperties
<1>4. /\ cycles' \in Seq(Cycle)
      /\ DOMAIN cycles' = DOMAIN cycles \cup {n + 1}
      /\ cycles'[n + 1] = z
      /\ \A j \in DOMAIN cycles : cycles'[j] = cycles[j]
  BY AppendedTable DEF z
<1>5. Len(cycles') = n + 1
  BY <1>3, AppendProperties DEF Appended, z
<1>6. Rounds \in Seq(Round) /\ Len(Rounds) = n /\ DOMAIN Rounds = 1 .. n
      /\ \A j \in 1 .. n : Rounds[j] = RoundOf(cycles[j])
  BY <1>3, RoundsOfCycles DEF Rounds
<1>7. Rounds' \in Seq(Round) /\ Len(Rounds') = n + 1 /\ DOMAIN Rounds' = 1 .. n + 1
      /\ \A j \in 1 .. n + 1 : Rounds'[j] = RoundOf(cycles'[j])
  <2>1. DOMAIN cycles' = 1 .. n + 1
    BY <1>3, <1>4
  <2>2. /\ Rounds' \in Seq(Round) /\ Len(Rounds') = Len(cycles')
        /\ DOMAIN Rounds' = DOMAIN cycles'
        /\ \A k \in DOMAIN cycles' : Rounds'[k] = RoundOf(cycles'[k])
    BY <1>4, RoundsOfCycles DEF Rounds
  <2> QED
    BY <1>5, <2>1, <2>2
<1>8. Rounds'[n + 1] = RoundOf(z) /\ RoundOf(z) \in Round
  <2>1. n + 1 \in 1 .. Len(Rounds')
    BY <1>3, <1>7
  <2>2. Rounds'[n + 1] \in Round
    BY <1>7, <2>1, ElementOfSeq
  <2> QED
    BY <1>3, <1>4, <1>7, <2>2
<1> HIDE DEF n, Round
<1>9. Rounds' = Append(Rounds, Rounds'[n + 1])
  <2> DEFINE s == Append(Rounds, RoundOf(z))
  <2>1. /\ s \in Seq(Round) /\ Len(s) = n + 1
        /\ s[n + 1] = RoundOf(z)
        /\ \A j \in 1 .. n : s[j] = Rounds[j]
    BY <1>3, <1>6, <1>8, AppendProperties
  <2> HIDE DEF s
  <2>2. \A j \in 1 .. n : j \in DOMAIN cycles /\ j \in 1 .. n + 1
    BY <1>3
  <2>3. \A j \in 1 .. n : Rounds'[j] = s[j]
    BY <1>4, <1>6, <1>7, <2>1, <2>2
  <2>4. ASSUME NEW j \in 1 .. Len(s) PROVE Rounds'[j] = s[j]
    <3>1. j \in 1 .. n \/ j = n + 1
      BY <1>3, <2>1
    <3>2. Rounds'[n + 1] = s[n + 1]
      BY <1>8, <2>1
    <3> QED
      BY <2>3, <3>1, <3>2
  <2>5. Rounds' = s
    BY <1>7, <2>1, <2>4, SeqEqual
  <2> QED
    BY <1>8, <2>5 DEF s
<1>10. Lifecycle!IsFresh(Rounds'[n + 1])
  BY <1>1, <1>2, <1>8 DEF Lifecycle!IsFresh, RoundOf
<1>11. Rounds'[n + 1].start = start
  BY <1>1, <1>8 DEF RoundOf
<1> QED
  BY <1>6, <1>7, <1>9, <1>10, <1>11 DEF n

(* With the rounds chained it opens the next round ...                     *)
LEMMA CreationOpens ==
  ASSUME cycles \in Seq(Cycle), NEW start \in Nat,
         NEW rows \in Schedules(start, start + Duration),
         NewCycle(start, rows) \in Cycle, Appended(NewCycle(start, rows)),
         Chained'
  PROVE  Lifecycle!Open
<1> DEFINE n == Len(cycles)
<1>1. n \in Nat /\ DOMAIN cycles = 1 .. n
  BY LenProperties
<1>2. NewCycle(start, rows).start = start
  BY DEF NewCycle
<1>3. /\ DOMAIN cycles' = DOMAIN cycles \cup {n + 1}
      /\ cycles'[n + 1] = NewCycle(start, rows)
      /\ \A j \in DOMAIN cycles : cycles'[j] = cycles[j]
  BY AppendedTable
<1>4. /\ Len(Rounds) = n
      /\ Len(Rounds') = n + 1
      /\ Rounds' = Append(Rounds, Rounds'[n + 1])
      /\ Lifecycle!IsFresh(Rounds'[n + 1])
      /\ Rounds'[n + 1].start = start
  BY CreationAppends
<1> HIDE DEF n
<1>5. ASSUME n > 0
      PROVE  /\ Rounds[n].status = "COMPLETED"
             /\ Rounds'[n + 1].start = Rounds[n].end
  <2>1. n \in DOMAIN cycles /\ n + 1 > 1 /\ (n + 1) - 1 = n
    BY <1>1, <1>5
  <2>2. cycles'[n + 1].start = cycles'[n].end /\ cycles'[n].status = "COMPLETED"
    BY <1>3, <2>1 DEF Chained
  <2>3. Rounds[n] = RoundOf(cycles[n])
    BY <2>1 DEF Rounds, RoundsOf
  <2> QED
    BY <1>2, <1>3, <1>4, <2>1, <2>2, <2>3 DEF RoundOf
<1>6. /\ Len(Rounds') = Len(Rounds) + 1
      /\ Rounds' = Append(Rounds, Rounds'[Len(Rounds) + 1])
      /\ Lifecycle!IsFresh(Rounds'[Len(Rounds) + 1])
      /\ Len(Rounds) > 0 => /\ Rounds[Len(Rounds)].status = "COMPLETED"
                            /\ Rounds'[Len(Rounds) + 1].start = Rounds[Len(Rounds)].end
  BY <1>4, <1>5
<1> QED
  BY <1>6 DEF Lifecycle!Open, Rounds, RoundsOf, RoundOf

(* ... and in any case it opens one, in a hurry perhaps.                   *)
LEMMA CreationHurries ==
  ASSUME cycles \in Seq(Cycle), NEW start \in Nat,
         NEW rows \in Schedules(start, start + Duration),
         NewCycle(start, rows) \in Cycle, Appended(NewCycle(start, rows)),
         InStatus("ACTIVE") = {}, FollowsOn(start)
  PROVE  Lifecycle!OpenHurriedly
<1> DEFINE over == { k \in DOMAIN Rounds : Rounds[k].status = "COMPLETED" }
<1>1. DOMAIN Rounds = DOMAIN cycles
      /\ \A k \in DOMAIN cycles : Rounds[k] = RoundOf(cycles[k])
  BY DEF Rounds, RoundsOf
<1>2. over = InStatus("COMPLETED")
      /\ \A k \in DOMAIN Rounds : Rounds[k].status # "ACTIVE"
  BY <1>1 DEF InStatus, RoundOf
<1>3. /\ Len(Rounds') = Len(Rounds) + 1
      /\ Rounds' = Append(Rounds, Rounds'[Len(Rounds) + 1])
      /\ Lifecycle!IsFresh(Rounds'[Len(Rounds) + 1])
      /\ Rounds'[Len(Rounds) + 1].start = start
  BY CreationAppends
<1>4. \A k \in over : k \in DOMAIN cycles /\ Rounds[k].end = cycles[k].end
  BY <1>1 DEF RoundOf
<1> HIDE DEF over
<1>5. over # {} =>
        \E k \in over : /\ Rounds'[Len(Rounds) + 1].start = Rounds[k].end
                        /\ \A j \in over : Rounds[j].end <= Rounds[k].end
  BY <1>2, <1>3, <1>4 DEF FollowsOn
<1> QED
  BY <1>2, <1>3, <1>5
     DEF Lifecycle!OpenHurriedly, Rounds, RoundsOf, RoundOf, over

(* So every step of the cycles is one of the rounds or leaves them alone.  *)
LEMMA RefineSteps ==
  ASSUME LawfulInvariant, [Next]_vars
  PROVE  /\ Chained' => [Lifecycle!LifecycleNext]_Rounds
         /\ [\/ Lifecycle!OpenHurriedly
             \/ Lifecycle!CloseInTurn
             \/ Lifecycle!Publish]_Rounds
<1>1. RestOK /\ TableOK /\ cycles \in Seq(Cycle) /\ AllOK /\ users \subseteq Users
  BY InvariantParts DEF LawfulInvariant, TableOK, AllOK, RestOK
<1>2. \A k \in DOMAIN cycles : /\ cycles[k] \in Cycle
                               /\ CycleOK(cycles[k]) /\ WholeOK(cycles[k])
                               /\ Law(cycles[k], clock)
  BY <1>1 DEF LawfulInvariant, Lawful, AllOK, CycleOK
<1>3. CASE cycles' = cycles
  BY <1>3 DEF Rounds
<1>4. ASSUME NEW k \in InStatus("ACTIVE"), InStatus("SETTLING") = {},
             Replaced(k, [cycles[k] EXCEPT !.status = "SETTLING"])
      PROVE  Lifecycle!Close /\ Lifecycle!CloseInTurn
  <2>1. Lifecycle!Close
    BY <1>1, <1>4, FreezeCloses DEF InStatus
  <2>2. \A j \in DOMAIN Rounds : Rounds[j].status # "SETTLING"
    BY <1>4 DEF InStatus, Rounds, RoundsOf, RoundOf
  <2> QED
    BY <2>1, <2>2 DEF Lifecycle!CloseInTurn, Rounds, RoundsOf, RoundOf
<1>5. ASSUME NEW k \in InStatus("SETTLING"), NEW rows \in ScheduleChoices(cycles[k]),
             Replaced(k, Settled(cycles[k], rows))
      PROVE  Lifecycle!Publish
  <2> DEFINE z == Settled(cycles[k], rows)
  <2>1. k \in DOMAIN cycles /\ cycles[k].status = "SETTLING"
    BY DEF InStatus
  <2>2. CycleOK(z) /\ WholeOK(z) /\ z.status = "COMPLETED" /\ Law(z, clock)
    BY <1>2, <2>1, SettledOK, SettledLaw
  <2>3. z.start = cycles[k].start /\ z.end = cycles[k].end
    BY <1>2, <2>1 DEF Settled, Cycle
  <2>4. Replaced(k, z)
    BY <1>5
  <2> HIDE DEF z
  <2> QED
    BY <1>1, <2>1, <2>2, <2>3, <2>4, SettlementPublishes DEF Law
<1>6. ASSUME NEW start \in Nat, NEW rows \in Schedules(start, start + Duration),
             FollowsOn(start), InStatus("ACTIVE") = {},
             Appended(NewCycle(start, rows))
      PROVE  (Chained' => Lifecycle!Open) /\ Lifecycle!OpenHurriedly
  <2>1. NewCycle(start, rows) \in Cycle
    BY <1>1, NewCycleOK DEF CycleOK
  <2> QED
    BY <1>1, <1>6, <2>1, CreationOpens, CreationHurries
<1>7. ASSUME NEW k \in InStatus("ACTIVE"), NEW now \in Nat,
             NEW rows \in ScheduleChoices(cycles[k]),
             Replaced(k, Recovered(cycles[k], rows, now))
      PROVE  Rounds' = Rounds
  <2> DEFINE z == Recovered(cycles[k], rows, now)
  <2>1. k \in DOMAIN cycles /\ cycles[k].status = "ACTIVE"
    BY DEF InStatus
  <2>2. z \in Cycle
    BY <1>1, <1>2, <2>1, RecoveredOK DEF CycleOK
  <2>3. /\ z.start = cycles[k].start /\ z.end = cycles[k].end
        /\ z.status = cycles[k].status /\ z.results = cycles[k].results
    BY <1>2, <2>1 DEF Recovered, Cycle
  <2>4. Replaced(k, z)
    BY <1>7
  <2> HIDE DEF z
  <2>5. RoundOf(z) = Rounds[k] /\ Rounds \in Seq(Round)
    BY <1>1, <2>1, <2>3, RoundsOfCycles DEF Rounds, RoundOf
  <2>6. Rounds' = [Rounds EXCEPT ![k] = Rounds[k]]
    BY <1>1, <2>1, <2>2, <2>4, <2>5, RoundReplaced
  <2> HIDE DEF Round
  <2> QED
    BY <2>5, <2>6, LenProperties
<1>8. \A c \in Callers : call[c].now \in Nat
  BY <1>1 DEF RestOK
<1> QED
  BY <1>1, <1>3, <1>4, <1>5, <1>6, <1>7, <1>8, CycleSteps DEF Lifecycle!LifecycleNext

(* A database begins with a history the lifecycle may begin with.          *)
LEMMA RefineInit == Init => Lifecycle!LifecycleInit
<1> SUFFICES ASSUME Init PROVE Lifecycle!LifecycleInit
  OBVIOUS
<1>1. cycles \in Seq(Cycle) /\ Len(cycles) <= 1
  <2>1. cycles \in Seq(Cycle)
    BY InvariantInit, InvariantParts
  <2>2. CASE cycles = <<>>
    BY <2>1, <2>2, EmptySeq
  <2>3. CASE cycles = <<LegacyCycle>>
    BY <2>1, <2>3
  <2> QED
    BY <2>1, <2>2, <2>3 DEF Init
<1>2. Len(Rounds) <= 1 /\ DOMAIN Rounds = DOMAIN cycles
      /\ \A k \in DOMAIN cycles : Rounds[k] = RoundOf(cycles[k])
  BY <1>1, RoundsOfCycles DEF Rounds
<1>3. \A k \in DOMAIN cycles : cycles[k] = LegacyCycle
  <2>1. CASE cycles = <<>>
    BY <2>1, EmptySeq
  <2>2. CASE cycles = <<LegacyCycle>>
    BY <2>2
  <2> QED
    BY <2>1, <2>2 DEF Init
<1>4. Lifecycle!IsFresh(RoundOf(LegacyCycle))
  BY CycleAssumption DEF LegacyCycle, RoundOf, NoResult, Lifecycle!IsFresh,
                         Lifecycle!Nobody, Lifecycle!Unranked
<1>5. Len(Rounds) <= 1 /\ \A k \in DOMAIN Rounds : Lifecycle!IsFresh(Rounds[k])
  BY <1>2, <1>3, <1>4
<1> QED
  BY <1>5 DEF Lifecycle!LifecycleInit, Rounds, RoundsOf, RoundOf

(* As long as no call opens a cycle beside one still to be settled (the    *)
(* race of CreateActiveCycle with another caller's freeze), cycles follow  *)
(* one another without a gap and prices tell exactly the deaths of the     *)
(* cycle that lives, however many callers reconcile, overlap and fail.     *)
THEOREM OneAfterTheOther ==
  Spec /\ [][OpensAlone]_cycles => [](Chained /\ NoOverlap /\ PriceTellsDeath)
<1>1. Invariant /\ Solo /\ [Next]_vars /\ [OpensAlone]_cycles => Solo'
  BY SoloStep
<1>2. Solo => Chained /\ NoOverlap /\ PriceTellsDeath
  BY DEF Solo
<1> QED
  BY <1>1, <1>2, SoloInit, InvariantHolds, PTL DEF Spec

(* Then the lifecycle keeps its whole promise to the players               *)
(* (RoundLifecycle): rounds over adjoining windows, each closed once, its  *)
(* standings published once, everybody ranked 1 .. N by cash.              *)
THEOREM LifecycleIsImplemented ==
  Spec /\ [][OpensAlone]_cycles => ImplementsLifecycle
<1>1. LawfulInvariant /\ Chained' /\ [Next]_vars => [Lifecycle!LifecycleNext]_Rounds
  BY RefineSteps
<1>2. Spec /\ [][OpensAlone]_cycles => []Chained
  BY OneAfterTheOther, PTL
<1> QED
  BY <1>1, <1>2, LawHolds, RefineInit, PTL
     DEF Spec, ImplementsLifecycle, Lifecycle!LifecycleSpec, Rounds, RoundsOf, RoundOf

(* And whatever calls overlap, any number of them, failing anywhere, it    *)
(* keeps the promise in a hurry: rounds open one at a time, each where the *)
(* latest published one ended, close one at a time, and are each published *)
(* once, with everybody ranked 1 .. N by cash.                             *)
THEOREM LifecycleInAHurry == Spec => ImplementsHurried
<1>1. LawfulInvariant /\ [Next]_vars
        => [\/ Lifecycle!OpenHurriedly
            \/ Lifecycle!CloseInTurn
            \/ Lifecycle!Publish]_Rounds
  BY RefineSteps
<1> QED
  BY <1>1, LawHolds, RefineInit, PTL
     DEF Spec, ImplementsHurried, Lifecycle!HurriedSpec, Rounds, RoundsOf, RoundOf

-----------------------------------------------------------------------------
(* The deadlock.                                                           *)

(* Out of Stalled no transaction of any caller leads.                      *)
LEMMA StalledStep ==
  ASSUME Invariant, Stalled, [Next]_vars
  PROVE  Stalled'
<1>1. /\ RestOK /\ TableOK /\ cycles \in Seq(Cycle) /\ users \subseteq Users
      /\ \A j \in DOMAIN cycles : /\ CycleOK(cycles[j]) /\ cycles[j] \in Cycle
                                  /\ WholeOK(cycles[j])
  BY InvariantParts DEF AllOK, CycleOK, RestOK, TableOK
<1>2. price \in [Coins -> Nat] /\ \A c \in Callers : call[c].now \in Nat
  BY <1>1, CycleAssumption DEF RestOK
<1>3. PICK s \in InStatus("SETTLING") : cycles[s].schedule = Unscheduled
  BY DEF Stalled
<1>4. PICK d \in Catalogue : price[d] = 0
  BY DEF Stalled
<1>5. s \in DOMAIN cycles /\ cycles[s].status = "SETTLING" /\ d \in Coins
  BY CoinsAssumption DEF InStatus, Catalogue
<1>6. ASSUME UNCHANGED <<cycles, price>> PROVE Stalled'
  <2>1. cycles' = cycles /\ price' = price
    BY <1>6
  <2> QED
    BY <2>1 DEF Stalled, InStatus
<1>7. ASSUME NEW c \in Callers, FreezeExpiredActiveCycle(c) PROVE Stalled'
  <2>1. Freezable(call[c].now) = {}
    BY <1>3 DEF Freezable
  <2> QED
    BY <1>6, <1>7, <2>1 DEF FreezeExpiredActiveCycle
<1>8. ASSUME NEW c \in Callers, SettleSettlingCycle(c) PROVE Stalled'
  <2>1. ASSUME NEW k \in InStatus("SETTLING"), NEW rows \in ScheduleChoices(cycles[k])
        PROVE  FALSE
    <3>1. k = s
      BY <1>5 DEF InStatus, Invariant, SingleLiveCycle
    <3>2. \A e \in Coins : cycles[k].schedule[e] = NoRow
      BY <1>3, <3>1 DEF Unscheduled
    <3> QED
      BY <1>4, <3>2 DEF ScheduleChoices
  <2> QED
    BY <1>6, <1>8, <2>1 DEF SettleSettlingCycle, Settleable
<1>9. ASSUME NEW c \in Callers, EnsureActiveCycle(c) PROVE Stalled'
  <2>1. RecoverActiveCycle(c)
    BY <1>9 DEF EnsureActiveCycle, CreateActiveCycle, Stalled
  <2> DEFINE now == call[c].now
  <2>2. PICK k \in InStatus("ACTIVE") : \E rows \in ScheduleChoices(cycles[k]) :
               /\ cycles' = [cycles EXCEPT ![k] = Recovered(@, rows, now)]
               /\ price' = IF cycles[k].end > now
                           THEN Collapsed(rows, now, price) ELSE price
    BY <2>1 DEF RecoverActiveCycle
  <2>3. PICK rows \in ScheduleChoices(cycles[k]) :
               /\ cycles' = [cycles EXCEPT ![k] = Recovered(@, rows, now)]
               /\ price' = IF cycles[k].end > now
                           THEN Collapsed(rows, now, price) ELSE price
    BY <2>2
  <2>4. k \in DOMAIN cycles /\ cycles[k].status = "ACTIVE" /\ now \in Nat
    BY <1>2 DEF InStatus
  <2> HIDE DEF now
  <2> DEFINE z == Recovered(cycles[k], rows, now)
  <2>5. z \in Cycle
    BY <1>1, <2>4, RecoveredOK DEF CycleOK
  <2>6. z.status = "ACTIVE"
    BY <1>1, <2>4 DEF Recovered, Cycle
  <2>7. Replaced(k, z)
    BY <2>3 DEF Replaced
  <2>8. price'[d] = 0
    BY <1>2, <1>4, <1>5, <2>3 DEF Collapsed
  <2> HIDE DEF z
  <2>9. /\ DOMAIN cycles' = DOMAIN cycles
        /\ \A j \in DOMAIN cycles : cycles'[j] = IF j = k THEN z ELSE cycles[j]
    BY <1>1, <2>4, <2>5, <2>7, ReplacedTable
  <2>10. s # k /\ cycles'[s] = cycles[s] /\ cycles'[k] = z
    BY <1>5, <2>4, <2>9
  <2>11. k \in InStatus("ACTIVE")' /\ s \in InStatus("SETTLING")'
    BY <1>5, <2>4, <2>6, <2>9, <2>10 DEF InStatus
  <2> QED
    BY <1>3, <1>4, <2>8, <2>10, <2>11 DEF Stalled
<1> QED
  BY <1>6, <1>7, <1>8, <1>9
     DEF Next, CycleStep, vars, Tick, RegisterUser, Reconcile, Fail

(* Once three calls have raced into it, the lifecycle is stuck for ever:   *)
(* the SETTLING cycle never gets a schedule (gameSettlementService.js:134),*)
(* so it is never settled, and its successor never frozen.                 *)
THEOREM StallIsForever == Spec => [][Stalled => Stalled']_vars
<1>1. Invariant /\ [Next]_vars => [Stalled => Stalled']_vars
  BY StalledStep
<1> QED
  BY <1>1, InvariantHolds, PTL DEF Spec

=============================================================================
