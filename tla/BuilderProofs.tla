---------------------------- MODULE BuilderProofs ----------------------------
(***************************************************************************)
(* buildSchedule builds a schedule (ScheduleBuilder), for every catalogue, *)
(* every random source and every cycle window.                             *)
(*                                                                         *)
(* The invariant is that of the two loops: the array being shuffled is at  *)
(* every turn an arrangement of the catalogue, and the times computed so   *)
(* far are those of the first ranks.  How even they are is a fact about    *)
(* rounding: a rounded quotient, multiplied back, is off by at most half   *)
(* of the divisor.                                                         *)
(***************************************************************************)
EXTENDS ScheduleBuilder, FiniteSetTheorems, FunctionTheorems, TLAPS

(* The array deterministicShuffle works on: each coin in one place of it.  *)
Arranged == order \in Bijection(1 .. coinCount, Catalogue) /\ i \in 0 .. coinCount

(* What computeScheduleTimes has pushed.                                   *)
Timed ==
  /\ times \in Seq(Int) /\ Len(times) <= coinCount
  /\ \A r \in 0 .. Len(times) - 1 :
       times[r + 1] = CollapseTime(start, end, coinCount, r)

Window == start \in Nat /\ end \in Nat /\ start < end

BuilderInvariant == Window /\ Arranged /\ Timed

-----------------------------------------------------------------------------
(* The shuffle.                                                            *)

(* The canonical order lists every coin of the catalogue once.             *)
LEMMA CanonicalLists ==
  /\ coinCount \in Nat /\ coinCount = Cardinality(Catalogue)
  /\ Canonical \in Bijection(1 .. coinCount, Catalogue)
<1> DEFINE n == Cardinality(Catalogue)
<1>1. n \in Nat
  BY FS_Subset, FS_CardinalityType, CoinsAssumption DEF Catalogue
<1>2. DOMAIN Canonical = 1 .. n
  BY BuilderAssumption DEF Bijection, Injection
<1>3. Len(Canonical) \in Nat /\ DOMAIN Canonical = 1 .. Len(Canonical)
  BY BuilderAssumption
<1>4. n = Len(Canonical)
  <2> HIDE DEF n
  <2> QED
    BY <1>1, <1>2, <1>3
<1> QED
  BY <1>1, <1>4, BuilderAssumption DEF coinCount

(* Exchanging two places of an arrangement loses and repeats nothing.      *)
LEMMA SwappedArranged ==
  ASSUME NEW n \in Nat, NEW T, NEW s \in Bijection(1 .. n, T),
         NEW a \in 1 .. n, NEW b \in 1 .. n
  PROVE  Swapped(s, a, b) \in Bijection(1 .. n, T)
<1> DEFINE new == Swapped(s, a, b)
           from(p) == IF p = b THEN a ELSE IF p = a THEN b ELSE p
<1>1. /\ s \in [1 .. n -> T]
      /\ \A p, q \in 1 .. n : s[p] = s[q] => p = q
      /\ \A c \in T : \E p \in 1 .. n : s[p] = c
  BY DEF Bijection, Injection, Surjection, IsInjective
<1>2. /\ new \in [1 .. n -> T]
      /\ \A p \in 1 .. n : from(p) \in 1 .. n /\ new[p] = s[from(p)]
  BY <1>1 DEF Swapped
<1>3. \A p, q \in 1 .. n : from(p) = from(q) => p = q
  OBVIOUS
<1>4. \A p \in 1 .. n : from(from(p)) = p
  OBVIOUS
<1> HIDE DEF new, from
<1>5. \A p, q \in 1 .. n : new[p] = new[q] => p = q
  BY <1>1, <1>2, <1>3
<1>6. \A c \in T : \E p \in 1 .. n : new[p] = c
  <2> SUFFICES ASSUME NEW c \in T PROVE \E p \in 1 .. n : new[p] = c
    OBVIOUS
  <2>1. PICK q \in 1 .. n : s[q] = c
    BY <1>1
  <2>2. from(q) \in 1 .. n /\ new[from(q)] = c
    BY <1>2, <1>4, <2>1
  <2> QED
    BY <2>2
<1>7. new \in Bijection(1 .. n, T)
  BY <1>2, <1>5, <1>6, Fun_IsBij
<1> QED
  BY <1>7 DEF new

-----------------------------------------------------------------------------
(* The loops.                                                              *)

(* Both loops begin with the canonical order and no time.                  *)
LEMMA BuilderInit == Init => BuilderInvariant
<1> SUFFICES ASSUME Init PROVE BuilderInvariant
  OBVIOUS
<1>1. PICK d \in Durations : end = start + d
  BY DEF Init
<1>2. Window
  BY <1>1, BuilderAssumption DEF Init, Window
<1>3. Arranged /\ Timed
  BY CanonicalLists DEF Init, Arranged, Timed
<1> QED
  BY <1>2, <1>3 DEF BuilderInvariant

(* A time is a number.                                                     *)
LEMMA TimeIsInt ==
  ASSUME Window, NEW n \in Nat, NEW r \in 0 .. n - 1
  PROVE  /\ WindowStart(start, end) \in Int
         /\ CollapseTime(start, end, n, r) \in Int
<1>1. WindowStart(start, end) \in Int
  BY DEF Window, WindowStart, RoundDiv
<1>2. CASE r = n - 1
  BY <1>1, <1>2 DEF CollapseTime, Window
<1>3. CASE r # n - 1
  <2> DEFINE w == WindowStart(start, end)
             a == w * (n - 1) + (end - w) * r
  <2>1. a \in Int /\ n - 1 \in Int /\ n - 1 > 0
    BY <1>1, <1>3 DEF Window
  <2>2. CollapseTime(start, end, n, r) = RoundDiv(a, n - 1)
    BY <1>3 DEF CollapseTime
  <2> HIDE DEF a
  <2> QED
    BY <1>1, <2>1, <2>2 DEF RoundDiv
<1> QED
  BY <1>1, <1>2, <1>3

(* A turn of either exchanges two coins or pushes the next rank's time.    *)
LEMMA BuilderStep == BuilderInvariant /\ [Next]_vars => BuilderInvariant'
<1> SUFFICES ASSUME BuilderInvariant, [Next]_vars PROVE BuilderInvariant'
  OBVIOUS
<1>0. coinCount \in Nat
  BY CanonicalLists
<1>1. CASE Shuffle
  <2>1. PICK j \in ShuffleRange(i) : order' = Swapped(order, i, j)
    BY <1>1 DEF Shuffle
  <2>2. i \in 1 .. coinCount /\ j \in 1 .. coinCount /\ i - 1 \in 0 .. coinCount
    BY <1>0, <1>1, <2>1 DEF BuilderInvariant, Arranged, Shuffle, ShuffleRange
  <2>3. order' \in Bijection(1 .. coinCount, Catalogue)
    BY <1>0, <2>1, <2>2, SwappedArranged DEF BuilderInvariant, Arranged
  <2> QED
    BY <1>1, <2>2, <2>3 DEF BuilderInvariant, Arranged, Shuffle, Timed, Window
<1>2. CASE PushTime
  <2> DEFINE n == Len(times)
             t == CollapseTime(start, end, coinCount, n)
  <2>1. /\ times \in Seq(Int) /\ n \in 0 .. coinCount - 1
        /\ times' = Append(times, t)
    BY <1>0, <1>2 DEF PushTime, BuilderInvariant, Timed
  <2>2. t \in Int
    BY <1>0, <2>1, TimeIsInt DEF BuilderInvariant
  <2> HIDE DEF t
  <2>3. /\ times' \in Seq(Int) /\ Len(times') = n + 1 /\ times'[n + 1] = t
        /\ \A p \in 1 .. n : times'[p] = times[p]
    BY <2>1, <2>2
  <2>4. UNCHANGED <<start, end, order, i>>
    BY <1>2 DEF PushTime
  <2>5. ASSUME NEW r \in 0 .. Len(times') - 1
        PROVE  times'[r + 1] = CollapseTime(start, end, coinCount, r)
    <3>1. CASE r = n
      BY <2>3, <3>1 DEF t
    <3>2. CASE r # n
      <4>1. r \in 0 .. n - 1 /\ r + 1 \in 1 .. n
        BY <2>1, <2>3, <2>5, <3>2
      <4> QED
        BY <2>3, <4>1 DEF BuilderInvariant, Timed
    <3> QED
      BY <3>1, <3>2
  <2> QED
    BY <1>0, <2>1, <2>3, <2>4, <2>5 DEF BuilderInvariant, Arranged, Timed, Window
<1>3. CASE UNCHANGED vars
  BY <1>3 DEF vars, BuilderInvariant, Arranged, Timed, Window
<1> QED
  BY <1>1, <1>2, <1>3 DEF Next

(* Both loops keep their invariant, whatever the random source yields.     *)
THEOREM BuilderInvariantHolds == Spec => []BuilderInvariant
BY BuilderInit, BuilderStep, PTL DEF Spec

-----------------------------------------------------------------------------
(* What is built.                                                          *)

(* The rows read off a complete arrangement and its times are a schedule.  *)
LEMMA BuiltIsSchedule ==
  ASSUME BuilderInvariant, built
  PROVE  rowsBuilt \in Schedules(start, end)
<1> DEFINE n == coinCount
           at(c) == CHOOSE p \in 1 .. n : order[p] = c
           rankOf == [c \in Catalogue |-> at(c) - 1]
           RowOf(r) == [rank |-> r, at |-> CollapseTime(start, end, n, r),
                        done |-> None]
<1>1. n \in Nat /\ n = Cardinality(Catalogue)
  BY CanonicalLists
<1>2. /\ order \in [1 .. n -> Catalogue]
      /\ \A p, q \in 1 .. n : order[p] = order[q] => p = q
      /\ \A c \in Catalogue : \E p \in 1 .. n : order[p] = c
  BY DEF BuilderInvariant, Arranged, Bijection, Injection, Surjection, IsInjective
<1>3. \A c \in Catalogue : at(c) \in 1 .. n /\ order[at(c)] = c
  BY <1>2
<1>4. \A p \in 1 .. n : at(order[p]) = p
  BY <1>2, <1>3
<1> HIDE DEF n, at
<1>5. rankOf \in Bijection(Catalogue, 0 .. n - 1)
  <2>1. rankOf \in [Catalogue -> 0 .. n - 1]
    BY <1>1, <1>3
  <2>2. \A c, d \in Catalogue : rankOf[c] = rankOf[d] => c = d
    <3> SUFFICES ASSUME NEW c \in Catalogue, NEW d \in Catalogue,
                        rankOf[c] = rankOf[d]
                 PROVE  c = d
      OBVIOUS
    <3>1. at(c) - 1 = at(d) - 1 /\ at(c) \in Int /\ at(d) \in Int
      BY <1>1, <1>3
    <3>2. at(c) = at(d)
      BY <3>1
    <3> QED
      BY <1>3, <3>2
  <2>3. \A r \in 0 .. n - 1 : \E c \in Catalogue : rankOf[c] = r
    <3> SUFFICES ASSUME NEW r \in 0 .. n - 1
                 PROVE  \E c \in Catalogue : rankOf[c] = r
      OBVIOUS
    <3>1. r + 1 \in 1 .. n /\ (r + 1) - 1 = r
      BY <1>1
    <3>2. order[r + 1] \in Catalogue /\ at(order[r + 1]) = r + 1
      BY <1>2, <1>4, <3>1 DEF n
    <3>3. rankOf[order[r + 1]] = r
      BY <3>1, <3>2
    <3> QED
      BY <3>2, <3>3
  <2> HIDE DEF rankOf
  <2> QED
    BY <2>1, <2>2, <2>3, Fun_IsBij
<1>6. ASSUME NEW c \in Catalogue
      PROVE  [rank |-> rankOf[c], at |-> times[rankOf[c] + 1], done |-> None]
               = RowOf(rankOf[c])
  <2>1. rankOf[c] \in 0 .. n - 1
    BY <1>1, <1>3
  <2>2. n = Len(times)
    BY DEF built, n
  <2> HIDE DEF rankOf
  <2>3. times[rankOf[c] + 1] = CollapseTime(start, end, n, rankOf[c])
    BY <2>1, <2>2 DEF BuilderInvariant, Timed, n
  <2> QED
    BY <2>3
<1>7. rowsBuilt = [c \in Coins |-> IF c \in Catalogue THEN RowOf(rankOf[c]) ELSE NoRow]
  <2>1. rowsBuilt = [c \in Coins |->
           IF c \in Catalogue
           THEN [rank |-> rankOf[c], at |-> times[rankOf[c] + 1], done |-> None]
           ELSE NoRow]
    BY DEF rowsBuilt, n, at
  <2> HIDE DEF rankOf, RowOf
  <2> QED
    BY <1>6, <2>1
<1> HIDE DEF rankOf
<1> QED
  BY <1>1, <1>5, <1>7 DEF Schedules

(* The shuffle loses and repeats no coin, and what is built is one of the  *)
(* schedules the lifecycle may persist (buildSchedule).                    *)
THEOREM ScheduleIsBuilt == Spec => []BuildsASchedule
<1>1. BuilderInvariant => BuildsASchedule
  <2> SUFFICES ASSUME BuilderInvariant PROVE BuildsASchedule
    OBVIOUS
  <2>1. { order[p] : p \in 1 .. coinCount } = Catalogue
    <3>1. /\ order \in [1 .. coinCount -> Catalogue]
          /\ \A c \in Catalogue : \E p \in 1 .. coinCount : order[p] = c
      BY DEF BuilderInvariant, Arranged, Bijection, Injection, Surjection
    <3> QED
      BY <3>1
  <2> QED
    BY <2>1, BuiltIsSchedule DEF BuildsASchedule
<1> QED
  BY <1>1, BuilderInvariantHolds, PTL

-----------------------------------------------------------------------------
(* How even the times are.                                                 *)

(* A rounded quotient, multiplied back, is off by half the divisor at most.*)
LEMMA RoundedNear ==
  ASSUME NEW a \in Int, NEW b \in Int, b > 0
  PROVE  /\ RoundDiv(a, b) \in Int
         /\ 2 * (b * RoundDiv(a, b) - a) \in (-b) .. b
<1> DEFINE d == 2 * b
           x == 2 * a + b
           q == x \div d
<1>1. d \in Int /\ d > 0 /\ x \in Int
  OBVIOUS
<1>2. q \in Int /\ q * d <= x /\ x < q * d + d
  <2> HIDE DEF d, x
  <2> QED
    BY <1>1, SMT
<1>3. RoundDiv(a, b) = q
  BY DEF RoundDiv
<1> HIDE DEF q
<1>4. q * d = 2 * (b * q)
  BY <1>2, SMT
<1>5. b * q \in Int
  BY <1>2
<1>6. 2 * (b * q) <= 2 * a + b /\ 2 * a + b < 2 * (b * q) + 2 * b
  BY <1>2, <1>4
<1> QED
  BY <1>2, <1>3, <1>5, <1>6

(* The ranks' times are even to the rounding (computeScheduleTimes).       *)
THEOREM TimesAreEven == Spec => []EvenlySpaced
<1>1. BuilderInvariant => EvenlySpaced
  <2> SUFFICES ASSUME BuilderInvariant PROVE EvenlySpaced
    OBVIOUS
  <2> DEFINE w == WindowStart(start, end)
             n == coinCount - 1
             x == 10 * start + 7 * (end - start)
             Off(r) == 2 * (n * times[r + 1] - (n * w + (end - w) * r))
  <2>1. start \in Int /\ end \in Int /\ coinCount \in Nat /\ n \in Int
    BY CanonicalLists DEF BuilderInvariant, Window
  <2>2. w \in Int /\ 2 * (10 * w - x) \in -10 .. 10
    <3>1. x \in Int
      BY <2>1
    <3>2. w = RoundDiv(x, 10)
      BY DEF WindowStart
    <3> HIDE DEF w, x
    <3>3. 10 \in Int /\ 10 > 0
      OBVIOUS
    <3>4. RoundDiv(x, 10) \in Int /\ 2 * (10 * RoundDiv(x, 10) - x) \in (-10) .. 10
      BY <3>1, <3>3, RoundedNear
    <3> QED
      BY <3>2, <3>4
  <2>3. ASSUME n > 0, NEW r \in 0 .. Len(times) - 1
        PROVE  Off(r) \in (-n) .. n
    <3> DEFINE a == w * n + (end - w) * r
    <3>1. r \in 0 .. n /\ times[r + 1] = CollapseTime(start, end, coinCount, r)
      BY <2>1 DEF BuilderInvariant, Timed
    <3> HIDE DEF w
    <3>2. a \in Int /\ n * w + (end - w) * r = a
      BY <2>1, <2>2, <3>1, SMT
    <3>3. CASE r = n
      <4>1. times[r + 1] = end
        BY <3>1, <3>3 DEF CollapseTime, w
      <4>2. Off(r) = 0
        BY <2>1, <2>2, <3>3, <4>1, SMT
      <4> HIDE DEF Off
      <4> QED
        BY <2>1, <2>3, <4>2
    <3>4. CASE r # n
      <4>1. times[r + 1] = RoundDiv(a, n)
        BY <3>1, <3>4 DEF CollapseTime, w
      <4>2. 2 * (n * RoundDiv(a, n) - a) \in (-n) .. n
        <5> HIDE DEF a, n
        <5> QED
          BY <2>1, <2>3, <3>2, RoundedNear
      <4>3. Off(r) = 2 * (n * RoundDiv(a, n) - a)
        BY <3>2, <4>1
      <4> HIDE DEF Off
      <4> QED
        BY <4>2, <4>3
    <3> QED
      BY <3>3, <3>4
  <2> QED
    BY <2>2, <2>3 DEF EvenlySpaced
<1> QED
  BY <1>1, BuilderInvariantHolds, PTL
=============================================================================
