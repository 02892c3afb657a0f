----------------------------- MODULE RoundProofs -----------------------------
(***************************************************************************)
(* Joining and trading (GameRound) beside the lifecycle, for every set of  *)
(* callers, users, coins and quantities.                                   *)
(*                                                                         *)
(* A step of the composition is a step of the lifecycle, a call given up   *)
(* or sent round again, or a play: a join or a trade, which replaces the   *)
(* participants of the one cycle that is ACTIVE (RoundCases).  Plays keep  *)
(* the law GameCycleProofs establishes of every cycle, so all that is      *)
(* proved there holds under trading too.  A peak is a wealth, and wealth a *)
(* sum over the coins: the first part shows what that sum is.              *)
(***************************************************************************)
EXTENDS GameRound, GameCycleProofs

-----------------------------------------------------------------------------
(* Sums over a finite set, one element at a time.                          *)

Pick(s) == CHOOSE x \in s : TRUE
Unfolds(it, v, S) ==
  it = [s \in SUBSET S |-> IF s = {} THEN 0 ELSE v[Pick(s)] + it[s \ {Pick(s)}]]
Partial(v, S) == CHOOSE it : Unfolds(it, v, S)

(* The sum of v over S.                                                    *)
SumOf(v, S) == Partial(v, S)[S]

(* Induction over the naturals, of a set.                                  *)
LEMMA NatSetInduction ==
  ASSUME NEW T, 0 \in T, \A n \in Nat : n \in T => n + 1 \in T
  PROVE  Nat \subseteq T
<1> SUFFICES ASSUME Nat \ T # {} PROVE FALSE
  OBVIOUS
<1>1. PICK n \in Nat \ T : \A m \in Nat \ T : ~ (<<m, n>> \in OpToRel(<, Nat))
  BY NatLessThanWellFounded, WFMin, Zenon
<1>2. n # 0 /\ n - 1 \in Nat /\ n - 1 < n /\ (n - 1) + 1 = n
  BY SMT
<1>3. <<n - 1, n>> \in OpToRel(<, Nat)
  BY <1>2 DEF OpToRel
<1>4. n - 1 \in T
  BY <1>1, <1>2, <1>3
<1> QED
  BY <1>1, <1>2, <1>4

(* Induction over the subsets of a finite set: if one is bad, one is bad   *)
(* and no longer so without any single one of its elements.                *)
LEMMA MinimalSubset ==
  ASSUME NEW S, IsFiniteSet(S), NEW T \in SUBSET (SUBSET S), T # {}
  PROVE  \E s \in T : \A x \in s : s \ {x} \notin T
<1>1. PICK s \in T : \A t \in T : ~ (<<t, s>> \in StrictSubsetOrdering(S))
  <2>1. IsWellFoundedOn(StrictSubsetOrdering(S), SUBSET S)
    BY FS_StrictSubsetOrderingWellFounded, FS_FiniteSubsetsOfFinite
  <2> QED
    BY <2>1, WFMin
<1>2. ASSUME NEW x \in s PROVE s \ {x} \notin T
  <2>1. s \in SUBSET S /\ s \ {x} \in SUBSET S /\ s \ {x} # s
    OBVIOUS
  <2>2. <<s \ {x}, s>> \in StrictSubsetOrdering(S)
    BY <2>1 DEF StrictSubsetOrdering
  <2> QED
    BY <1>1, <2>2
<1> QED
  BY <1>2

(* The recursive function exists: on the sets of at most n elements, for   *)
(* every n.                                                                *)
LEMMA PartialUnfolds ==
  ASSUME NEW S, IsFiniteSet(S), NEW v \in [S -> Int]
  PROVE  Unfolds(Partial(v, S), v, S)
<1> DEFINE Level(n) == {s \in SUBSET S : Cardinality(s) <= n}
           Body(it, s) == IF s = {} THEN 0 ELSE v[Pick(s)] + it[s \ {Pick(s)}]
           Good == {n \in Nat : \E it \in [Level(n) -> Int] :
                                  \A s \in Level(n) : it[s] = Body(it, s)}
<1>1. \A s \in SUBSET S : /\ IsFiniteSet(s) /\ Cardinality(s) \in Nat
                          /\ Cardinality(s) <= Cardinality(S)
                          /\ Cardinality(s) = 0 <=> s = {}
  BY FS_Subset, FS_CardinalityType, FS_EmptySet
<1>2. ASSUME NEW s \in SUBSET S, s # {}
      PROVE  /\ Pick(s) \in s /\ s \ {Pick(s)} \in SUBSET S
             /\ Cardinality(s \ {Pick(s)}) = Cardinality(s) - 1
  BY <1>1, <1>2, FS_RemoveElement DEF Pick
<1>3. 0 \in Good
  <2>1. Level(0) = {{}}
    BY <1>1
  <2>2. [s \in Level(0) |-> 0] \in [Level(0) -> Int]
    OBVIOUS
  <2>3. \A s \in Level(0) : [t \in Level(0) |-> 0][s] = Body([t \in Level(0) |-> 0], s)
    BY <2>1
  <2> QED
    BY <2>2, <2>3
<1>4. ASSUME NEW n \in Nat, n \in Good PROVE n + 1 \in Good
  <2>1. PICK it \in [Level(n) -> Int] : \A s \in Level(n) : it[s] = Body(it, s)
    BY <1>4
  <2> DEFINE next == [s \in Level(n + 1) |-> Body(it, s)]
  <2>2. ASSUME NEW s \in Level(n + 1), s # {}
        PROVE  s \ {Pick(s)} \in Level(n) /\ v[Pick(s)] \in Int
    BY <1>1, <1>2, <2>2
  <2>3. next \in [Level(n + 1) -> Int]
    <3>1. \A s \in Level(n + 1) : Body(it, s) \in Int
      BY <2>1, <2>2
    <3> HIDE DEF Body
    <3> QED
      BY <3>1
  <2>4. Level(n) \subseteq Level(n + 1)
    BY <1>1
  <2>5. \A s \in Level(n) : next[s] = it[s]
    BY <2>1, <2>4
  <2>6. ASSUME NEW s \in Level(n + 1) PROVE next[s] = Body(next, s)
    <3>1. next[s] = Body(it, s)
      OBVIOUS
    <3> HIDE DEF next, Level
    <3> QED
      BY <2>2, <2>5, <3>1
  <2> HIDE DEF next, Body, Level
  <2> QED
    BY <2>3, <2>6
<1>5. Cardinality(S) \in Good
  <2> HIDE DEF Good
  <2> QED
    BY <1>1, <1>3, <1>4, NatSetInduction
<1>6. PICK it \in [Level(Cardinality(S)) -> Int] :
        \A s \in Level(Cardinality(S)) : it[s] = Body(it, s)
  BY <1>5
<1>7. Level(Cardinality(S)) = SUBSET S
  BY <1>1
<1>8. Unfolds(it, v, S)
  <2>1. it = [s \in SUBSET S |-> it[s]] /\ \A s \in SUBSET S : it[s] = Body(it, s)
    BY <1>6, <1>7
  <2>2. [s \in SUBSET S |-> it[s]] = [s \in SUBSET S |-> Body(it, s)]
    <3> HIDE DEF Body
    <3> QED
      BY <2>1
  <2> QED
    BY <2>1, <2>2 DEF Unfolds
<1> QED
  BY <1>8 DEF Partial

(* What the recursion says, one element at a time.                         *)
LEMMA PartialSteps ==
  ASSUME NEW S, IsFiniteSet(S), NEW v \in [S -> Int]
  PROVE  /\ Partial(v, S)[{}] = 0
         /\ \A s \in SUBSET S : s # {} =>
              /\ Pick(s) \in s
              /\ Partial(v, S)[s] = v[Pick(s)] + Partial(v, S)[s \ {Pick(s)}]
         /\ \A s \in SUBSET S : Partial(v, S)[s] \in Int
<1> DEFINE it == Partial(v, S)
<1>1. it = [s \in SUBSET S |-> IF s = {} THEN 0 ELSE v[Pick(s)] + it[s \ {Pick(s)}]]
  BY PartialUnfolds DEF Unfolds
<1> HIDE DEF it
<1>2. /\ it[{}] = 0
      /\ \A s \in SUBSET S : s # {} => it[s] = v[Pick(s)] + it[s \ {Pick(s)}]
  BY <1>1
<1>3. \A s \in SUBSET S : s # {} => Pick(s) \in s
  BY DEF Pick
<1>4. \A s \in SUBSET S : it[s] \in Int
  <2> DEFINE T == {s \in SUBSET S : it[s] \notin Int}
  <2> SUFFICES ASSUME T # {} PROVE FALSE
    OBVIOUS
  <2>1. T \in SUBSET (SUBSET S)
    OBVIOUS
  <2>2. PICK s \in T : \A x \in s : s \ {x} \notin T
    <3> HIDE DEF T
    <3> QED
      BY <2>1, MinimalSubset
  <2>3. s \in SUBSET S /\ it[s] \notin Int /\ s # {}
    <3>1. s \in SUBSET S /\ it[s] \notin Int
      OBVIOUS
    <3> HIDE DEF T
    <3>2. s = {} => FALSE
      BY <1>2, <3>1
    <3> QED
      BY <3>1, <3>2
  <2>4. s \ {Pick(s)} \in SUBSET S /\ it[s \ {Pick(s)}] \in Int /\ v[Pick(s)] \in Int
    BY <1>3, <2>2, <2>3
  <2>5. it[s] = v[Pick(s)] + it[s \ {Pick(s)}]
    BY <1>2, <2>3
  <2> HIDE DEF T
  <2> QED
    BY <2>3, <2>4, <2>5
<1> QED
  BY <1>2, <1>3, <1>4 DEF it

(* A sum of less is less.                                                  *)
LEMMA SumMonotone ==
  ASSUME NEW S, IsFiniteSet(S), NEW v \in [S -> Int], NEW w \in [S -> Int],
         \A c \in S : v[c] <= w[c]
  PROVE  SumOf(v, S) \in Int /\ SumOf(w, S) \in Int /\ SumOf(v, S) <= SumOf(w, S)
<1> DEFINE p == Partial(v, S)
           q == Partial(w, S)
           T == {s \in SUBSET S : ~ (p[s] <= q[s])}
<1>1. /\ p[{}] = 0 /\ q[{}] = 0
      /\ \A s \in SUBSET S : s # {} =>
           /\ Pick(s) \in s
           /\ p[s] = v[Pick(s)] + p[s \ {Pick(s)}]
           /\ q[s] = w[Pick(s)] + q[s \ {Pick(s)}]
      /\ \A s \in SUBSET S : p[s] \in Int /\ q[s] \in Int
  BY PartialSteps
<1> HIDE DEF p, q
<1>2. ASSUME T # {} PROVE FALSE
  <2>1. T \in SUBSET (SUBSET S)
    OBVIOUS
  <2>2. PICK s \in T : \A x \in s : s \ {x} \notin T
    <3> HIDE DEF T
    <3> QED
      BY <1>2, <2>1, MinimalSubset
  <2>3. s \in SUBSET S /\ ~ (p[s] <= q[s]) /\ s # {}
    <3>1. s \in SUBSET S /\ ~ (p[s] <= q[s])
      OBVIOUS
    <3> HIDE DEF T
    <3>2. s = {} => FALSE
      BY <1>1, <3>1
    <3> QED
      BY <3>1, <3>2
  <2> DEFINE x == Pick(s)
  <2>4. x \in s /\ s \ {x} \in SUBSET S
    BY <1>1, <2>3
  <2>5. p[s \ {x}] <= q[s \ {x}] /\ v[x] <= w[x]
    BY <2>2, <2>4
  <2>6. p[s] = v[x] + p[s \ {x}] /\ q[s] = w[x] + q[s \ {x}]
    BY <1>1, <2>3
  <2>7. /\ v[x] \in Int /\ w[x] \in Int
        /\ p[s \ {x}] \in Int /\ q[s \ {x}] \in Int
    BY <1>1, <2>4
  <2>8. p[s] <= q[s]
    BY <2>5, <2>6, <2>7
  <2> QED
    BY <2>3, <2>8
<1>3. S \in SUBSET S
  OBVIOUS
<1>4. p[S] \in Int /\ q[S] \in Int /\ p[S] <= q[S]
  BY <1>1, <1>2, <1>3
<1> QED
  BY <1>4 DEF SumOf, p, q

(* A sum of nothing is nothing.                                            *)
LEMMA SumZero ==
  ASSUME NEW S, IsFiniteSet(S), NEW v \in [S -> Int], \A c \in S : v[c] = 0
  PROVE  SumOf(v, S) = 0
<1> DEFINE p == Partial(v, S)
           T == {s \in SUBSET S : p[s] # 0}
<1>1. /\ p[{}] = 0
      /\ \A s \in SUBSET S : s # {} =>
           /\ Pick(s) \in s
           /\ p[s] = v[Pick(s)] + p[s \ {Pick(s)}]
  BY PartialSteps
<1> HIDE DEF p
<1>2. ASSUME T # {} PROVE FALSE
  <2>1. T \in SUBSET (SUBSET S)
    OBVIOUS
  <2>2. PICK s \in T : \A x \in s : s \ {x} \notin T
    <3> HIDE DEF T
    <3> QED
      BY <1>2, <2>1, MinimalSubset
  <2>3. s \in SUBSET S /\ s # {}
    BY <1>1
  <2>4. Pick(s) \in s /\ p[s \ {Pick(s)}] = 0 /\ v[Pick(s)] = 0
    BY <1>1, <2>2, <2>3
  <2> QED
    BY <1>1, <2>2, <2>3, <2>4
<1>3. S \in SUBSET S
  OBVIOUS
<1>4. p[S] = 0
  BY <1>2, <1>3
<1> QED
  BY <1>4 DEF SumOf, p

(* What holdings are worth coin by coin, and the unfolding of the          *)
(* library's fold over them.                                               *)
Values(holds, prices) == [c \in Coins |-> holds[c] * prices[c]]
UnfoldsValue(it, h, p) ==
  it = [s \in SUBSET Coins |->
          IF s = {} THEN 0 ELSE h[Pick(s)] * p[Pick(s)] + it[s \ {Pick(s)}]]

(* The library's fold of holdings at prices is such a sum.                 *)
LEMMA ValueIsSum ==
  ASSUME NEW h, NEW p
  PROVE  MapThenSumSet(LAMBDA c : h[c] * p[c], Coins) = SumOf(Values(h, p), Coins)
<1> DEFINE v == Values(h, p)
<1>1. MapThenSumSet(LAMBDA c : h[c] * p[c], Coins)
        = (CHOOSE it : UnfoldsValue(it, h, p))[Coins]
  BY DEF MapThenSumSet, MapThenFoldSet, Pick, UnfoldsValue
<1>2. ASSUME NEW it PROVE UnfoldsValue(it, h, p) <=> Unfolds(it, v, Coins)
  <2>1. \A s \in SUBSET Coins : s # {} => v[Pick(s)] = h[Pick(s)] * p[Pick(s)]
    BY DEF Pick, Values
  <2> HIDE DEF v
  <2>2. [s \in SUBSET Coins |->
           IF s = {} THEN 0 ELSE h[Pick(s)] * p[Pick(s)] + it[s \ {Pick(s)}]]
        = [s \in SUBSET Coins |->
             IF s = {} THEN 0 ELSE v[Pick(s)] + it[s \ {Pick(s)}]]
    BY <2>1
  <2> QED
    BY <2>2 DEF UnfoldsValue, Unfolds
<1> HIDE DEF v
<1>3. (CHOOSE it : UnfoldsValue(it, h, p)) = (CHOOSE it : Unfolds(it, v, Coins))
  BY <1>2
<1> QED
  BY <1>1, <1>3 DEF SumOf, Partial, v

(* The value of holdings is an amount, and no greater at lower prices.     *)
LEMMA ValueOK ==
  ASSUME NEW h \in [Coins -> Nat], NEW p \in [Coins -> Nat],
         NEW q \in [Coins -> Nat], \A c \in Coins : p[c] <= q[c]
  PROVE  /\ SumOf(Values(h, p), Coins) \in Nat
         /\ SumOf(Values(h, q), Coins) \in Nat
         /\ SumOf(Values(h, p), Coins) <= SumOf(Values(h, q), Coins)
<1> DEFINE zero == [c \in Coins |-> 0]
<1>1. /\ Values(h, p) \in [Coins -> Int] /\ Values(h, q) \in [Coins -> Int]
      /\ \A c \in Coins : /\ Values(h, p)[c] = h[c] * p[c]
                          /\ Values(h, q)[c] = h[c] * q[c]
  BY DEF Values
<1>2. \A c \in Coins : 0 <= h[c] * p[c] /\ h[c] * p[c] <= h[c] * q[c]
  <2> SUFFICES ASSUME NEW c \in Coins
               PROVE  0 <= h[c] * p[c] /\ h[c] * p[c] <= h[c] * q[c]
    OBVIOUS
  <2>1. h[c] \in Nat /\ p[c] \in Nat /\ q[c] \in Nat /\ p[c] <= q[c]
    OBVIOUS
  <2>2. \A x, y, z \in Nat : y <= z => 0 <= x * y /\ x * y <= x * z
    BY SMT
  <2> QED
    BY <2>1, <2>2
<1>3. /\ zero \in [Coins -> Int] /\ SumOf(zero, Coins) = 0
      /\ \A c \in Coins : zero[c] = 0
  BY SumZero, CoinsAssumption
<1> HIDE DEF zero
<1>4. \A c \in Coins : /\ zero[c] <= Values(h, p)[c]
                       /\ Values(h, p)[c] <= Values(h, q)[c]
  BY <1>1, <1>2, <1>3
<1>5. SumOf(zero, Coins) <= SumOf(Values(h, p), Coins)
      /\ SumOf(Values(h, p), Coins) \in Int
  BY <1>1, <1>3, <1>4, SumMonotone, CoinsAssumption
<1>6. SumOf(Values(h, p), Coins) <= SumOf(Values(h, q), Coins)
      /\ SumOf(Values(h, q), Coins) \in Int
  BY <1>1, <1>4, SumMonotone, CoinsAssumption
<1> QED
  BY <1>3, <1>5, <1>6

(* Wealth is an amount; it falls with the prices; and without holdings it  *)
(* is the cash.                                                            *)
LEMMA WealthOK ==
  ASSUME NEW x, x.cash \in Nat, x.holds \in [Coins -> Nat],
         NEW p \in [Coins -> Nat]
  PROVE  /\ Wealth(x, p) \in Nat
         /\ \A q \in [Coins -> Nat] :
              (\A c \in Coins : p[c] <= q[c]) => Wealth(x, p) <= Wealth(x, q)
         /\ (\A c \in Coins : x.holds[c] = 0) => Wealth(x, p) = x.cash
<1> DEFINE V(prices) == SumOf(Values(x.holds, prices), Coins)
           W(n) == (2 * (Scale * x.cash + n) + Scale) \div (2 * Scale)
<1>1. ASSUME NEW prices PROVE Wealth(x, prices) = W(V(prices))
  BY ValueIsSum DEF Wealth, RoundDiv
<1>2. V(p) \in Nat
  BY ValueOK
<1>3. Scale \in Nat /\ Scale > 0
  BY RoundAssumption
<1> HIDE DEF V
<1>4. ASSUME NEW n \in Nat
      PROVE  /\ W(n) \in Nat
             /\ n = 0 => W(n) = x.cash
             /\ \A m \in Nat : n <= m => W(n) <= W(m)
  <2> DEFINE a == 2 * (Scale * x.cash + n) + Scale
             b == 2 * Scale
  <2>1. Scale * x.cash \in Nat
    BY <1>3, SMT
  <2>2. a \in Nat /\ b \in Nat /\ b > 0
    BY <1>3, <2>1
  <2>3. W(n) \in Nat
    <3>1. 0 * b <= a /\ a < (a + 1) * b
      BY <2>2, SMT
    <3> HIDE DEF a, b
    <3>2. a \div b \in 0 .. a
      BY <2>2, <3>1, DivBetween
    <3> QED
      BY <2>2, <3>2 DEF a, b
  <2>4. n = 0 => W(n) = x.cash
    <3> SUFFICES ASSUME n = 0 PROVE W(n) = x.cash
      OBVIOUS
    <3>1. \A c, k \in Nat :
            k > 0 => /\ c * (2 * k) <= 2 * (k * c + 0) + k
                     /\ 2 * (k * c + 0) + k < (c + 1) * (2 * k)
      BY SMT
    <3>2. x.cash * b <= a /\ a < (x.cash + 1) * b
      BY <1>3, <3>1
    <3> HIDE DEF a, b
    <3>3. a \div b \in x.cash .. x.cash
      BY <2>2, <3>2, DivBetween
    <3> QED
      BY <3>3 DEF a, b
  <2>5. ASSUME NEW m \in Nat, n <= m PROVE W(n) <= W(m)
    <3> DEFINE d == 2 * (Scale * x.cash + m) + Scale
    <3>1. d \in Nat /\ a <= d
      BY <1>3, <2>1, <2>5
    <3> HIDE DEF a, b, d
    <3>2. a \div b <= d \div b
      BY <2>2, <3>1, DivMonotone
    <3> QED
      BY <3>2 DEF a, b, d
  <2> HIDE DEF W
  <2> QED
    BY <2>3, <2>4, <2>5
<1>5. ASSUME NEW q \in [Coins -> Nat], \A c \in Coins : p[c] <= q[c]
      PROVE  V(p) \in Nat /\ V(q) \in Nat /\ V(p) <= V(q)
  BY <1>5, ValueOK DEF V
<1>6. (\A c \in Coins : x.holds[c] = 0) => V(p) = 0
  <2> SUFFICES ASSUME \A c \in Coins : x.holds[c] = 0 PROVE V(p) = 0
    OBVIOUS
  <2>1. \A n \in Nat : 0 * n = 0
    BY SMT
  <2>2. Values(x.holds, p) \in [Coins -> Int]
        /\ \A c \in Coins : Values(x.holds, p)[c] = 0
    BY <2>1 DEF Values
  <2> QED
    BY <2>2, SumZero, CoinsAssumption DEF V
<1> HIDE DEF W
<1> QED
  BY <1>1, <1>2, <1>4, <1>5, <1>6

(* Wealth is a matter of cash and holdings alone.                          *)
LEMMA WealthDepends ==
  ASSUME NEW x, NEW y, x.cash = y.cash, x.holds = y.holds, NEW p
  PROVE  Wealth(x, p) = Wealth(y, p)
<1>1. ASSUME NEW z
      PROVE  Wealth(z, p)
               = RoundDiv(Scale * z.cash + SumOf(Values(z.holds, p), Coins), Scale)
  BY ValueIsSum DEF Wealth
<1> QED
  BY <1>1

-----------------------------------------------------------------------------
(* Plays.                                                                  *)

(* What a trade makes of a participant: a purchase of a coin alive in the  *)
(* cycle, paid for at its price, or a sale, paid unless it is worthless.   *)
Dealt(y, old, new, coin) ==
  /\ old.status = "ACTIVE" /\ new.status = "ACTIVE"
  /\ new.id = old.id /\ new.final = old.final
  /\ old.peak <= new.peak /\ Wealth(new, price) <= new.peak
  /\ FairDeal(old, new, coin) /\ UNCHANGED <<clock, users, price, call, joining>>
  /\ \/ /\ new.holds[coin] > old.holds[coin] /\ new.cash < old.cash
        /\ y.schedule[coin].done = None
     \/ /\ new.holds[coin] < old.holds[coin] /\ new.cash >= old.cash
        /\ price[coin] > 0 => new.cash > old.cash

(* What a play makes of the participants of cycle y.                       *)
Play(y, ps) ==
  \/ \E u \in Users : ps = Enrolled(y.participants, {u})
  \/ \E u \in Joined(y.participants), coin \in Coins, new \in Participant :
       /\ Dealt(y, y.participants[u], new, coin)
       /\ ps = [y.participants EXCEPT ![u] = new]

Played(y, ps) == [y EXCEPT !.participants = ps]

(* A join or a trade in the ACTIVE cycle.                                  *)
PlayStep ==
  /\ UNCHANGED <<clock, users, price, call>>
  /\ \E k \in InStatus("ACTIVE") : \E ps :
       Play(cycles[k], ps) /\ Replaced(k, Played(cycles[k], ps))

(* A call goes back to its first phase, or is given up.                    *)
CallStep ==
  /\ UNCHANGED <<clock, users, cycles, price>>
  /\ \E c \in Callers : \/ Goto(c, "freeze")
                        \/ call' = [call EXCEPT ![c] = [phase |-> "idle", now |-> 0]]

(* The trade of u in cycle k leaves u the participant `new`, whose peak    *)
(* covers its wealth.                                                      *)
TradedTo(k, u, coin, cash, q, new) ==
  LET old == cycles[k].participants[u]
  IN  /\ Traded(k, u, coin, cash, q)
           = [cycles EXCEPT ![k] =
                Played(cycles[k], [cycles[k].participants EXCEPT ![u] = new])]
      /\ new.status = old.status /\ new.id = old.id /\ new.final = old.final
      /\ new.cash = old.cash + cash
      /\ new.holds[coin] = old.holds[coin] + q
      /\ \A c \in Coins \ {coin} : new.holds[c] = old.holds[c]
      /\ old.peak <= new.peak /\ Wealth(new, price) <= new.peak

(* Every trade replaces one participant so.                                *)
LEMMA TradedParticipant ==
  ASSUME NEW k \in DOMAIN cycles, cycles[k] \in Cycle, price \in [Coins -> Nat],
         NEW u \in Users, NEW coin \in Coins, NEW cash \in Int, NEW q \in Int,
         cycles[k].participants[u].cash + cash \in Nat,
         cycles[k].participants[u].holds[coin] + q \in Nat
  PROVE  \E new \in Participant : TradedTo(k, u, coin, cash, q, new)
<1> DEFINE old == cycles[k].participants[u]
           mid == [old EXCEPT !.cash = old.cash + cash,
                              !.holds[coin] = old.holds[coin] + q]
           new == Lifted(mid, price)
<1>1. old \in Participant
  BY DEF Cycle
<1>2. /\ mid \in Participant
      /\ mid.status = old.status /\ mid.id = old.id /\ mid.final = old.final
      /\ mid.cash = old.cash + cash /\ mid.peak = old.peak
      /\ mid.holds[coin] = old.holds[coin] + q
      /\ \A c \in Coins \ {coin} : mid.holds[c] = old.holds[c]
  BY <1>1 DEF Participant
<1>3. Traded(k, u, coin, cash, q)
        = [cycles EXCEPT ![k] =
             Played(cycles[k], [cycles[k].participants EXCEPT ![u] = new])]
  BY DEF Traded, Played
<1> HIDE DEF mid, old
<1>4. Wealth(mid, price) \in Nat
  BY <1>2, WealthOK DEF Participant
<1>5. /\ new \in Participant
      /\ new.status = mid.status /\ new.id = mid.id /\ new.final = mid.final
      /\ new.cash = mid.cash /\ new.holds = mid.holds
      /\ mid.peak <= new.peak /\ Wealth(mid, price) <= new.peak
  <2> DEFINE top == IF Wealth(mid, price) > mid.peak THEN Wealth(mid, price) ELSE mid.peak
  <2>1. top \in Nat /\ mid.peak <= top /\ Wealth(mid, price) <= top
    BY <1>2, <1>4 DEF Participant
  <2>2. new = [mid EXCEPT !.peak = top]
    BY DEF Lifted
  <2> HIDE DEF top, new
  <2> QED
    BY <1>2, <2>1, <2>2 DEF Participant
<1> HIDE DEF new
<1>6. Wealth(new, price) = Wealth(mid, price)
  BY <1>5, WealthDepends
<1>7. TradedTo(k, u, coin, cash, q, new)
  BY <1>2, <1>3, <1>5, <1>6 DEF TradedTo, old
<1> QED
  BY <1>5, <1>7

(* Rounding an amount gives an amount.                                     *)
LEMMA RoundDivAmount ==
  ASSUME NEW x \in Nat, NEW b \in Nat, b > 0
  PROVE  RoundDiv(x, b) \in Nat
<1> DEFINE a == 2 * x + b
           d == 2 * b
<1>1. a \in Nat /\ d \in Nat /\ d > 0
  OBVIOUS
<1>2. RoundDiv(x, b) = a \div d
  BY DEF RoundDiv
<1> HIDE DEF a, d
<1>3. 0 * d <= a /\ a < (a + 1) * d
  BY <1>1, SMT
<1>4. a \div d \in 0 .. a
  BY <1>1, <1>3, DivBetween
<1> QED
  BY <1>1, <1>2, <1>4

(* So a total is one, and off by half a penny at most.                     *)
LEMMA TotalOK ==
  ASSUME NEW q \in Nat, NEW p \in Nat
  PROVE  /\ Total(q, p) \in Nat
         /\ 2 * (Scale * Total(q, p) - q * p) \in -Scale .. Scale
<1>1. Scale \in Nat /\ Scale > 0 /\ q * p \in Nat /\ q * p >= 0
  BY RoundAssumption, SMT
<1> DEFINE a == q * p
<1>2. a \in Int /\ a >= 0
  BY <1>1
<1>3. Total(q, p) = RoundDiv(a, Scale)
  BY DEF Total
<1> HIDE DEF a
<1> DEFINE t == RoundDiv(a, Scale)
<1>4. t \in Nat /\ - Scale <= 2 * (Scale * t - a) /\ 2 * (Scale * t - a) <= Scale
  BY <1>1, <1>2, RoundDivNear
<1> HIDE DEF t
<1>5. Scale * t \in Int
  BY <1>1, <1>4, SMT
<1>6. 2 * (Scale * t - a) \in -Scale .. Scale
  BY <1>1, <1>2, <1>4, <1>5
<1> QED
  BY <1>3, <1>4, <1>6 DEF a, t

(* A movement of cash against a quantity is a fair deal when the amount    *)
(* is, whichever way it goes.                                              *)
LEMMA DealIsFair ==
  ASSUME NEW old, NEW new, NEW coin \in Coins, NEW q \in Nat, NEW total \in Nat,
         price[coin] \in Nat, old.cash \in Nat, old.holds[coin] \in Nat,
         2 * (Scale * total - q * price[coin]) \in -Scale .. Scale,
         \/ /\ new.cash = old.cash + -total
            /\ new.holds[coin] = old.holds[coin] + q
         \/ /\ new.cash = old.cash + total
            /\ new.holds[coin] = old.holds[coin] + -q,
         \A d \in Coins \ {coin} : new.holds[d] = old.holds[d]
  PROVE  FairDeal(old, new, coin)
<1> DEFINE p == price[coin]
           dc == new.cash - old.cash
           dh == new.holds[coin] - old.holds[coin]
           e == 2 * (Scale * total - q * p)
<1>1. Scale \in Nat /\ p \in Nat /\ e \in -Scale .. Scale
  BY RoundAssumption
<1>2. \/ dc = -total /\ dh = q
      \/ dc = total /\ dh = -q
  OBVIOUS
<1> HIDE DEF p, dc, dh
<1>3. 2 * (Scale * dc + dh * p) = e \/ 2 * (Scale * dc + dh * p) = -e
  BY <1>1, <1>2, SMT
<1> HIDE DEF e
<1>4. 2 * (Scale * dc + dh * p) \in -Scale .. Scale
  BY <1>1, <1>3
<1> QED
  BY <1>4 DEF FairDeal, p, dc, dh

(* A purchase is a play ...                                                *)
LEMMA BuyIsPlay ==
  ASSUME RestOK, TableOK, NEW k \in DOMAIN cycles, NEW u \in Users,
         NEW coin \in Coins, NEW q \in Nat \ {0}, NEW now,
         BuyRoundTrade(k, u, coin, q, now)
  PROVE  PlayStep
<1> DEFINE old == cycles[k].participants[u]
           total == Total(q, price[coin])
<1>1. cycles[k] \in Cycle /\ old \in Participant /\ price \in [Coins -> Nat]
  BY DEF TableOK, CycleOK, Cycle, RestOK
<1>2. /\ q \in Nat /\ q > 0 /\ total \in Nat
      /\ 2 * (Scale * total - q * price[coin]) \in -Scale .. Scale
  <2>1. q \in Nat /\ q > 0 /\ price[coin] \in Nat
    BY <1>1
  <2> HIDE DEF old
  <2> QED
    BY <2>1, TotalOK
<1>3. /\ cycles[k].status = "ACTIVE" /\ old.status = "ACTIVE"
      /\ cycles[k].schedule[coin].done = None
      /\ total >= 1 /\ old.cash >= total
      /\ cycles' = Traded(k, u, coin, -total, q)
      /\ UNCHANGED <<clock, users, price, call, joining>>
  BY DEF BuyRoundTrade, BuyAllowed, Live, CollapsedInCycle, WorthTrading, Affordable
<1> HIDE DEF total
<1>4. old.cash + -total \in Nat /\ old.holds[coin] + q \in Nat /\ -total \in Int
      /\ old.cash \in Nat /\ old.holds[coin] \in Nat
  BY <1>1, <1>2, <1>3 DEF Participant
<1>5. PICK new \in Participant : TradedTo(k, u, coin, -total, q, new)
  BY <1>1, <1>2, <1>4, TradedParticipant
<1>6. FairDeal(old, new, coin)
  <2>1. /\ new.cash = old.cash + -total /\ new.holds[coin] = old.holds[coin] + q
        /\ \A c \in Coins \ {coin} : new.holds[c] = old.holds[c]
    BY <1>5 DEF TradedTo
  <2>2. price[coin] \in Nat
    BY <1>1
  <2> QED
    BY <1>2, <1>4, <2>1, <2>2, DealIsFair
<1>7. Dealt(cycles[k], old, new, coin)
  BY <1>2, <1>3, <1>4, <1>5, <1>6 DEF Dealt, TradedTo
<1>8. u \in Joined(cycles[k].participants) /\ k \in InStatus("ACTIVE")
  BY <1>3 DEF Joined, InStatus
<1> QED
  BY <1>3, <1>5, <1>7, <1>8 DEF PlayStep, Play, Replaced, TradedTo

(* ... and so is a sale.                                                   *)
LEMMA SellIsPlay ==
  ASSUME RestOK, TableOK, NEW k \in DOMAIN cycles, NEW u \in Users,
         NEW coin \in Coins, NEW q \in Nat \ {0}, NEW now,
         SellRoundTrade(k, u, coin, q, now)
  PROVE  PlayStep
<1> DEFINE old == cycles[k].participants[u]
           total == Total(q, price[coin])
           sold == -q
<1>1. cycles[k] \in Cycle /\ old \in Participant /\ price \in [Coins -> Nat]
  BY DEF TableOK, CycleOK, Cycle, RestOK
<1>2. /\ q \in Nat /\ q > 0 /\ total \in Nat
      /\ 2 * (Scale * total - q * price[coin]) \in -Scale .. Scale
  <2>1. q \in Nat /\ q > 0 /\ price[coin] \in Nat
    BY <1>1
  <2> HIDE DEF old
  <2> QED
    BY <2>1, TotalOK
<1>3. /\ cycles[k].status = "ACTIVE" /\ old.status = "ACTIVE"
      /\ old.holds[coin] >= q
      /\ price[coin] > 0 => total >= 1
      /\ cycles' = Traded(k, u, coin, total, sold)
      /\ UNCHANGED <<clock, users, price, call, joining>>
  BY DEF SellRoundTrade, SellAllowed, Live, WorthTrading
<1> HIDE DEF total
<1>4. old.cash + total \in Nat /\ old.holds[coin] + sold \in Nat /\ sold \in Int
      /\ old.cash \in Nat /\ old.holds[coin] \in Nat
      /\ old.holds[coin] + sold < old.holds[coin]
  BY <1>1, <1>2, <1>3 DEF Participant
<1> HIDE DEF sold
<1>5. PICK new \in Participant : TradedTo(k, u, coin, total, sold, new)
  BY <1>1, <1>2, <1>4, TradedParticipant
<1>6. FairDeal(old, new, coin)
  <2>1. /\ new.cash = old.cash + total /\ new.holds[coin] = old.holds[coin] + sold
        /\ \A c \in Coins \ {coin} : new.holds[c] = old.holds[c]
    BY <1>5 DEF TradedTo
  <2>2. price[coin] \in Nat
    BY <1>1
  <2> QED
    BY <1>2, <1>4, <2>1, <2>2, DealIsFair DEF sold
<1>7. Dealt(cycles[k], old, new, coin)
  BY <1>2, <1>3, <1>4, <1>5, <1>6 DEF Dealt, TradedTo
<1>8. u \in Joined(cycles[k].participants) /\ k \in InStatus("ACTIVE")
  BY <1>3 DEF Joined, InStatus
<1> QED
  BY <1>3, <1>5, <1>7, <1>8 DEF PlayStep, Play, Replaced, TradedTo

(* A caller's join names a user.                                           *)
JoiningOK ==
  /\ joining \in [Callers -> Join]
  /\ \A c \in Callers : joining[c] # NoJoin => joining[c].user \in Users

(* What a step of the composition does to the variables of the lifecycle.  *)
GameChange == [Next]_vars \/ CallStep \/ PlayStep

(* A pass of a join joins the ACTIVE cycle, or touches its call alone.     *)
LEMMA JoinIsPlay ==
  ASSUME JoiningOK, NEW c \in Callers, JoinActiveCycle(c)
  PROVE  GameChange
<1> DEFINE u == joining[c].user
           live == { k \in DOMAIN cycles : Live(k, call[c].now) }
<1>1. u \in Users /\ UNCHANGED <<clock, users, price>>
  BY DEF JoinActiveCycle, JoiningOK
<1>2. ASSUME NEW k \in live, UNCHANGED call,
             cycles' = [cycles EXCEPT ![k].participants = Inserted(@, u)]
      PROVE  PlayStep
  <2>1. k \in InStatus("ACTIVE")
    BY DEF Live, InStatus
  <2> DEFINE ps == Enrolled(cycles[k].participants, {u})
  <2>2. Replaced(k, Played(cycles[k], ps))
    BY <1>2 DEF Replaced, Played, Inserted
  <2>3. Play(cycles[k], ps)
    BY <1>1 DEF Play
  <2> HIDE DEF ps, u
  <2> QED
    BY <1>1, <1>2, <2>1, <2>2, <2>3 DEF PlayStep
<1>3. CASE Goto(c, "freeze") /\ UNCHANGED cycles
  BY <1>1, <1>3 DEF GameChange, CallStep
<1>4. CASE UNCHANGED <<cycles, call>>
  BY <1>1, <1>4 DEF GameChange, vars
<1> QED
  BY <1>2, <1>3, <1>4 DEF JoinActiveCycle, GameChange

(* Every step of the composition, whoever takes it.                        *)
LEMMA RoundCases ==
  ASSUME RestOK, TableOK, JoiningOK, NEW who \in SUBSET Callers,
         NEW players \in SUBSET Users,
         LifecycleStep(who) \/ RoundStep(who, players)
  PROVE  GameChange /\ JoiningOK'
<1>1. CASE LifecycleStep(who)
  <2>1. Next /\ UNCHANGED joining
    BY <1>1 DEF LifecycleStep, Next, CycleStep
  <2> QED
    BY <2>1 DEF GameChange, JoiningOK
<1>2. ASSUME NEW c \in Callers, NEW u \in Users, JoinRound(c, u)
      PROVE  GameChange /\ JoiningOK'
  <2>1. Next
    BY <1>2 DEF JoinRound, Next, CycleStep
  <2>2. [user |-> u, attempt |-> 1] \in Join
    BY RoundAssumption DEF Join
  <2>3. JoiningOK'
    BY <1>2, <2>2 DEF JoiningOK, JoinRound
  <2> QED
    BY <2>1, <2>3 DEF GameChange
<1>3. NoJoin \in Join
  BY RoundAssumption DEF NoJoin, Join
<1>4. ASSUME NEW c \in Callers, JoinActiveCycle(c)
      PROVE  GameChange /\ JoiningOK'
  <2>1. joining[c] \in Join /\ joining[c].attempt \in 0 .. JoinAttempts
    BY DEF JoiningOK, Join
  <2>2. joining[c].attempt < JoinAttempts =>
          LET j == [joining[c] EXCEPT !.attempt = joining[c].attempt + 1]
          IN  j \in Join /\ j.user = joining[c].user
    BY <2>1, RoundAssumption DEF Join
  <2>3. \/ joining' = [joining EXCEPT ![c] = NoJoin]
        \/ /\ joining[c].attempt < JoinAttempts /\ joining[c] # NoJoin
           /\ joining' = [joining EXCEPT ![c] =
                             [joining[c] EXCEPT !.attempt = joining[c].attempt + 1]]
    BY <1>4 DEF JoinActiveCycle, JoiningOK
  <2>4. JoiningOK'
    BY <1>3, <2>2, <2>3 DEF JoiningOK
  <2> QED
    BY <1>4, <2>4, JoinIsPlay
<1>5. ASSUME NEW c \in Callers, FailJoin(c)
      PROVE  GameChange /\ JoiningOK'
  BY <1>3, <1>5 DEF FailJoin, GameChange, CallStep, JoiningOK
<1>6. ASSUME NEW k \in DOMAIN cycles, NEW u \in Users, NEW coin \in Coins,
             NEW q \in Quantities, NEW now \in 0 .. clock,
             BuyRoundTrade(k, u, coin, q, now) \/ SellRoundTrade(k, u, coin, q, now)
      PROVE  GameChange /\ JoiningOK'
  <2>1. PlayStep
    <3>1. q \in Nat \ {0}
      BY RoundAssumption
    <3> QED
      BY <1>6, <3>1, BuyIsPlay, SellIsPlay
  <2>2. UNCHANGED joining
    BY <1>6 DEF BuyRoundTrade, SellRoundTrade
  <2> QED
    BY <2>1, <2>2 DEF GameChange, JoiningOK
<1> QED
  BY <1>1, <1>2, <1>4, <1>5, <1>6 DEF RoundStep

-----------------------------------------------------------------------------
(* What a play keeps.                                                      *)

(* Nobody leaves or is renumbered, and nobody in is finalized.             *)
LEMMA PlayOK ==
  ASSUME NEW y, CycleOK(y), WholeOK(y), y.status = "ACTIVE", NEW ps, Play(y, ps)
  PROVE  /\ ps \in [Users -> Participant]
         /\ Joined(y.participants) \subseteq Joined(ps)
         /\ \A u \in Users : ParticipantOK(ps[u]) /\ ps[u].status # "FINALIZED"
         /\ Numbered(y.participants) => Numbered(ps)
<1>1. /\ y.participants \in [Users -> Participant]
      /\ \A u \in Users : /\ ParticipantOK(y.participants[u])
                           /\ y.participants[u].status # "FINALIZED"
  BY DEF CycleOK, Cycle, WholeOK
<1>2. ASSUME NEW u \in Users, ps = Enrolled(y.participants, {u})
      PROVE  /\ ps \in [Users -> Participant]
             /\ Joined(y.participants) \subseteq Joined(ps)
             /\ \A v \in Users : ParticipantOK(ps[v]) /\ ps[v].status # "FINALIZED"
             /\ Numbered(y.participants) => Numbered(ps)
  <2>1. {u} \in SUBSET Users
    OBVIOUS
  <2>2. /\ ps \in [Users -> Participant]
        /\ \A v \in Users :
             /\ ParticipantOK(ps[v])
             /\ ps[v].status = "FINALIZED" => y.participants[v].status = "FINALIZED"
             /\ v \in Joined(y.participants) => ps[v] = y.participants[v]
    BY <1>1, <1>2, <2>1, EnrolledOK
  <2>3. Numbered(y.participants) => Numbered(ps)
    BY <1>1, <1>2, <2>1, EnrolledNumbered
  <2> QED
    BY <1>1, <2>2, <2>3 DEF Joined
<1>3. ASSUME NEW u \in Joined(y.participants), NEW coin \in Coins,
             NEW new \in Participant, Dealt(y, y.participants[u], new, coin),
             ps = [y.participants EXCEPT ![u] = new]
      PROVE  /\ ps \in [Users -> Participant]
             /\ Joined(y.participants) \subseteq Joined(ps)
             /\ \A v \in Users : ParticipantOK(ps[v]) /\ ps[v].status # "FINALIZED"
             /\ Numbered(y.participants) => Numbered(ps)
  <2>1. /\ new.status = "ACTIVE" /\ y.participants[u].status = "ACTIVE"
        /\ new.id = y.participants[u].id /\ new.final = y.participants[u].final
    BY <1>3 DEF Dealt
  <2>2. \A v \in Users : ps[v] = IF v = u THEN new ELSE y.participants[v]
    BY <1>1, <1>3
  <2>3. ps \in [Users -> Participant] /\ Joined(ps) = Joined(y.participants)
    BY <1>1, <1>3, <2>1, <2>2 DEF Joined
  <2>4. \A v \in Users : ParticipantOK(ps[v]) /\ ps[v].status # "FINALIZED"
    BY <1>1, <2>1, <2>2 DEF ParticipantOK
  <2>5. \A v \in Users : ps[v].id = y.participants[v].id
    BY <2>1, <2>2
  <2>6. Numbered(y.participants) => Numbered(ps)
    BY <2>3, <2>5, JoinedFinite DEF Numbered
  <2> QED
    BY <2>3, <2>4, <2>6
<1> QED
  BY <1>2, <1>3 DEF Play

(* So the cycle stays as it must be.                                       *)
LEMMA PlayedOK ==
  ASSUME NEW y, CycleOK(y), WholeOK(y), y.status = "ACTIVE", NEW ps, Play(y, ps),
         NEW now, Law(y, now)
  PROVE  LET z == Played(y, ps)
         IN  /\ CycleOK(z) /\ WholeOK(z) /\ Law(z, now)
             /\ z.status = "ACTIVE" /\ z.participants = ps
             /\ z.schedule = y.schedule
<1> DEFINE z == Played(y, ps)
<1>1. y \in Cycle
  BY DEF CycleOK
<1>2. /\ ps \in [Users -> Participant]
      /\ \A u \in Users : ParticipantOK(ps[u]) /\ ps[u].status # "FINALIZED"
      /\ Numbered(ps)
  BY PlayOK DEF Law
<1>3. /\ z \in Cycle /\ z.participants = ps /\ z.status = "ACTIVE"
      /\ z.schedule = y.schedule /\ z.start = y.start /\ z.end = y.end
      /\ z.results = y.results
  BY <1>1, <1>2 DEF Played, Cycle
<1> HIDE DEF z
<1>4. CycleOK(z)
  BY <1>2, <1>3 DEF CycleOK, RowOK
<1>5. WholeOK(z)
  BY <1>2, <1>3 DEF WholeOK
<1>6. Law(z, now)
  BY <1>2, <1>3 DEF Law, AliveAt
<1> QED
  BY <1>3, <1>4, <1>5, <1>6 DEF z

-----------------------------------------------------------------------------
(* The inductive invariant under the steps of the composition.             *)

(* The table after a play: one cycle, still ACTIVE, has new participants.  *)
LEMMA PlayedTable ==
  ASSUME LawfulInvariant, NEW k \in InStatus("ACTIVE"), NEW ps,
         Play(cycles[k], ps), Replaced(k, Played(cycles[k], ps))
  PROVE  /\ cycles' \in Seq(Cycle)
         /\ DOMAIN cycles' = DOMAIN cycles /\ k \in DOMAIN cycles
         /\ \A j \in DOMAIN cycles :
              /\ CycleOK(cycles'[j]) /\ WholeOK(cycles'[j]) /\ Law(cycles'[j], clock)
              /\ cycles'[j].status = cycles[j].status
              /\ cycles'[j].schedule = cycles[j].schedule
              /\ j # k => cycles'[j] = cycles[j]
         /\ cycles'[k].participants = ps
<1> DEFINE z == Played(cycles[k], ps)
<1>1. cycles \in Seq(Cycle) /\ AllOK /\ Lawful
  BY InvariantParts DEF LawfulInvariant
<1>2. k \in DOMAIN cycles /\ cycles[k].status = "ACTIVE"
  BY DEF InStatus
<1>3. /\ CycleOK(z) /\ WholeOK(z) /\ Law(z, clock)
      /\ z.status = "ACTIVE" /\ z.participants = ps
      /\ z.schedule = cycles[k].schedule
  BY <1>1, <1>2, PlayedOK DEF AllOK, Lawful
<1>4. z \in Cycle /\ Replaced(k, z)
  BY <1>3 DEF CycleOK
<1> HIDE DEF z
<1>5. /\ cycles' \in Seq(Cycle)
      /\ DOMAIN cycles' = DOMAIN cycles
      /\ \A j \in DOMAIN cycles : cycles'[j] = IF j = k THEN z ELSE cycles[j]
  BY <1>1, <1>2, <1>4, ReplacedTable
<1> QED
  BY <1>1, <1>2, <1>3, <1>5 DEF AllOK, Lawful

(* The parts of the invariant, after a step.                               *)
LEMMA InvariantAfter ==
  ASSUME RestOK', cycles' \in Seq(Cycle), AllOK', SingleLiveCycle'
  PROVE  Invariant'
<1>1. TypeOK'
  BY LenProperties, ElementOfSeq DEF TypeOK, RestOK, AllOK, CycleOK
<1>2. SettledWhole'
  BY DEF SettledWhole, AllOK, WholeOK
<1> QED
  BY <1>1, <1>2 DEF Invariant

(* LawfulInvariant is inductive for joins and trades too.                  *)
LEMMA ChangeStep == LawfulInvariant /\ GameChange => LawfulInvariant'
<1> SUFFICES ASSUME LawfulInvariant, GameChange PROVE LawfulInvariant'
  OBVIOUS
<1>1. RestOK /\ cycles \in Seq(Cycle) /\ AllOK /\ SingleLiveCycle
      /\ Lawful /\ NowNotAhead
  BY InvariantParts DEF LawfulInvariant
<1>2. CASE [Next]_vars
  BY <1>2, LawfulInvariantStep
<1>3. CASE CallStep
  <2>1. UNCHANGED <<clock, users, cycles, price>>
    BY <1>3 DEF CallStep
  <2>2. PICK c \in Callers : \/ Goto(c, "freeze")
                            \/ call' = [call EXCEPT ![c] = [phase |-> "idle", now |-> 0]]
    BY <1>3 DEF CallStep
  <2>3. 0 \in 0 .. MaxClock /\ clock \in Nat
    BY CycleAssumption, <1>1 DEF RestOK
  <2>4. RestOK' /\ NowNotAhead'
    <3>1. RestOK'
      BY <1>1, <2>1, <2>2, <2>3 DEF RestOK, Goto
    <3>2. \A d \in Callers : call'[d].now = call[d].now \/ call'[d].now = 0
      BY <1>1, <2>2 DEF RestOK, Goto
    <3>3. \A d \in Callers : call[d].now <= clock
      BY <1>1 DEF NowNotAhead
    <3>4. NowNotAhead'
      BY <2>1, <2>3, <3>2, <3>3 DEF NowNotAhead
    <3> QED
      BY <3>1, <3>4
  <2>5. AllOK' /\ SingleLiveCycle' /\ Lawful' /\ cycles' \in Seq(Cycle)
    BY <1>1, <2>1 DEF AllOK, SingleLiveCycle, Lawful
  <2>6. Invariant'
    BY <2>4, <2>5, InvariantAfter
  <2> QED
    BY <2>4, <2>5, <2>6 DEF LawfulInvariant
<1>4. CASE PlayStep
  <2>1. UNCHANGED <<clock, users, price, call>>
    BY <1>4 DEF PlayStep
  <2>2. PICK k \in InStatus("ACTIVE") : \E ps :
               Play(cycles[k], ps) /\ Replaced(k, Played(cycles[k], ps))
    BY <1>4 DEF PlayStep
  <2>3. /\ cycles' \in Seq(Cycle)
        /\ DOMAIN cycles' = DOMAIN cycles
        /\ \A j \in DOMAIN cycles :
             /\ CycleOK(cycles'[j]) /\ WholeOK(cycles'[j]) /\ Law(cycles'[j], clock)
             /\ cycles'[j].status = cycles[j].status
    BY <2>2, PlayedTable
  <2>4. RestOK' /\ NowNotAhead'
    BY <1>1, <2>1 DEF RestOK, NowNotAhead
  <2>5. AllOK' /\ SingleLiveCycle' /\ Lawful'
    BY <1>1, <2>1, <2>3 DEF AllOK, SingleLiveCycle, Lawful
  <2>6. Invariant'
    BY <2>3, <2>4, <2>5, InvariantAfter
  <2> QED
    BY <2>4, <2>5, <2>6 DEF LawfulInvariant
<1> QED
  BY <1>2, <1>3, <1>4 DEF GameChange

(* No such step takes a cycle away, or touches one that is COMPLETED.      *)
LEMMA ChangeGrows ==
  ASSUME LawfulInvariant, GameChange
  PROVE  /\ DOMAIN cycles \subseteq DOMAIN cycles'
         /\ \A k \in InStatus("COMPLETED") : cycles'[k] = cycles[k]
<1>1. CASE [Next]_vars
  BY <1>1, TableGrows DEF LawfulInvariant
<1>2. CASE CallStep
  BY <1>2 DEF CallStep, InStatus
<1>3. CASE PlayStep
  <2>1. PICK j \in InStatus("ACTIVE") :
               \E ps : Play(cycles[j], ps) /\ Replaced(j, Played(cycles[j], ps))
    BY <1>3 DEF PlayStep
  <2>2. /\ DOMAIN cycles' = DOMAIN cycles
        /\ \A k \in DOMAIN cycles : k # j => cycles'[k] = cycles[k]
    BY <2>1, PlayedTable
  <2> QED
    BY <2>1, <2>2 DEF InStatus
<1> QED
  BY <1>1, <1>2, <1>3 DEF GameChange

(* What a step leaves of a cycle it finds: its enrolment, or what one play *)
(* in it, the cycle being ACTIVE, makes of its participants.               *)
CycleKept(y, z) ==
  \/ EnrolmentKept(y, z)
  \/ y.status = "ACTIVE" /\ Play(y, z.participants)

(* So does every step of the composition, of every cycle it finds.         *)
LEMMA ChangeKeeps ==
  ASSUME LawfulInvariant, GameChange, NEW k \in DOMAIN cycles
  PROVE  CycleKept(cycles[k], cycles'[k])
<1>1. cycles[k] \in Cycle
  BY InvariantParts DEF LawfulInvariant, AllOK, CycleOK
<1>2. CASE [Next]_vars
  BY <1>2, StepKeeps DEF LawfulInvariant, CycleKept
<1>3. CASE cycles'[k] = cycles[k]
  BY <1>1, <1>3, UntouchedKept DEF CycleKept
<1>4. CASE CallStep
  BY <1>3, <1>4 DEF CallStep
<1>5. CASE PlayStep
  <2>1. PICK j \in InStatus("ACTIVE") : \E ps :
               Play(cycles[j], ps) /\ Replaced(j, Played(cycles[j], ps))
    BY <1>5 DEF PlayStep
  <2>2. PICK ps : Play(cycles[j], ps) /\ Replaced(j, Played(cycles[j], ps))
    BY <2>1
  <2>3. k # j => cycles'[k] = cycles[k]
    BY <2>2, PlayedTable
  <2>4. cycles'[j].participants = ps
    BY <2>2, PlayedTable
  <2>5. CASE k = j
    BY <2>1, <2>2, <2>4, <2>5 DEF CycleKept, InStatus
  <2> QED
    BY <1>3, <2>3, <2>5
<1> QED
  BY <1>2, <1>4, <1>5 DEF GameChange

(* What a play does to somebody who was in: nothing, or one trade.         *)
LEMMA PlayEach ==
  ASSUME NEW y \in Cycle, NEW ps, Play(y, ps), NEW u \in Joined(y.participants)
  PROVE  \/ ps[u] = y.participants[u]
         \/ /\ ps[u] \in Participant
            /\ \E coin \in Coins : Dealt(y, y.participants[u], ps[u], coin)
<1>1. y.participants \in [Users -> Participant] /\ u \in Users
  BY JoinedFinite DEF Cycle
<1>2. ASSUME NEW v \in Users, ps = Enrolled(y.participants, {v})
      PROVE  ps[u] = y.participants[u]
  BY <1>1, <1>2 DEF Enrolled
<1>3. ASSUME NEW v \in Joined(y.participants), NEW coin \in Coins,
             NEW new \in Participant, Dealt(y, y.participants[v], new, coin),
             ps = [y.participants EXCEPT ![v] = new]
      PROVE  \/ ps[u] = y.participants[u]
             \/ /\ ps[u] \in Participant
                /\ Dealt(y, y.participants[u], ps[u], coin)
  <2>1. ps[u] = IF u = v THEN new ELSE y.participants[u]
    BY <1>1, <1>3
  <2> QED
    BY <1>3, <2>1
<1> QED
  BY <1>2, <1>3 DEF Play

-----------------------------------------------------------------------------
(* Theorems.                                                               *)

RoundInvariant == LawfulInvariant /\ JoiningOK

(* The composition starts as its parts do, and every step of it is one of  *)
(* the three.                                                              *)
LEMMA RoundInvariantInit == RoundInit => RoundInvariant
<1> SUFFICES ASSUME RoundInit PROVE RoundInvariant
  OBVIOUS
<1>1. NoJoin \in Join
  BY RoundAssumption DEF NoJoin, Join
<1>2. JoiningOK
  BY <1>1 DEF RoundInit, JoiningOK
<1> QED
  BY <1>2, InvariantInit, LawInit DEF RoundInit, RoundInvariant, LawfulInvariant

(* Every step changes the game as a call, a join or a trade does.          *)
LEMMA RoundIsChange ==
  ASSUME RoundInvariant, [RoundNext]_roundVars
  PROVE  GameChange /\ RoundInvariant'
<1>1. GameChange /\ JoiningOK'
  <2>1. RestOK /\ TableOK
    BY TypeOKParts DEF RoundInvariant, LawfulInvariant, Invariant
  <2>2. CASE RoundNext
    <3>1. LifecycleStep(Callers) \/ RoundStep(Callers, Users)
      BY <2>2 DEF RoundNext
    <3> QED
      BY <2>1, <3>1, RoundCases DEF RoundInvariant
  <2>3. CASE UNCHANGED roundVars
    BY <2>3 DEF roundVars, vars, GameChange, RoundInvariant, JoiningOK
  <2> QED
    BY <2>2, <2>3
<1> QED
  BY <1>1, ChangeStep DEF RoundInvariant

(* Everything GameCycleProofs establishes holds under joins and trades.    *)
THEOREM RoundInvariantHolds == RoundSpec => []RoundInvariant
<1>1. RoundInvariant /\ [RoundNext]_roundVars => RoundInvariant'
  BY RoundIsChange
<1> QED
  BY <1>1, RoundInvariantInit, PTL DEF RoundSpec

(* Cash and holdings never go negative and every row keeps its type        *)
(* (gameRoundService and the CHECK constraints of migration 009).          *)
THEOREM RoundTypeCorrect == RoundSpec => []RoundTypeOK
<1>1. RoundInvariant => RoundTypeOK
  BY DEF RoundInvariant, LawfulInvariant, Invariant, RoundTypeOK, JoiningOK
<1> QED
  BY <1>1, RoundInvariantHolds, PTL

(* The final table is ordered by the cash players ended with, whatever     *)
(* they traded (snapshotCycleResults).                                     *)
THEOREM FinalTableByCash == RoundSpec => []RankedByCash
<1>1. RoundInvariant => RankedByCash
  BY DEF RoundInvariant, LawfulInvariant, Lawful, Law, FairRanks, RankedByCash,
         InStatus
<1> QED
  BY <1>1, RoundInvariantHolds, PTL

(* A COMPLETED cycle is history for players too: no join and no trade      *)
(* touches it or its rows again (lockLiveCycle's status condition).        *)
THEOREM HistoryStaysFinal == RoundSpec => HistoryIsFinal
<1>1. RoundInvariant /\ [RoundNext]_roundVars
      => [\A k \in DOMAIN cycles :
            cycles[k].status = "COMPLETED" => cycles'[k] = cycles[k]]_vars
  BY RoundIsChange, ChangeGrows DEF InStatus, RoundInvariant
<1> QED
  BY <1>1, RoundInvariantHolds, PTL DEF RoundSpec, HistoryIsFinal

(* Every step of the composition, seen by one cycle.                       *)
LEMMA RoundKeeps ==
  ASSUME RoundInvariant, [RoundNext]_roundVars, NEW k \in DOMAIN cycles
  PROVE  CycleKept(cycles[k], cycles'[k]) /\ cycles[k] \in Cycle
<1>1. RestOK /\ TableOK /\ cycles[k] \in Cycle
  BY TypeOKParts DEF RoundInvariant, LawfulInvariant, Invariant, TableOK, CycleOK
<1>2. GameChange
  <2>1. CASE RoundNext
    <3>1. LifecycleStep(Callers) \/ RoundStep(Callers, Users)
      BY <2>1 DEF RoundNext
    <3> QED
      BY <1>1, <3>1, RoundCases DEF RoundInvariant
  <2>2. CASE UNCHANGED roundVars
    BY <2>2 DEF roundVars, vars, GameChange
  <2> QED
    BY <2>1, <2>2
<1> QED
  BY <1>1, <1>2, ChangeKeeps DEF RoundInvariant

(* Nobody already in gets something for nothing by what happens to a cycle.*)
LEMMA KeptIsFair ==
  ASSUME NEW y \in Cycle, NEW z, CycleKept(y, z), NEW u \in Joined(y.participants)
  PROVE  LET p == y.participants[u]
             q == z.participants[u]
         IN  /\ (\E c \in Coins : q.holds[c] > p.holds[c]) => q.cash < p.cash
             /\ q.cash > p.cash => \E c \in Coins : q.holds[c] < p.holds[c]
             /\ \A c \in Coins :
                  q.holds[c] < p.holds[c] /\ price[c] > 0 => q.cash > p.cash
             /\ y.status # "ACTIVE" => q.cash = p.cash /\ q.holds = p.holds
<1> DEFINE p == y.participants[u]
           q == z.participants[u]
<1>1. p \in Participant
  BY JoinedFinite DEF Cycle
<1>2. /\ p.cash \in Nat
      /\ \A c \in Coins : p.holds[c] \in Nat
  BY <1>1 DEF Participant
<1>3. CASE q.cash = p.cash /\ q.holds = p.holds
  BY <1>2, <1>3
<1>4. ASSUME NEW coin \in Coins, Dealt(y, p, q, coin), q \in Participant,
             y.status = "ACTIVE"
      PROVE  /\ (\E c \in Coins : q.holds[c] > p.holds[c]) => q.cash < p.cash
             /\ q.cash > p.cash => \E c \in Coins : q.holds[c] < p.holds[c]
             /\ \A c \in Coins :
                  q.holds[c] < p.holds[c] /\ price[c] > 0 => q.cash > p.cash
  <2>1. q.cash \in Nat /\ \A c \in Coins : q.holds[c] \in Nat
    BY <1>4 DEF Participant
  <2>2. /\ \A c \in Coins \ {coin} : q.holds[c] = p.holds[c]
        /\ \/ q.holds[coin] > p.holds[coin] /\ q.cash < p.cash
           \/ /\ q.holds[coin] < p.holds[coin] /\ q.cash >= p.cash
              /\ price[coin] > 0 => q.cash > p.cash
    BY <1>4 DEF Dealt, FairDeal
  <2> HIDE DEF p, q
  <2> QED
    BY <1>2, <2>1, <2>2
<1>5. CASE EnrolmentKept(y, z)
  BY <1>3, <1>5 DEF EnrolmentKept
<1>6. CASE y.status = "ACTIVE" /\ Play(y, z.participants)
  <2>1. \/ q = p
        \/ q \in Participant /\ \E coin \in Coins : Dealt(y, p, q, coin)
    BY <1>6, PlayEach
  <2> QED
    BY <1>3, <1>4, <1>6, <2>1
<1> QED
  BY <1>5, <1>6 DEF CycleKept

(* Holdings grow only when cash falls and cash only when a holding does,   *)
(* and no coin still worth something is given away: no join, rollover or   *)
(* settlement repeated or interleaved mints either (gameRoundService).     *)
THEOREM NothingMinted == RoundSpec => NothingForFree
<1>1. RoundInvariant /\ [RoundNext]_roundVars
      => [EachParticipant(LAMBDA k, p, q :
            /\ (\E c \in Coins : q.holds[c] > p.holds[c]) => q.cash < p.cash
            /\ q.cash > p.cash => \E c \in Coins : q.holds[c] < p.holds[c]
            /\ \A c \in Coins :
                 q.holds[c] < p.holds[c] /\ price[c] > 0 => q.cash > p.cash)]_roundVars
  BY RoundKeeps, KeptIsFair DEF EachParticipant
<1> QED
  BY <1>1, RoundInvariantHolds, PTL DEF RoundSpec, NothingForFree

(* Nobody already in is enrolled anew: a kept enrolment moves nothing, and *)
(* a play moves what one trade moves.                                      *)
LEMMA KeptIsOnce ==
  ASSUME NEW y \in Cycle, NEW z, CycleKept(y, z),
         NEW u \in Joined(y.participants)
  PROVE  LET p == y.participants[u]
             q == z.participants[u]
         IN  /\ q.id = p.id /\ p.peak <= q.peak
             /\ p.status = "FINALIZED" => q = p
             /\ q.cash # p.cash \/ q.holds # p.holds =>
                  /\ UNCHANGED <<clock, users, price, call, joining>>
                  /\ \E coin \in Coins : FairDeal(p, q, coin)
<1> DEFINE p == y.participants[u]
           q == z.participants[u]
<1>1. p.peak \in Nat
  BY JoinedFinite DEF Cycle, Participant
<1>2. CASE EnrolmentKept(y, z)
  BY <1>2 DEF EnrolmentKept
<1>3. CASE y.status = "ACTIVE" /\ Play(y, z.participants)
  <2>1. \/ q = p
        \/ q \in Participant /\ \E coin \in Coins : Dealt(y, p, q, coin)
    BY <1>3, PlayEach
  <2>2. CASE q = p
    BY <1>1, <2>2
  <2>3. ASSUME NEW coin \in Coins, Dealt(y, p, q, coin)
        PROVE  /\ q.id = p.id /\ p.peak <= q.peak /\ p.status # "FINALIZED"
               /\ UNCHANGED <<clock, users, price, call, joining>>
               /\ FairDeal(p, q, coin)
    BY <2>3 DEF Dealt
  <2> QED
    BY <2>1, <2>2, <2>3
<1> QED
  BY <1>2, <1>3 DEF CycleKept

(* Taking part is once and for all: no join asked for again, no            *)
(* reconciliation, retry or settlement renumbers, resets or rewards        *)
(* anybody; single trades at the live price are all that moves cash and    *)
(* holdings (the ON CONFLICT clauses of gameRoundService).                 *)
THEOREM NobodyStartsOver == RoundSpec => EnrolledOnce
<1>1. RoundInvariant /\ [RoundNext]_roundVars
      => [EachParticipant(LAMBDA k, p, q :
            /\ q.id = p.id /\ p.peak <= q.peak
            /\ p.status = "FINALIZED" => q = p
            /\ q.cash # p.cash \/ q.holds # p.holds =>
                 /\ UNCHANGED <<clock, users, price, call, joining>>
                 /\ \E coin \in Coins : FairDeal(p, q, coin))]_roundVars
  BY RoundKeeps, KeptIsOnce DEF EachParticipant
<1> QED
  BY <1>1, RoundInvariantHolds, PTL DEF RoundSpec, EnrolledOnce

(* Once a cycle is frozen nobody joins it and nobody trades in it, however *)
(* old the `now` of the request (lockLiveCycle).                           *)
THEOREM FrozenForGood == RoundSpec => FrozenIsFrozen
<1>1. RoundInvariant /\ [RoundNext]_roundVars
      => [\A k \in DOMAIN cycles : cycles[k].status # "ACTIVE" =>
            /\ Joined(cycles'[k].participants) = Joined(cycles[k].participants)
            /\ EachParticipant(LAMBDA j, p, q :
                 j = k => q.cash = p.cash /\ q.holds = p.holds)]_roundVars
  <2> SUFFICES ASSUME RoundInvariant, [RoundNext]_roundVars,
                      NEW k \in DOMAIN cycles, cycles[k].status # "ACTIVE"
               PROVE  /\ Joined(cycles'[k].participants) = Joined(cycles[k].participants)
                      /\ \A u \in Joined(cycles[k].participants) :
                           /\ cycles'[k].participants[u].cash
                                = cycles[k].participants[u].cash
                           /\ cycles'[k].participants[u].holds
                                = cycles[k].participants[u].holds
    BY DEF EachParticipant
  <2>1. CycleKept(cycles[k], cycles'[k])
    BY RoundKeeps
  <2> QED
    BY <2>1 DEF CycleKept, EnrolmentKept
<1> QED
  BY <1>1, RoundInvariantHolds, PTL DEF RoundSpec, FrozenIsFrozen

-----------------------------------------------------------------------------
(* The rounds, under joins and trades.                                     *)

(* A play leaves every cycle its window, status, schedule and results.     *)
LEMMA PlayLeaves ==
  ASSUME LawfulInvariant, PlayStep
  PROVE  /\ DOMAIN cycles' = DOMAIN cycles
         /\ \A j \in DOMAIN cycles :
              /\ cycles'[j].start = cycles[j].start
              /\ cycles'[j].end = cycles[j].end
              /\ cycles'[j].status = cycles[j].status
              /\ cycles'[j].schedule = cycles[j].schedule
              /\ cycles'[j].results = cycles[j].results
         /\ price' = price /\ call' = call
<1>1. PICK k \in InStatus("ACTIVE") : \E ps :
             Play(cycles[k], ps) /\ Replaced(k, Played(cycles[k], ps))
  BY DEF PlayStep
<1>2. PICK ps : Play(cycles[k], ps) /\ Replaced(k, Played(cycles[k], ps))
  BY <1>1
<1>3. /\ DOMAIN cycles' = DOMAIN cycles /\ k \in DOMAIN cycles
      /\ \A j \in DOMAIN cycles : j # k => cycles'[j] = cycles[j]
  BY <1>2, PlayedTable
<1>4. cycles'[k] = Played(cycles[k], ps)
  BY <1>2, <1>3 DEF Replaced
<1>5. cycles[k] \in Cycle
  BY <1>3, InvariantParts DEF LawfulInvariant, AllOK, CycleOK
<1>6. /\ cycles'[k].start = cycles[k].start /\ cycles'[k].end = cycles[k].end
      /\ cycles'[k].status = cycles[k].status
      /\ cycles'[k].schedule = cycles[k].schedule
      /\ cycles'[k].results = cycles[k].results
  BY <1>4, <1>5 DEF Played, Cycle
<1> QED
  BY <1>3, <1>6 DEF PlayStep

(* So plays do not disturb the rounds ...                                  *)
LEMMA ChangeRefines ==
  ASSUME LawfulInvariant, GameChange
  PROVE  /\ Chained' => [Lifecycle!LifecycleNext]_Rounds
         /\ [\/ Lifecycle!OpenHurriedly
             \/ Lifecycle!CloseInTurn
             \/ Lifecycle!Publish]_Rounds
<1>1. CASE [Next]_vars
  BY <1>1, RefineSteps
<1>2. CASE CallStep
  BY <1>2 DEF CallStep, Rounds
<1>3. CASE PlayStep
  <2>1. /\ DOMAIN cycles' = DOMAIN cycles
        /\ \A j \in DOMAIN cycles :
             /\ cycles'[j].start = cycles[j].start
             /\ cycles'[j].end = cycles[j].end
             /\ cycles'[j].status = cycles[j].status
             /\ cycles'[j].results = cycles[j].results
    BY <1>3, PlayLeaves
  <2>2. \A j \in DOMAIN cycles : RoundOf(cycles'[j]) = RoundOf(cycles[j])
    BY <2>1 DEF RoundOf
  <2>3. Rounds' = Rounds
    BY <2>1, <2>2 DEF Rounds, RoundsOf
  <2> QED
    BY <2>3
<1> QED
  BY <1>1, <1>2, <1>3 DEF GameChange

(* ... nor the order they keep when each opens alone.                      *)
LEMMA SoloChange ==
  ASSUME LawfulInvariant, Solo, GameChange, [OpensAlone]_cycles
  PROVE  Solo'
<1>1. CASE [Next]_vars
  BY <1>1, SoloStep DEF LawfulInvariant
<1>2. CASE CallStep
  BY <1>2, SoloStays DEF CallStep
<1>3. CASE PlayStep
  <2>1. /\ DOMAIN cycles' = DOMAIN cycles
        /\ \A j \in DOMAIN cycles :
             /\ cycles'[j].start = cycles[j].start
             /\ cycles'[j].end = cycles[j].end
             /\ cycles'[j].status = cycles[j].status
             /\ cycles'[j].schedule = cycles[j].schedule
        /\ price' = price
    BY <1>3, PlayLeaves
  <2>2. InStatus("SETTLING")' = InStatus("SETTLING")
        /\ InStatus("ACTIVE")' = InStatus("ACTIVE")
    BY <2>1 DEF InStatus
  <2>3. Chained'
    <3>1. DOMAIN cycles = 1 .. Len(cycles) /\ Len(cycles) \in Nat
      BY InvariantParts, LenProperties DEF LawfulInvariant
    <3> SUFFICES ASSUME NEW k \in DOMAIN cycles, k > 1
                 PROVE  /\ cycles'[k].start = cycles'[k - 1].end
                        /\ cycles'[k - 1].status = "COMPLETED"
      BY <2>1 DEF Chained
    <3>2. k - 1 \in DOMAIN cycles
      BY <3>1
    <3> QED
      BY <2>1, <3>2 DEF Solo, Chained
  <2>4. NoOverlap'
    BY <2>1 DEF Solo, NoOverlap
  <2>5. PriceTellsDeath'
    BY <2>1, <2>2 DEF Solo, PriceTellsDeath, InStatus
  <2> QED
    BY <2>3, <2>4, <2>5 DEF Solo
<1> QED
  BY <1>1, <1>2, <1>3 DEF GameChange

(* Then prices, too, are those of the one live cycle throughout.           *)
THEOREM SoloHolds == RoundSpec /\ [][OpensAlone]_cycles => []Solo
<1>1. RoundInvariant /\ Solo /\ [RoundNext]_roundVars /\ [OpensAlone]_cycles => Solo'
  BY RoundIsChange, SoloChange DEF RoundInvariant
<1>2. RoundInit => Solo
  BY SoloInit DEF RoundInit
<1> QED
  BY <1>1, <1>2, RoundInvariantHolds, PTL DEF RoundSpec

(* With any number of callers, and of players joining and trading, a round *)
(* opens where the one before it, settled, ended, as long as none is       *)
(* opened beside one that is SETTLING (CreateActiveCycle, which looks for  *)
(* an ACTIVE row only).                                                    *)
THEOREM RoundsAreChained == RoundSpec /\ [][OpensAlone]_cycles => []Chained
<1>1. Solo => Chained
  BY DEF Solo
<1> QED
  BY <1>1, SoloHolds, PTL

(* Then the lifecycle with its trades keeps the promise of RoundLifecycle: *)
(* what is traded decides who ranks where, and nothing else about rounds.  *)
THEOREM RoundsAreImplemented ==
  RoundSpec /\ [][OpensAlone]_cycles => ImplementsLifecycle
<1>1. RoundInvariant /\ Chained' /\ [RoundNext]_roundVars
      => [Lifecycle!LifecycleNext]_Rounds
  BY RoundIsChange, ChangeRefines DEF RoundInvariant
<1>2. RoundInit => Lifecycle!LifecycleInit
  BY RefineInit DEF RoundInit
<1> QED
  BY <1>1, <1>2, RoundInvariantHolds, RoundsAreChained, PTL
     DEF RoundSpec, ImplementsLifecycle, Lifecycle!LifecycleSpec, Rounds, RoundsOf,
         RoundOf

(* And it keeps the promise in a hurry whatever calls, joins and trades    *)
(* overlap: rounds open and close one at a time, and each is published     *)
(* once, with everybody ranked 1 .. N by cash.                             *)
THEOREM RoundsInAHurry == RoundSpec => ImplementsHurried
<1>1. RoundInvariant /\ [RoundNext]_roundVars
        => [\/ Lifecycle!OpenHurriedly
            \/ Lifecycle!CloseInTurn
            \/ Lifecycle!Publish]_Rounds
  BY RoundIsChange, ChangeRefines DEF RoundInvariant
<1>2. RoundInit => Lifecycle!LifecycleInit
  BY RefineInit DEF RoundInit
<1> QED
  BY <1>1, <1>2, RoundInvariantHolds, PTL
     DEF RoundSpec, ImplementsHurried, Lifecycle!HurriedSpec, Rounds, RoundsOf, RoundOf

=============================================================================
