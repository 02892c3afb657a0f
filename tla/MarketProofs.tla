---------------------------- MODULE MarketProofs ----------------------------
(***************************************************************************)
(* The whole game (GameMarket): any number of simulator processes that     *)
(* start, stop and write prices beside the lifecycle and the players.      *)
(*                                                                         *)
(* A batch that is written is one more way to change the table of cycles:  *)
(* it lifts the peaks of the ACTIVE one.  That the peak covers a player's  *)
(* wealth is an invariant of participants and prices together (Covered):   *)
(* the lifecycle only lets prices fall while a cycle lives, a play and a   *)
(* batch lift the peak to the wealth they leave, and prices are restored   *)
(* only when nobody in a live cycle holds anything, the cycle being new.   *)
(***************************************************************************)
EXTENDS GameMarket, RoundProofs

-----------------------------------------------------------------------------
(* Peaks.                                                                  *)

(* Everybody's peak covers their wealth at these prices.                   *)
Covered(ps, prices) == \A u \in Joined(ps) : Wealth(ps[u], prices) <= ps[u].peak

(* PeakCoversWealth, cycle by cycle.                                       *)
LEMMA CoveredParts ==
  ASSUME AllOK, price \in [Coins -> Nat]
  PROVE  PeakCoversWealth
           <=> \A k \in InStatus("ACTIVE") : Covered(cycles[k].participants, price)
<1> SUFFICES ASSUME NEW k \in InStatus("ACTIVE"),
                    NEW u \in Joined(cycles[k].participants)
             PROVE  LET p == cycles[k].participants[u]
                    IN  p.peak >= Wealth(p, price) <=> Wealth(p, price) <= p.peak
  BY DEF PeakCoversWealth, Covered
<1> DEFINE p == cycles[k].participants[u]
<1>1. p \in Participant
  BY JoinedFinite DEF InStatus, AllOK, CycleOK, Cycle
<1>2. p.peak \in Nat /\ Wealth(p, price) \in Nat
  BY <1>1, WealthOK DEF Participant
<1> HIDE DEF p
<1> QED
  BY <1>2 DEF p

(* Lower prices leave it so, and so does everything that keeps the cash    *)
(* and the holdings of those in and lets no peak of theirs fall, when the  *)
(* newcomers hold nothing and have no more than their peak.                *)
LEMMA CoveredKept ==
  ASSUME NEW old \in [Users -> Participant], NEW new \in [Users -> Participant],
         NEW p \in [Coins -> Nat], NEW q \in [Coins -> Nat],
         \A c \in Coins : q[c] <= p[c],
         Covered(old, p),
         \A u \in Joined(new) :
           IF u \in Joined(old)
           THEN /\ new[u].cash = old[u].cash /\ new[u].holds = old[u].holds
                /\ old[u].peak <= new[u].peak
           ELSE /\ new[u].cash <= new[u].peak
                /\ \A c \in Coins : new[u].holds[c] = 0
  PROVE  Covered(new, q)
<1> SUFFICES ASSUME NEW u \in Joined(new) PROVE Wealth(new[u], q) <= new[u].peak
  BY DEF Covered
<1>1. u \in Users /\ new[u] \in Participant /\ old[u] \in Participant
  BY JoinedFinite
<1>2. /\ new[u].cash \in Nat /\ new[u].holds \in [Coins -> Nat] /\ new[u].peak \in Nat
      /\ old[u].cash \in Nat /\ old[u].holds \in [Coins -> Nat] /\ old[u].peak \in Nat
  BY <1>1 DEF Participant
<1>3. CASE u \in Joined(old)
  <2>1. /\ new[u].cash = old[u].cash /\ new[u].holds = old[u].holds
        /\ old[u].peak <= new[u].peak
    BY <1>3
  <2>2. Wealth(new[u], q) = Wealth(old[u], q)
    BY <2>1, WealthDepends
  <2>3. /\ Wealth(old[u], q) \in Nat /\ Wealth(old[u], p) \in Nat
        /\ Wealth(old[u], q) <= Wealth(old[u], p)
    BY <1>2, WealthOK
  <2>4. Wealth(old[u], p) <= old[u].peak
    BY <1>3 DEF Covered
  <2> QED
    BY <1>2, <2>1, <2>2, <2>3, <2>4
<1>4. CASE u \notin Joined(old)
  <2>1. new[u].cash <= new[u].peak /\ \A c \in Coins : new[u].holds[c] = 0
    BY <1>4
  <2>2. Wealth(new[u], q) = new[u].cash
    BY <1>2, <2>1, WealthOK
  <2> QED
    BY <2>1, <2>2
<1> QED
  BY <1>3, <1>4

(* A newcomer starts with a peak of exactly its cash.                      *)
LEMMA NewcomersCovered ==
  ASSUME NEW ps, NEW who, NEW u \in Joined(Enrolled(ps, who)), u \notin Joined(ps)
  PROVE  LET new == Enrolled(ps, who)[u]
         IN  new.cash <= new.peak /\ \A c \in Coins : new.holds[c] = 0
<1>1. u \in Users /\ u \in who
  BY DEF Joined, Enrolled
<1>2. \E id : Enrolled(ps, who)[u] = NewParticipant(id)
  BY <1>1 DEF Enrolled
<1> QED
  BY <1>2, CycleAssumption DEF NewParticipant

(* A new cycle's participants are newcomers all of them.                   *)
LEMMA NewCycleCovered ==
  ASSUME NEW start, NEW rows, users \subseteq Users, NEW q \in [Coins -> Nat]
  PROVE  Covered(NewCycle(start, rows).participants, q)
<1> DEFINE nobody == [u \in Users |-> Absent]
           new == Enrolled(nobody, users)
<1>1. /\ nobody \in [Users -> Participant] /\ Joined(nobody) = {}
      /\ \A u \in Users : ParticipantOK(nobody[u])
  BY NoOneYet DEF Joined, Absent
<1>2. NewCycle(start, rows).participants = new
  BY DEF NewCycle
<1>3. \A u \in Joined(new) : u \notin Joined(nobody)
  BY <1>1
<1> HIDE DEF nobody
<1>4. new \in [Users -> Participant]
  BY <1>1, EnrolledOK
<1>5. Covered(nobody, q)
  BY <1>1 DEF Covered
<1>6. \A u \in Joined(new) : /\ new[u].cash <= new[u].peak
                             /\ \A c \in Coins : new[u].holds[c] = 0
  BY <1>3, NewcomersCovered
<1>7. \A c \in Coins : q[c] <= q[c]
  OBVIOUS
<1>8. Covered(new, q)
  BY <1>1, <1>3, <1>4, <1>5, <1>6, <1>7, CoveredKept
<1> QED
  BY <1>2, <1>8

(* Enrolment and lower prices together.                                    *)
LEMMA EnrolledCovered ==
  ASSUME NEW ps \in [Users -> Participant], NEW who \in SUBSET Users,
         \A u \in Users : ParticipantOK(ps[u]),
         NEW p \in [Coins -> Nat], NEW q \in [Coins -> Nat],
         \A c \in Coins : q[c] <= p[c], Covered(ps, p)
  PROVE  Covered(Enrolled(ps, who), q)
<1> DEFINE new == Enrolled(ps, who)
<1>1. /\ new \in [Users -> Participant]
      /\ \A u \in Users : u \in Joined(ps) => new[u] = ps[u]
  BY EnrolledOK
<1>2. \A u \in Joined(new) : u \notin Joined(ps) =>
        /\ new[u].cash <= new[u].peak
        /\ \A c \in Coins : new[u].holds[c] = 0
  BY NewcomersCovered
<1>3. \A u \in Joined(new) : u \in Joined(ps) =>
        /\ new[u].cash = ps[u].cash /\ new[u].holds = ps[u].holds
        /\ ps[u].peak <= new[u].peak
  BY <1>1, JoinedFinite DEF Participant
<1> HIDE DEF new
<1>4. Covered(new, q)
  BY <1>1, <1>2, <1>3, CoveredKept
<1> QED
  BY <1>4 DEF new

(* A play lifts the one peak it has to.                                    *)
LEMMA PlayCovered ==
  ASSUME NEW y, CycleOK(y), NEW ps, Play(y, ps), price \in [Coins -> Nat],
         Covered(y.participants, price)
  PROVE  Covered(ps, price)
<1>1. /\ y.participants \in [Users -> Participant]
      /\ \A u \in Users : ParticipantOK(y.participants[u])
  BY DEF CycleOK, Cycle
<1>2. ASSUME NEW u \in Users, ps = Enrolled(y.participants, {u})
      PROVE  Covered(ps, price)
  <2>1. {u} \in SUBSET Users /\ \A c \in Coins : price[c] <= price[c]
    OBVIOUS
  <2> QED
    BY <1>1, <1>2, <2>1, EnrolledCovered
<1>3. ASSUME NEW u \in Joined(y.participants), NEW coin \in Coins,
             NEW new \in Participant, Dealt(y, y.participants[u], new, coin),
             ps = [y.participants EXCEPT ![u] = new]
      PROVE  Covered(ps, price)
  <2>1. \A v \in Users : ps[v] = IF v = u THEN new ELSE y.participants[v]
    BY <1>1, <1>3
  <2>2. Wealth(new, price) <= new.peak
    BY <1>3 DEF Dealt
  <2> QED
    BY <2>1, <2>2 DEF Covered, Joined
<1> QED
  BY <1>2, <1>3 DEF Play

-----------------------------------------------------------------------------
(* The lifecycle's own steps.                                              *)

(* They only lower prices, but when they open a new cycle.                 *)
LEMMA PriceSteps ==
  ASSUME RestOK, TableOK, [Next]_vars
  PROVE  \/ \A c \in Coins : price'[c] <= price[c]
         \/ /\ InStatus("ACTIVE") = {}
            /\ \E start \in Nat : \E rows \in Schedules(start, start + Duration) :
                 Appended(NewCycle(start, rows))
<1>1. price \in [Coins -> Nat] /\ \A c \in Coins : price[c] <= price[c]
  BY DEF RestOK
<1>2. \A rows, t : \A c \in Coins : Collapsed(rows, t, price)[c] <= price[c]
  BY <1>1 DEF Collapsed
<1>3. CASE price' = price
  BY <1>1, <1>3
<1>4. ASSUME NEW c \in Callers, SettleSettlingCycle(c)
      PROVE  \A d \in Coins : price'[d] <= price[d]
  BY <1>1, <1>2, <1>4 DEF SettleSettlingCycle
<1>5. ASSUME NEW c \in Callers, RecoverActiveCycle(c)
      PROVE  \A d \in Coins : price'[d] <= price[d]
  BY <1>1, <1>2, <1>5 DEF RecoverActiveCycle
<1>6. ASSUME NEW c \in Callers, CreateActiveCycle(c)
      PROVE  /\ InStatus("ACTIVE") = {}
             /\ \E start \in Nat : \E rows \in Schedules(start, start + Duration) :
                  Appended(NewCycle(start, rows))
  <2>1. call[c].now \in Nat
    BY DEF RestOK
  <2> QED
    BY <1>6, <2>1, StartTimesOK DEF CreateActiveCycle, Appended
<1>7. ASSUME NEW c \in Callers,
             Reconcile(c) \/ Fail(c) \/ FreezeExpiredActiveCycle(c)
      PROVE  price' = price
  BY <1>7 DEF Reconcile, Fail, FreezeExpiredActiveCycle
<1>8. CASE UNCHANGED vars \/ Tick \/ \E u \in Users : RegisterUser(u)
  BY <1>3, <1>8 DEF vars, Tick, RegisterUser
<1> QED
  BY <1>3, <1>4, <1>5, <1>6, <1>7, <1>8 DEF Next, CycleStep, EnsureActiveCycle

(* PeakCoversWealth, cycle by cycle, of the state after a step.            *)
LEMMA CoveredAfter ==
  ASSUME AllOK', price' \in [Coins -> Nat],
         \A k \in DOMAIN cycles' :
           cycles'[k].status = "ACTIVE" => Covered(cycles'[k].participants, price')
  PROVE  PeakCoversWealth'
<1>1. ASSUME NEW k \in DOMAIN cycles', NEW u \in Joined(cycles'[k].participants)
      PROVE  /\ cycles'[k].participants[u].peak \in Nat
             /\ Wealth(cycles'[k].participants[u], price') \in Nat
  <2> DEFINE p == cycles'[k].participants[u]
  <2>1. p \in Participant
    BY JoinedFinite DEF AllOK, CycleOK, Cycle
  <2> HIDE DEF p
  <2>2. p.peak \in Nat /\ Wealth(p, price') \in Nat
    BY <2>1, WealthOK DEF Participant
  <2> QED
    BY <2>2 DEF p
<1> QED
  BY <1>1 DEF PeakCoversWealth, Covered, InStatus

(* Peaks cover wealth after any step of the lifecycle.                     *)
LEMMA LifecycleCovers ==
  ASSUME Invariant, Invariant', PeakCoversWealth, [Next]_vars
  PROVE  PeakCoversWealth'
<1>1. /\ RestOK /\ TableOK /\ cycles \in Seq(Cycle) /\ AllOK
      /\ users \subseteq Users /\ price \in [Coins -> Nat]
  BY InvariantParts DEF TableOK, AllOK, RestOK
<1>2. price' \in [Coins -> Nat] /\ AllOK'
  BY DEF Invariant, TypeOK, AllOK, CycleOK, WholeOK, SettledWhole
<1>3. \A k \in DOMAIN cycles :
        cycles[k].status = "ACTIVE" => Covered(cycles[k].participants, price)
  BY <1>1, CoveredParts DEF InStatus
<1>4. \A k \in DOMAIN cycles :
        /\ CycleOK(cycles[k]) /\ WholeOK(cycles[k]) /\ cycles[k] \in Cycle
        /\ cycles[k].participants \in [Users -> Participant]
        /\ \A u \in Users : ParticipantOK(cycles[k].participants[u])
  BY <1>1 DEF AllOK, CycleOK, Cycle
<1>5. ASSUME InStatus("ACTIVE") = {}, NEW start \in Nat,
             NEW rows \in Schedules(start, start + Duration),
             Appended(NewCycle(start, rows))
      PROVE  PeakCoversWealth'
  <2> DEFINE z == NewCycle(start, rows)
  <2>1. z \in Cycle
    BY <1>1, NewCycleOK DEF CycleOK
  <2>2. Covered(z.participants, price')
    BY <1>1, <1>2, NewCycleCovered
  <2> HIDE DEF z
  <2>3. /\ DOMAIN cycles' = DOMAIN cycles \cup {Len(cycles) + 1}
        /\ cycles'[Len(cycles) + 1] = z
        /\ \A j \in DOMAIN cycles : cycles'[j] = cycles[j]
    BY <1>1, <1>5, <2>1, AppendedTable DEF z
  <2>4. \A j \in DOMAIN cycles : cycles[j].status # "ACTIVE"
    BY <1>5 DEF InStatus
  <2> QED
    BY <1>2, <2>2, <2>3, <2>4, CoveredAfter
<1>6. ASSUME \A c \in Coins : price'[c] <= price[c] PROVE PeakCoversWealth'
  <2>1. ASSUME NEW k \in DOMAIN cycles, cycles[k].status = "ACTIVE",
               NEW who \in SUBSET Users
        PROVE  Covered(Enrolled(cycles[k].participants, who), price')
    BY <1>1, <1>2, <1>3, <1>4, <1>6, <2>1, EnrolledCovered
  <2>2. ASSUME NEW k \in DOMAIN cycles, cycles[k].status = "ACTIVE"
        PROVE  Covered(cycles[k].participants, price')
    <3> DEFINE ps == cycles[k].participants
    <3>1. \A u \in Joined(ps) : ps[u].peak <= ps[u].peak
      BY <1>4, JoinedFinite DEF Participant
    <3>2. ps \in [Users -> Participant] /\ Covered(ps, price)
      BY <1>3, <1>4, <2>2
    <3> HIDE DEF ps
    <3>3. Covered(ps, price')
      BY <1>1, <1>2, <1>6, <3>1, <3>2, CoveredKept
    <3> QED
      BY <3>3 DEF ps
  <2>3. CASE cycles' = cycles
    BY <1>2, <2>2, <2>3, CoveredAfter
  <2>4. ASSUME NEW k \in DOMAIN cycles, NEW z \in Cycle, Replaced(k, z),
               z.status = "ACTIVE" => Covered(z.participants, price')
        PROVE  PeakCoversWealth'
    <3>1. /\ DOMAIN cycles' = DOMAIN cycles
          /\ \A j \in DOMAIN cycles : cycles'[j] = IF j = k THEN z ELSE cycles[j]
      BY <1>1, <2>4, ReplacedTable
    <3> QED
      BY <1>2, <2>2, <2>4, <3>1, CoveredAfter
  <2>5. ASSUME NEW k \in InStatus("ACTIVE"),
               Replaced(k, [cycles[k] EXCEPT !.status = "SETTLING"])
        PROVE  PeakCoversWealth'
    <3> DEFINE z == [cycles[k] EXCEPT !.status = "SETTLING"]
    <3>1. k \in DOMAIN cycles /\ z \in Cycle /\ z.status # "ACTIVE"
      BY <1>4 DEF Cycle, InStatus
    <3> HIDE DEF z
    <3> QED
      BY <2>4, <2>5, <3>1 DEF z
  <2>6. ASSUME NEW k \in InStatus("SETTLING"), NEW rows \in ScheduleChoices(cycles[k]),
               Replaced(k, Settled(cycles[k], rows))
        PROVE  PeakCoversWealth'
    <3> DEFINE z == Settled(cycles[k], rows)
    <3>1. k \in DOMAIN cycles /\ cycles[k].status = "SETTLING"
      BY DEF InStatus
    <3>2. z \in Cycle /\ z.status # "ACTIVE"
      BY <1>4, <3>1, SettledOK DEF CycleOK
    <3> HIDE DEF z
    <3> QED
      BY <2>4, <2>6, <3>1, <3>2 DEF z
  <2>7. ASSUME NEW k \in InStatus("ACTIVE"), NEW c \in Callers,
               NEW rows \in ScheduleChoices(cycles[k]),
               Replaced(k, Recovered(cycles[k], rows, call[c].now))
        PROVE  PeakCoversWealth'
    <3> DEFINE z == Recovered(cycles[k], rows, call[c].now)
    <3>1. k \in DOMAIN cycles /\ cycles[k].status = "ACTIVE" /\ call[c].now \in Nat
      BY <1>1 DEF InStatus, RestOK
    <3>2. z \in Cycle
      BY <1>1, <1>4, <3>1, RecoveredOK DEF CycleOK
    <3>3. z.participants = Enrolled(cycles[k].participants, users)
      BY <1>4, <3>1 DEF Recovered, Cycle
    <3> HIDE DEF z
    <3>4. Covered(z.participants, price')
      BY <1>1, <2>1, <3>1, <3>3
    <3> QED
      BY <2>4, <2>7, <3>1, <3>2, <3>4 DEF z
  <2> QED
    BY <1>1, <1>5, <2>3, <2>5, <2>6, <2>7, CycleSteps
<1> QED
  BY <1>1, <1>5, <1>6, PriceSteps

(* ... and after a play, for which no price moves.                         *)
LEMMA ChangeCovers ==
  ASSUME LawfulInvariant, PeakCoversWealth, GameChange
  PROVE  PeakCoversWealth'
<1>1. Invariant /\ Invariant'
  BY ChangeStep DEF LawfulInvariant
<1>2. RestOK /\ AllOK /\ price \in [Coins -> Nat]
  BY <1>1, InvariantParts DEF RestOK
<1>3. \A k \in DOMAIN cycles :
        cycles[k].status = "ACTIVE" => Covered(cycles[k].participants, price)
  BY <1>2, CoveredParts DEF InStatus
<1>4. price' \in [Coins -> Nat] /\ AllOK'
  BY <1>1 DEF Invariant, TypeOK, AllOK, CycleOK, WholeOK, SettledWhole
<1>5. CASE [Next]_vars
  BY <1>1, <1>5, LifecycleCovers
<1>6. CASE CallStep
  <2>1. cycles' = cycles /\ price' = price
    BY <1>6 DEF CallStep
  <2> QED
    BY <1>3, <1>4, <2>1, CoveredAfter
<1>7. CASE PlayStep
  <2>1. price' = price
    BY <1>7 DEF PlayStep
  <2>2. PICK k \in InStatus("ACTIVE") : \E ps :
               Play(cycles[k], ps) /\ Replaced(k, Played(cycles[k], ps))
    BY <1>7 DEF PlayStep
  <2>3. PICK ps : Play(cycles[k], ps) /\ Replaced(k, Played(cycles[k], ps))
    BY <2>2
  <2>4. /\ DOMAIN cycles' = DOMAIN cycles /\ k \in DOMAIN cycles
        /\ \A j \in DOMAIN cycles : j # k => cycles'[j] = cycles[j]
        /\ cycles'[k].participants = ps
    BY <2>3, PlayedTable
  <2>5. Covered(ps, price)
    BY <1>2, <1>3, <2>2, <2>3, <2>4, PlayCovered DEF AllOK, InStatus
  <2> QED
    BY <1>3, <1>4, <2>1, <2>4, <2>5, CoveredAfter
<1> QED
  BY <1>5, <1>6, <1>7 DEF GameChange

-----------------------------------------------------------------------------
(* Batches.                                                                *)

(* A new price is an amount: the band starts above zero or at it.          *)
LEMMA NewPriceOK ==
  ASSUME NEW initial \in Nat, NEW p \in Nat, NEW move \in Int
  PROVE  NewPrice(initial, p, move) \in Nat
<1> DEFINE moved == IF p = 0 THEN 0 ELSE 10 * (p + move)
           low == 2 * initial
           high == 50 * initial
           kept == IF moved < low THEN low ELSE IF moved > high THEN high ELSE moved
<1>1. moved \in Int /\ low \in Nat /\ high \in Nat
  OBVIOUS
<1>2. NewPrice(initial, p, move) = RoundDiv(kept, 10)
  BY DEF NewPrice
<1> HIDE DEF moved, low, high
<1>3. kept \in Nat
  BY <1>1
<1> HIDE DEF kept
<1> QED
  BY <1>2, <1>3, RoundDivAmount

(* Lifting every peak of a cycle changes nothing else of it.               *)
LEMMA ReconciledOK ==
  ASSUME NEW y, CycleOK(y), WholeOK(y), NEW now, Law(y, now),
         NEW prices \in [Coins -> Nat]
  PROVE  LET z == PeaksReconciled(y, prices)
         IN  /\ CycleOK(z) /\ WholeOK(z) /\ Law(z, now)
             /\ z.status = y.status /\ z.schedule = y.schedule
             /\ EnrolmentKept(y, z)
             /\ y.status = "ACTIVE" => Covered(z.participants, prices)
<1> DEFINE ps == y.participants
           z == PeaksReconciled(y, prices)
<1>1. /\ y \in Cycle /\ ps \in [Users -> Participant]
      /\ \A u \in Users : ParticipantOK(ps[u])
  BY DEF CycleOK, Cycle
<1>2. CASE y.status # "ACTIVE"
  <2>1. z = y
    BY <1>2 DEF PeaksReconciled
  <2> QED
    BY <1>1, <1>2, <2>1, UntouchedKept
<1>3. CASE y.status = "ACTIVE"
  <2> DEFINE new == [u \in Users |-> IF ps[u].status = "ACTIVE"
                                     THEN Lifted(ps[u], prices) ELSE ps[u]]
  <2>1. z = [y EXCEPT !.participants = new]
    BY <1>3 DEF PeaksReconciled
  <2>2. ASSUME NEW p \in Participant, ParticipantOK(p)
        PROVE  LET q == Lifted(p, prices)
               IN  /\ q \in Participant /\ ParticipantOK(q)
                   /\ q.status = p.status /\ q.id = p.id /\ q.cash = p.cash
                   /\ q.holds = p.holds /\ q.final = p.final
                   /\ p.peak <= q.peak /\ Wealth(q, prices) <= q.peak
    <3> DEFINE top == IF Wealth(p, prices) > p.peak THEN Wealth(p, prices) ELSE p.peak
               q == Lifted(p, prices)
    <3>1. Wealth(p, prices) \in Nat
      BY WealthOK DEF Participant
    <3>2. top \in Nat /\ p.peak <= top /\ Wealth(p, prices) <= top
      BY <3>1 DEF Participant
    <3>3. q = [p EXCEPT !.peak = top]
      BY DEF Lifted
    <3> HIDE DEF top, q
    <3>4. /\ q \in Participant
          /\ q.status = p.status /\ q.id = p.id /\ q.cash = p.cash
          /\ q.holds = p.holds /\ q.final = p.final /\ q.peak = top
      BY <3>2, <3>3 DEF Participant
    <3>5. Wealth(q, prices) = Wealth(p, prices)
      BY <3>4, WealthDepends
    <3> QED
      BY <2>2, <3>2, <3>4, <3>5 DEF q, ParticipantOK
  <2>3. \A u \in Users : ps[u].status # "FINALIZED"
    BY <1>3 DEF WholeOK
  <2>4. \A u \in Users : ps[u].status \in {"ABSENT", "ACTIVE"}
    BY <1>1, <2>3 DEF Participant
  <2>5. \A u \in Users :
          /\ new[u] \in Participant /\ ParticipantOK(new[u])
          /\ new[u].status = ps[u].status /\ new[u].id = ps[u].id
          /\ new[u].cash = ps[u].cash /\ new[u].holds = ps[u].holds
          /\ u \in Joined(ps) => /\ ps[u].peak <= new[u].peak
                                 /\ Wealth(new[u], prices) <= new[u].peak
    BY <1>1, <2>2, <2>4 DEF Joined
  <2>6. new \in [Users -> Participant] /\ Joined(new) = Joined(ps)
    BY <2>5 DEF Joined
  <2> HIDE DEF new
  <2>7. /\ z \in Cycle /\ z.participants = new /\ z.status = "ACTIVE"
        /\ z.schedule = y.schedule /\ z.start = y.start /\ z.end = y.end
        /\ z.results = y.results
    BY <1>1, <1>3, <2>1, <2>6 DEF Cycle
  <2> HIDE DEF z
  <2>8. CycleOK(z)
    BY <2>5, <2>7 DEF CycleOK, RowOK
  <2>9. WholeOK(z)
    BY <1>3, <2>3, <2>5, <2>7 DEF WholeOK
  <2>10. Numbered(ps) => Numbered(new)
    BY <2>5, <2>6, JoinedFinite DEF Numbered
  <2>11. Law(z, now)
    BY <1>3, <2>7, <2>10 DEF Law, AliveAt
  <2>12. EnrolmentKept(y, z)
    BY <2>3, <2>5, <2>6, <2>7, JoinedFinite DEF EnrolmentKept
  <2>13. Covered(new, prices)
    BY <2>5, <2>6, JoinedFinite DEF Covered
  <2> QED
    BY <1>3, <2>7, <2>8, <2>9, <2>11, <2>12, <2>13 DEF z
<1> QED
  BY <1>2, <1>3

(* A batch that is written: prices move, and every live peak is lifted.    *)
Repriced ==
  /\ price' \in [Coins -> Nat]
  /\ cycles' = [k \in DOMAIN cycles |-> PeaksReconciled(cycles[k], price')]
  /\ UNCHANGED <<clock, users, call>>

(* Repricing with the peaks reconciled keeps the law, and every peak       *)
(* covers the wealth at the new prices.                                    *)
LEMMA RepricedTable ==
  ASSUME LawfulInvariant, Repriced
  PROVE  /\ LawfulInvariant' /\ PeakCoversWealth'
         /\ \A k \in DOMAIN cycles : EnrolmentKept(cycles[k], cycles'[k])
<1>1. RestOK /\ cycles \in Seq(Cycle) /\ AllOK /\ SingleLiveCycle
      /\ Lawful /\ NowNotAhead
  BY InvariantParts DEF LawfulInvariant
<1>2. /\ DOMAIN cycles' = DOMAIN cycles
      /\ \A k \in DOMAIN cycles : cycles'[k] = PeaksReconciled(cycles[k], price')
      /\ price' \in [Coins -> Nat] /\ UNCHANGED <<clock, users, call>>
  BY DEF Repriced
<1>3. \A k \in DOMAIN cycles :
        /\ CycleOK(cycles'[k]) /\ WholeOK(cycles'[k]) /\ Law(cycles'[k], clock)
        /\ cycles'[k].status = cycles[k].status
        /\ EnrolmentKept(cycles[k], cycles'[k])
        /\ cycles[k].status = "ACTIVE" => Covered(cycles'[k].participants, price')
  BY <1>1, <1>2, ReconciledOK DEF AllOK, Lawful
<1>4. cycles' \in Seq(Cycle)
  <2>1. PICK n \in Nat : cycles \in [1 .. n -> Cycle]
    BY <1>1, SeqDef
  <2>2. \A k \in 1 .. n : PeaksReconciled(cycles[k], price') \in Cycle
    BY <1>2, <1>3, <2>1 DEF CycleOK
  <2>3. cycles' = [k \in 1 .. n |-> PeaksReconciled(cycles[k], price')]
    BY <2>1 DEF Repriced
  <2>4. cycles' \in [1 .. n -> Cycle]
    BY <2>2, <2>3
  <2> QED
    BY <2>4, SeqDef
<1>5. RestOK' /\ NowNotAhead'
  BY <1>1, <1>2 DEF RestOK, NowNotAhead
<1>6. AllOK' /\ Lawful' /\ SingleLiveCycle'
  BY <1>1, <1>2, <1>3 DEF AllOK, Lawful, SingleLiveCycle
<1>7. Invariant'
  BY <1>4, <1>5, <1>6, InvariantAfter
<1>8. PeakCoversWealth'
  BY <1>2, <1>3, <1>6, CoveredAfter
<1> QED
  BY <1>3, <1>5, <1>6, <1>7, <1>8 DEF LawfulInvariant

-----------------------------------------------------------------------------
(* The whole game.                                                         *)

(* What a simulator remembers.                                             *)
SimOK == sim \in [Sims -> Sim] /\ batches \in 0 .. MaxBatches

(* A step of a simulator is a step of its call, a batch, or nothing to the *)
(* tables.                                                                 *)
LEMMA SimSteps ==
  ASSUME RestOK, TableOK, SimOK, NEW s \in Sims,
         \/ Start(s) \/ Stop(s) \/ BeginBatch(s) \/ AbandonBatch(s)
         \/ ReadCollapsed(s) \/ WriteBatch(s) \/ FailBatch(s)
  PROVE  (GameChange \/ Repriced) /\ UNCHANGED joining /\ SimOK'
<1>1. /\ s \in Callers /\ sim \in [Sims -> Sim] /\ sim[s] \in Sim
      /\ price \in [Coins -> Nat] /\ batches \in 0 .. MaxBatches /\ MaxBatches \in Nat
  BY MarketAssumption DEF SimOK, RestOK
<1>2. CASE Start(s)
  <2>1. [stage |-> "idle", initial |-> price, dead |-> {}] \in Sim
    BY <1>1 DEF Sim
  <2>2. UNCHANGED vars /\ UNCHANGED joining
    BY <1>2 DEF Start, vars
  <2> QED
    BY <1>1, <1>2, <2>1, <2>2 DEF Start, SimOK, GameChange
<1>3. CASE Stop(s)
  <2>1. Stopped \in Sim
    BY DEF Stopped, Sim
  <2>2. CallStep /\ UNCHANGED joining
    BY <1>1, <1>3 DEF Stop, CallStep
  <2> QED
    BY <1>1, <1>3, <2>1, <2>2 DEF Stop, SimOK, GameChange
<1>4. ASSUME NEW stage \in {"idle", "reconciling", "calculating"}, Stage(s, stage)
      PROVE  sim' \in [Sims -> Sim]
  BY <1>1, <1>4 DEF Stage, Sim
<1>5. CASE BeginBatch(s)
  <2>1. Next
    BY <1>1, <1>5 DEF BeginBatch, Next, CycleStep
  <2> QED
    BY <1>1, <1>4, <1>5, <2>1 DEF BeginBatch, SimOK, GameChange
<1>6. CASE AbandonBatch(s)
  <2>1. Next
    BY <1>1, <1>6 DEF AbandonBatch, Next, CycleStep
  <2> QED
    BY <1>1, <1>4, <1>6, <2>1 DEF AbandonBatch, SimOK, GameChange
<1>7. CASE ReadCollapsed(s)
  <2>1. UNCHANGED vars /\ UNCHANGED <<joining, batches>>
    BY <1>7 DEF ReadCollapsed, vars
  <2>2. CollapsedCoinIds \in SUBSET Coins
    BY DEF CollapsedCoinIds
  <2>3. sim' = [sim EXCEPT ![s] = [sim[s] EXCEPT !.stage = "calculating",
                                                 !.dead = CollapsedCoinIds]]
    BY <1>1, <1>7 DEF ReadCollapsed
  <2>4. sim' \in [Sims -> Sim]
    BY <1>1, <2>2, <2>3 DEF Sim
  <2> QED
    BY <1>1, <2>1, <2>4 DEF SimOK, GameChange
<1>8. CASE WriteBatch(s)
  <2>1. SimOK' /\ UNCHANGED <<clock, users, call, joining>>
    BY <1>1, <1>4, <1>8 DEF WriteBatch, SimOK
  <2>2. CASE UNCHANGED <<price, cycles>>
    BY <2>1, <2>2 DEF GameChange, vars
  <2>3. ASSUME NEW move \in [Coins \ sim[s].dead -> Moves],
               price' = [c \in Coins |->
                           IF c \in sim[s].dead THEN price[c]
                           ELSE NewPrice(sim[s].initial[c], price[c], move[c])],
               cycles' = [k \in DOMAIN cycles |-> PeaksReconciled(cycles[k], price')]
        PROVE  Repriced
    <3>1. \A c \in Coins \ sim[s].dead :
            /\ sim[s].initial[c] \in Nat /\ price[c] \in Nat /\ move[c] \in Int
      BY <1>1, MarketAssumption DEF Sim
    <3>2. price' \in [Coins -> Nat]
      BY <1>1, <2>3, <3>1, NewPriceOK
    <3> QED
      BY <2>1, <2>3, <3>2 DEF Repriced
  <2> QED
    BY <1>8, <2>1, <2>2, <2>3 DEF WriteBatch
<1>9. CASE FailBatch(s)
  <2>1. UNCHANGED vars /\ UNCHANGED <<joining, batches>>
    BY <1>9 DEF FailBatch, vars
  <2> QED
    BY <1>1, <1>4, <1>9, <2>1 DEF FailBatch, SimOK, GameChange
<1> QED
  BY <1>2, <1>3, <1>5, <1>6, <1>7, <1>8, <1>9

(* Every step of the game.                                                 *)
LEMMA MarketSteps ==
  ASSUME RestOK, TableOK, JoiningOK, SimOK, [MarketNext]_marketVars
  PROVE  (GameChange \/ Repriced) /\ JoiningOK' /\ SimOK'
<1>1. CASE UNCHANGED marketVars
  BY <1>1 DEF marketVars, vars, GameChange, JoiningOK, SimOK
<1>2. CASE SimStep
  <2>1. (GameChange \/ Repriced) /\ UNCHANGED joining /\ SimOK'
    BY <1>2, SimSteps DEF SimStep
  <2> QED
    BY <2>1 DEF JoiningOK
<1>3. CASE GameStep
  <2>1. UNCHANGED <<sim, batches>>
        /\ (LifecycleStep(Callers \ Sims) \/ RoundStep(Callers \ Sims, Users))
    BY <1>3 DEF GameStep
  <2>2. Callers \ Sims \in SUBSET Callers /\ Users \in SUBSET Users
    OBVIOUS
  <2>3. GameChange /\ JoiningOK'
    BY <2>1, <2>2, RoundCases
  <2> QED
    BY <2>1, <2>3 DEF SimOK
<1> QED
  BY <1>1, <1>2, <1>3 DEF MarketNext

(* The inductive invariant of the whole game.                              *)
MarketInvariant == RoundInvariant /\ SimOK /\ PeakCoversWealth

(* It holds throughout, whatever the simulators do.                        *)
THEOREM MarketInvariantHolds == MarketSpec => []MarketInvariant
<1>1. MarketInit => MarketInvariant
  <2> SUFFICES ASSUME MarketInit PROVE MarketInvariant
    OBVIOUS
  <2>1. Init /\ joining = [c \in Callers |-> NoJoin]
    BY DEF MarketInit, RoundInit
  <2>3. RoundInvariant
    BY RoundInvariantInit DEF MarketInit
  <2>4. SimOK
    <3>1. Stopped \in Sim
      BY DEF Stopped, Sim
    <3> QED
      BY <3>1, MarketAssumption DEF MarketInit, SimOK
  <2>5. PeakCoversWealth
    <3>1. \A k \in DOMAIN cycles : Joined(cycles[k].participants) = {}
      BY <2>1 DEF Init, LegacyCycle, Joined, Absent
    <3> QED
      BY <3>1 DEF PeakCoversWealth, InStatus
  <2> QED
    BY <2>3, <2>4, <2>5 DEF MarketInvariant
<1>2. MarketInvariant /\ [MarketNext]_marketVars => MarketInvariant'
  <2> SUFFICES ASSUME MarketInvariant, [MarketNext]_marketVars PROVE MarketInvariant'
    OBVIOUS
  <2>1. RestOK /\ TableOK
    BY TypeOKParts DEF MarketInvariant, RoundInvariant, LawfulInvariant, Invariant
  <2>2. (GameChange \/ Repriced) /\ JoiningOK' /\ SimOK'
    BY <2>1, MarketSteps DEF MarketInvariant, RoundInvariant
  <2>3. CASE GameChange
    BY <2>2, <2>3, ChangeStep, ChangeCovers DEF MarketInvariant, RoundInvariant
  <2>4. CASE Repriced
    BY <2>2, <2>4, RepricedTable DEF MarketInvariant, RoundInvariant
  <2> QED
    BY <2>2, <2>3, <2>4
<1> QED
  BY <1>1, <1>2, PTL DEF MarketSpec

(* No batch stores a price below zero, however many processes restart or   *)
(* race, and every row keeps its type (updateAllPrices).                   *)
THEOREM MarketTypeCorrect == MarketSpec => []MarketTypeOK
<1>1. MarketInvariant => MarketTypeOK
  BY DEF MarketInvariant, RoundInvariant, LawfulInvariant, Invariant, RoundTypeOK,
         JoiningOK, SimOK, MarketTypeOK
<1> QED
  BY <1>1, MarketInvariantHolds, PTL

(* The recorded peak is never below a player's wealth while the round is   *)
(* on, whatever trades, batches and collapses interleave                   *)
(* (refreshWealthAndPeak, reconcileActivePeaks).                           *)
THEOREM PeakIsThePeak == MarketSpec => []PeakCoversWealth
BY MarketInvariantHolds, PTL DEF MarketInvariant

(* Nobody gets more of a coin that has collapsed in the round, though a    *)
(* batch that overtook the collapse may have revived its price             *)
(* (isCoinCollapsedInCycle under the advisory lock).                       *)
THEOREM NoDeadCoinBought == MarketSpec => DeadNeverBought
<1>1. MarketInvariant /\ [MarketNext]_marketVars
      => [\A k \in DOMAIN cycles : \A c \in Coins :
            cycles[k].schedule[c].done # None =>
              \A u \in Joined(cycles[k].participants) :
                cycles'[k].participants[u].holds[c]
                  <= cycles[k].participants[u].holds[c]]_marketVars
  <2> SUFFICES ASSUME MarketInvariant, [MarketNext]_marketVars,
                      NEW k \in DOMAIN cycles, NEW c \in Coins,
                      cycles[k].schedule[c].done # None,
                      NEW u \in Joined(cycles[k].participants)
               PROVE  cycles'[k].participants[u].holds[c]
                        <= cycles[k].participants[u].holds[c]
    OBVIOUS
  <2> DEFINE p == cycles[k].participants[u]
             q == cycles'[k].participants[u]
  <2>1. RestOK /\ TableOK /\ cycles[k] \in Cycle
    BY TypeOKParts DEF MarketInvariant, RoundInvariant, LawfulInvariant, Invariant,
                       TableOK, CycleOK
  <2>2. p.holds[c] \in Nat
    BY <2>1, JoinedFinite DEF Cycle, Participant
  <2>3. GameChange \/ Repriced
    BY <2>1, MarketSteps DEF MarketInvariant, RoundInvariant
  <2>4. CASE EnrolmentKept(cycles[k], cycles'[k])
    BY <2>2, <2>4 DEF EnrolmentKept
  <2>5. CASE Play(cycles[k], cycles'[k].participants)
    <3>1. \/ q = p
          \/ q \in Participant /\ \E coin \in Coins : Dealt(cycles[k], p, q, coin)
      BY <2>1, <2>5, PlayEach
    <3>2. ASSUME NEW coin \in Coins, Dealt(cycles[k], p, q, coin), q \in Participant
          PROVE  q.holds[c] <= p.holds[c]
      <4>1. q.holds[c] \in Nat
        BY <3>2 DEF Participant
      <4>2. CASE c = coin
        BY <2>2, <3>2, <4>1, <4>2 DEF Dealt
      <4>3. CASE c # coin
        BY <2>2, <3>2, <4>1, <4>3 DEF Dealt, FairDeal
      <4> QED
        BY <4>2, <4>3
    <3> QED
      BY <2>2, <3>1, <3>2
  <2>6. CASE GameChange
    <3>1. CycleKept(cycles[k], cycles'[k])
      BY <2>6, ChangeKeeps DEF MarketInvariant, RoundInvariant
    <3> QED
      BY <2>4, <2>5, <3>1 DEF CycleKept
  <2>7. CASE Repriced
    BY <2>4, <2>7, RepricedTable DEF MarketInvariant, RoundInvariant
  <2> QED
    BY <2>3, <2>6, <2>7
<1> QED
  BY <1>1, MarketInvariantHolds, PTL DEF MarketSpec, DeadNeverBought

(* What a step of the whole game leaves of a cycle it finds.               *)
LEMMA MarketKeeps ==
  ASSUME MarketInvariant, [MarketNext]_marketVars, NEW k \in DOMAIN cycles
  PROVE  /\ CycleKept(cycles[k], cycles'[k]) /\ cycles[k] \in Cycle
         /\ cycles[k].status = "COMPLETED" => cycles'[k] = cycles[k]
<1>1. LawfulInvariant /\ RestOK /\ TableOK /\ cycles[k] \in Cycle
  BY TypeOKParts DEF MarketInvariant, RoundInvariant, LawfulInvariant, Invariant,
                     TableOK, CycleOK
<1>2. GameChange \/ Repriced
  BY <1>1, MarketSteps DEF MarketInvariant, RoundInvariant
<1>3. CASE GameChange
  BY <1>1, <1>3, ChangeKeeps, ChangeGrows DEF InStatus
<1>4. CASE Repriced
  <2>1. CycleKept(cycles[k], cycles'[k])
    BY <1>1, <1>4, RepricedTable DEF CycleKept
  <2>2. cycles[k].status = "COMPLETED" => cycles'[k] = cycles[k]
    BY <1>4 DEF Repriced, PeaksReconciled
  <2> QED
    BY <1>1, <2>1, <2>2
<1> QED
  BY <1>2, <1>3, <1>4

(* Prices that move under the players' hands change nothing of what the    *)
(* rounds promise: nothing is had for nothing at whatever price a batch    *)
(* left, nobody is enrolled anew, nothing moves after the freeze, and      *)
(* neither does history.                                                   *)
THEOREM MarketIsFair ==
  MarketSpec => NothingForFree /\ EnrolledOnce /\ FrozenIsFrozen /\ HistoryIsFinal
<1>1. MarketInvariant /\ [MarketNext]_marketVars
      => [EachParticipant(LAMBDA k, p, q :
            /\ (\E c \in Coins : q.holds[c] > p.holds[c]) => q.cash < p.cash
            /\ q.cash > p.cash => \E c \in Coins : q.holds[c] < p.holds[c]
            /\ \A c \in Coins :
                 q.holds[c] < p.holds[c] /\ price[c] > 0 => q.cash > p.cash)]_roundVars
  BY MarketKeeps, KeptIsFair DEF EachParticipant
<1>2. MarketInvariant /\ [MarketNext]_marketVars
      => [\A k \in DOMAIN cycles : cycles[k].status # "ACTIVE" =>
            /\ Joined(cycles'[k].participants) = Joined(cycles[k].participants)
            /\ EachParticipant(LAMBDA j, p, q :
                 j = k => q.cash = p.cash /\ q.holds = p.holds)]_roundVars
  <2> SUFFICES ASSUME MarketInvariant, [MarketNext]_marketVars,
                      NEW k \in DOMAIN cycles, cycles[k].status # "ACTIVE"
               PROVE  /\ Joined(cycles'[k].participants) = Joined(cycles[k].participants)
                      /\ \A u \in Joined(cycles[k].participants) :
                           /\ cycles'[k].participants[u].cash
                                = cycles[k].participants[u].cash
                           /\ cycles'[k].participants[u].holds
                                = cycles[k].participants[u].holds
    BY DEF EachParticipant
  <2> QED
    BY MarketKeeps DEF CycleKept, EnrolmentKept
<1>3. MarketInvariant /\ [MarketNext]_marketVars
      => [\A k \in DOMAIN cycles :
            cycles[k].status = "COMPLETED" => cycles'[k] = cycles[k]]_vars
  BY MarketKeeps
<1>4. MarketInvariant /\ [MarketNext]_marketVars
      => [EachParticipant(LAMBDA k, p, q :
            /\ q.id = p.id /\ p.peak <= q.peak
            /\ p.status = "FINALIZED" => q = p
            /\ q.cash # p.cash \/ q.holds # p.holds =>
                 /\ UNCHANGED <<clock, users, price, call, joining>>
                 /\ \E coin \in Coins : FairDeal(p, q, coin))]_roundVars
  BY MarketKeeps, KeptIsOnce DEF EachParticipant
<1> QED
  BY <1>1, <1>2, <1>3, <1>4, MarketInvariantHolds, PTL
     DEF MarketSpec, NothingForFree, EnrolledOnce, FrozenIsFrozen, HistoryIsFinal
=============================================================================
