----------------------------- MODULE ReadProofs -----------------------------
(***************************************************************************)
(* Reading the game (GameReads), for any callers, users and coins, and any *)
(* trades beside the reads.                                                *)
(*                                                                         *)
(* A reader does to the game what any caller may do, so all that is proved *)
(* of GameRound holds beside it (ReadersArePlayers).  What a board is      *)
(* worth then rests on how little a request in flight needs to know: the   *)
(* cycles it has yet to read are still there and, where it chose them      *)
(* COMPLETED, still untouched (RequestOK).  The numbering of a board is    *)
(* that of a strict order (PlacesInOrder), whether it was made at          *)
(* settlement or is made at the read.                                      *)
(***************************************************************************)
EXTENDS GameReads, RoundProofs

Kinds == {"none", "reconcile", "live", "results", "recent"}

(* What a request in flight relies on: the reader has no join of its own   *)
(* while it reconciles, and the cycles it has yet to read are where it     *)
(* found them, those of the past for ever.                                 *)
RequestOK ==
  /\ request \in [kind : Kinds, todo : Seq(Nat)]
  /\ Listed \subseteq DOMAIN cycles
  /\ request.kind = "reconcile" => joining[Reader] = NoJoin
  /\ request.kind \in {"results", "recent"} => Listed \subseteq InStatus("COMPLETED")

ReadInvariant == RoundInvariant /\ RequestOK

-----------------------------------------------------------------------------
(* The list of recent cycles.                                              *)

(* The smaller of two numbers.                                             *)
LEMMA MinOfTwo ==
  ASSUME NEW a \in Int, NEW b \in Int
  PROVE  Min({a, b}) = IF a <= b THEN a ELSE b
<1> DEFINE m == IF a <= b THEN a ELSE b
<1>1. m \in {a, b} /\ \A y \in {a, b} : m <= y
  OBVIOUS
<1>2. \A x \in {a, b} : (\A y \in {a, b} : x <= y) => x = m
  OBVIOUS
<1> HIDE DEF m
<1>3. Min({a, b}) = CHOOSE x \in {a, b} : \A y \in {a, b} : x <= y
  BY DEF Min
<1>4. Min({a, b}) = m
  BY <1>1, <1>2, <1>3
<1> QED
  BY <1>4 DEF m

(* A limit asked for is a number of cycles, whatever was asked.            *)
LEMMA RecentLimitOK ==
  ASSUME NEW raw \in {None} \cup 0 .. MaxLimit + 1
  PROVE  RecentLimit(raw) \in 1 .. MaxLimit
<1>1. MaxLimit \in Nat \ {0} /\ DefaultLimit \in 1 .. MaxLimit
  BY ReadAssumption
<1>2. CASE raw = None
  BY <1>1, <1>2 DEF RecentLimit
<1>3. CASE raw # None
  <2>1. raw \in Nat
    BY <1>1, <1>3
  <2> DEFINE m == IF raw >= 1 THEN raw ELSE 1
  <2>2. Max({1, raw}) = m
    <3>1. m \in {1, raw} /\ \A y \in {1, raw} : m >= y
      BY <2>1
    <3>2. \A x \in {1, raw} : (\A y \in {1, raw} : x >= y) => x = m
      BY <2>1
    <3> HIDE DEF m
    <3>3. Max({1, raw}) = CHOOSE x \in {1, raw} : \A y \in {1, raw} : x >= y
      BY DEF Max
    <3> QED
      BY <3>1, <3>2, <3>3
  <2>3. m \in Int /\ m >= 1
    BY <2>1
  <2> HIDE DEF m
  <2>4. Min({MaxLimit, m}) = IF MaxLimit <= m THEN MaxLimit ELSE m
    BY <1>1, <2>3, MinOfTwo
  <2> QED
    BY <1>1, <1>3, <2>2, <2>3, <2>4 DEF RecentLimit
<1> QED
  BY <1>2, <1>3

Completed == InStatus("COMPLETED")

(* The COMPLETED cycles that ORDER BY end_time DESC, cycle_id DESC puts    *)
(* before each.                                                            *)
Newer ==
  [k \in Completed |-> { j \in Completed :
     \/ cycles[j].end > cycles[k].end
     \/ cycles[j].end = cycles[k].end /\ j > k }]

(* A cycle's place in that order is its own, and every place is taken.     *)
LEMMA NewerIsOrder ==
  ASSUME TableOK
  PROVE  /\ IsFiniteSet(Completed) /\ Completed \subseteq Nat
         /\ Newer \in [Completed -> SUBSET Completed]
         /\ { Place(Completed, Newer)[k] : k \in Completed }
              = 1 .. Cardinality(Completed)
         /\ \A j, k \in Completed :
              Place(Completed, Newer)[j] = Place(Completed, Newer)[k] => j = k
<1>1. IsFiniteSet(Completed) /\ Completed \subseteq Nat
  <2>1. DOMAIN cycles = 1 .. Len(cycles) /\ Len(cycles) \in Nat
    BY LenProperties DEF TableOK
  <2>2. IsFiniteSet(1 .. Len(cycles))
    BY <2>1, FS_Interval
  <2> QED
    BY <2>1, <2>2, FS_Subset DEF Completed, InStatus
<1>2. \A k \in Completed : cycles[k].end \in Nat
  BY DEF TableOK, CycleOK, Cycle, Completed, InStatus
<1> DEFINE S == Completed
           Before(j, k) == \/ cycles[j].end > cycles[k].end
                           \/ cycles[j].end = cycles[k].end /\ j > k
<1>3. /\ Newer \in [S -> SUBSET S]
      /\ \A k \in S : k \notin Newer[k]
      /\ \A j, k \in S : j # k => j \in Newer[k] \/ k \in Newer[j]
      /\ \A j, k \in S : j \in Newer[k] => Newer[j] \subseteq Newer[k]
  <2>1. Newer = [k \in S |-> { j \in S : Before(j, k) }]
    BY DEF Newer
  <2>2. \A j, k \in S : /\ ~ Before(k, k)
                        /\ j # k => Before(j, k) \/ Before(k, j)
    BY <1>1, <1>2
  <2>3. \A i, j, k \in S : Before(i, j) /\ Before(j, k) => Before(i, k)
    BY <1>1, <1>2
  <2> HIDE DEF S, Before
  <2> QED
    BY <2>1, <2>2, <2>3
<1> HIDE DEF S
<1>4. /\ { Place(S, Newer)[k] : k \in S } = 1 .. Cardinality(S)
      /\ \A j, k \in S : Place(S, Newer)[j] = Place(S, Newer)[k] => j = k
  BY <1>1, <1>3, PlacesInOrder DEF S
<1> QED
  BY <1>1, <1>3, <1>4 DEF S

(* The list a request for n cycles gets: COMPLETED cycles in their places. *)
LEMMA RecentLists ==
  ASSUME TableOK, NEW n \in Nat
  PROVE  /\ Recent(n) \in Seq(Nat)
         /\ \A i \in 1 .. Len(Recent(n)) :
              /\ Recent(n)[i] \in Completed
              /\ Place(Completed, Newer)[Recent(n)[i]] = i
<1> DEFINE m == Min({n, Cardinality(Completed)})
           place == Place(Completed, Newer)
           Later(k) == { j \in Completed :
                           \/ cycles[j].end > cycles[k].end
                           \/ cycles[j].end = cycles[k].end /\ j > k }
           at(i) == CHOOSE k \in Completed : Cardinality(Later(k)) = i - 1
<1>1. /\ IsFiniteSet(Completed) /\ Completed \subseteq Nat
      /\ Newer \in [Completed -> SUBSET Completed]
      /\ { place[k] : k \in Completed } = 1 .. Cardinality(Completed)
  BY NewerIsOrder
<1>2. Cardinality(Completed) \in Nat
  BY <1>1, FS_CardinalityType
<1>3. m \in Nat /\ m <= Cardinality(Completed)
  BY <1>2, MinOfTwo
<1>4. Recent(n) = [i \in 1 .. m |-> at(i)]
  BY DEF Recent, Completed
<1>5. \A k \in Completed : /\ place[k] = 1 + Cardinality(Later(k))
                           /\ Cardinality(Later(k)) \in Nat
  <2>1. \A k \in Completed : Newer[k] = Later(k) /\ Newer[k] \subseteq Completed
    BY DEF Newer
  <2>2. \A k \in Completed : place[k] = 1 + Cardinality(Newer[k])
    BY DEF Place
  <2> HIDE DEF Later, place
  <2> QED
    BY <1>1, <2>1, <2>2, FS_Subset, FS_CardinalityType
<1> HIDE DEF m, place, Later
<1>6. ASSUME NEW i \in 1 .. m
      PROVE  at(i) \in Completed /\ place[at(i)] = i
  <2>1. i \in 1 .. Cardinality(Completed)
    BY <1>2, <1>3
  <2>2. PICK k \in Completed : place[k] = i
    BY <1>1, <2>1
  <2>3. Cardinality(Later(k)) = i - 1
    BY <1>5, <2>1, <2>2
  <2>4. at(i) \in Completed /\ Cardinality(Later(at(i))) = i - 1
    BY <2>3
  <2> HIDE DEF at
  <2> QED
    BY <1>5, <2>1, <2>4
<1> HIDE DEF at
<1>7. Recent(n) \in Seq(Nat) /\ Len(Recent(n)) = m
  <2>1. Recent(n) \in [1 .. m -> Nat]
    BY <1>1, <1>4, <1>6
  <2> HIDE DEF Recent
  <2> QED
    BY <1>3, <2>1
<1> QED
  BY <1>4, <1>6, <1>7 DEF place

-----------------------------------------------------------------------------
(* The reader beside the game.                                             *)

(* What is left of a request lists nothing new, in the same order.         *)
LEMMA TailOfRequest ==
  ASSUME NEW t \in Seq(Nat), t # <<>>
  PROVE  /\ Tail(t) \in Seq(Nat)
         /\ Len(Tail(t)) = Len(t) - 1
         /\ \A i \in 1 .. Len(Tail(t)) : /\ Tail(t)[i] = t[i + 1]
                                        /\ i + 1 \in 1 .. Len(t)
BY HeadTailProperties, LenProperties

(* Every step of the composition is one of the rounds, or leaves the game  *)
(* alone: a read changes nothing but through its reconciliation.           *)
LEMMA ReadIsRound ==
  ASSUME RequestOK, [ReadNext]_readVars
  PROVE  [RoundNext]_roundVars
<1>1. Reader \in Callers /\ Traders \subseteq Users
  BY ReadAssumption
<1>2. CASE GetLiveLeaderboard
  <2>1. LifecycleStep(Callers)
    BY <1>1, <1>2 DEF GetLiveLeaderboard, LifecycleStep
  <2> QED
    BY <2>1 DEF RoundNext
<1>3. CASE FailLiveLeaderboard
  <2>1. joining[Reader] = NoJoin /\ Fail(Reader) /\ UNCHANGED joining
    BY <1>3 DEF FailLiveLeaderboard, RequestOK
  <2>2. LifecycleStep(Callers)
    BY <1>1, <2>1 DEF LifecycleStep
  <2> QED
    BY <2>2 DEF RoundNext
<1>4. CASE \/ ReconciledLive \/ FindLiveCycle \/ GetCycleResults
           \/ GetRecentLeaderboards \/ ReadBoard \/ UNCHANGED readVars
  BY <1>4 DEF ReconciledLive, FindLiveCycle, GetCycleResults, GetRecentLeaderboards,
              ReadBoard, readVars, roundVars
<1> DEFINE players == IF clock < LastTrade THEN Traders ELSE {}
<1>5. CASE LifecycleStep(Free) \/ RoundStep(Free, players)
  <2>1. Free \subseteq Callers /\ players \subseteq Users
    BY <1>1 DEF Free
  <2> HIDE DEF players
  <2>2. LifecycleStep(Free) => LifecycleStep(Callers)
    BY <2>1 DEF LifecycleStep
  <2>3. RoundStep(Free, players) => RoundStep(Callers, Users)
    BY <2>1 DEF RoundStep
  <2> QED
    BY <1>5, <2>2, <2>3 DEF RoundNext
<1> QED
  BY <1>2, <1>3, <1>4, <1>5 DEF ReadNext, ReadStep

(* Whoever plays on does not join for the reader while it reconciles.      *)
LEMMA ReaderStaysOut ==
  ASSUME JoiningOK, RequestOK, request.kind = "reconcile",
         NEW players \in SUBSET Users,
         LifecycleStep(Free) \/ RoundStep(Free, players)
  PROVE  joining'[Reader] = NoJoin
<1>1. joining[Reader] = NoJoin /\ Free = Callers \ {Reader} /\ Reader \in Callers
      /\ DOMAIN joining = Callers
  BY ReadAssumption DEF RequestOK, Free, JoiningOK
<1>2. CASE LifecycleStep(Free)
  BY <1>1, <1>2 DEF LifecycleStep
<1>3. ASSUME NEW c \in Free, NEW u \in players,
             JoinRound(c, u) \/ JoinActiveCycle(c) \/ FailJoin(c)
      PROVE  joining'[Reader] = joining[Reader]
  <2>1. \A c2 \in Free : \A v : [joining EXCEPT ![c2] = v][Reader] = joining[Reader]
    BY <1>1
  <2>2. \E v : joining' = [joining EXCEPT ![c] = v]
    BY <1>3 DEF JoinRound, JoinActiveCycle, FailJoin
  <2> QED
    BY <2>1, <2>2
<1>4. ASSUME NEW c \in Free, JoinActiveCycle(c) \/ FailJoin(c)
      PROVE  joining'[Reader] = joining[Reader]
  <2>1. \A c2 \in Free : \A v : [joining EXCEPT ![c2] = v][Reader] = joining[Reader]
    BY <1>1
  <2>2. \E v : joining' = [joining EXCEPT ![c] = v]
    BY <1>4 DEF JoinActiveCycle, FailJoin
  <2> QED
    BY <2>1, <2>2
<1>5. ASSUME NEW k, NEW u, NEW coin, NEW q, NEW now,
             BuyRoundTrade(k, u, coin, q, now) \/ SellRoundTrade(k, u, coin, q, now)
      PROVE  joining'[Reader] = joining[Reader]
  BY <1>5 DEF BuyRoundTrade, SellRoundTrade
<1>6. CASE RoundStep(Free, players)
  BY <1>1, <1>3, <1>4, <1>5, <1>6 DEF RoundStep
<1> QED
  BY <1>2, <1>6

(* A request keeps what it relies on.                                      *)
LEMMA RequestStep ==
  ASSUME ReadInvariant, [ReadNext]_readVars
  PROVE  RequestOK'
<1>1. /\ DOMAIN cycles \subseteq DOMAIN cycles'
      /\ InStatus("COMPLETED") \subseteq InStatus("COMPLETED")'
  <2>1. GameChange /\ LawfulInvariant
    BY ReadIsRound, RoundIsChange DEF ReadInvariant, RoundInvariant
  <2> QED
    BY <2>1, ChangeGrows DEF InStatus
<1>2. /\ TableOK /\ JoiningOK /\ RequestOK
      /\ request.kind \in Kinds /\ request.todo \in Seq(Nat)
      /\ DOMAIN cycles \subseteq Nat
  BY TypeOKParts, LenProperties
     DEF ReadInvariant, RoundInvariant, LawfulInvariant, Invariant, RequestOK, TableOK
<1> DEFINE Fits(kind, todo) ==
             /\ kind \in Kinds /\ todo \in Seq(Nat)
             /\ \A i \in 1 .. Len(todo) : todo[i] \in DOMAIN cycles
             /\ kind = "reconcile" => joining'[Reader] = NoJoin
             /\ kind \in {"results", "recent"} =>
                  \A i \in 1 .. Len(todo) : todo[i] \in InStatus("COMPLETED")
<1>3. ASSUME NEW kind, NEW todo, Fits(kind, todo),
             request' = [kind |-> kind, todo |-> todo]
      PROVE  RequestOK'
  <2>1. DOMAIN request'.todo = 1 .. Len(todo) /\ request'.todo = todo
        /\ request'.kind = kind
    BY <1>3, LenProperties
  <2> QED
    BY <1>1, <1>3, <2>1 DEF RequestOK, Listed
<1>4. request = [kind |-> request.kind, todo |-> request.todo]
      /\ DOMAIN request.todo = 1 .. Len(request.todo)
  BY <1>2, LenProperties DEF RequestOK
<1>5. joining' = joining => Fits(request.kind, request.todo)
  BY <1>2, <1>4 DEF RequestOK, Listed
<1>6. Fits("none", <<>>) /\ Fits("live", <<>>)
  BY DEF Kinds
<1>7. CASE GetLiveLeaderboard
  <2>1. Fits("reconcile", <<>>)
    BY <1>7 DEF GetLiveLeaderboard, Kinds
  <2> QED
    BY <1>3, <1>7, <2>1 DEF GetLiveLeaderboard, Ask
<1>8. CASE FailLiveLeaderboard
  BY <1>3, <1>6, <1>8 DEF FailLiveLeaderboard, NoRequest
<1>9. CASE ReconciledLive
  <2>1. request' = [kind |-> "live", todo |-> request.todo] /\ joining' = joining
    BY <1>4, <1>9 DEF ReconciledLive, roundVars
  <2>2. Fits("live", request.todo)
    BY <1>5, <2>1 DEF Kinds
  <2> QED
    BY <1>3, <2>1, <2>2
<1>10. CASE FindLiveCycle
  <2>1. ASSUME NEW k \in InStatus("ACTIVE") PROVE Fits("live", <<k>>)
    BY <1>2 DEF InStatus, Kinds
  <2>2. \/ request' = NoRequest
        \/ \E k \in InStatus("ACTIVE") : request' = [kind |-> "live", todo |-> <<k>>]
    BY <1>4, <1>10 DEF FindLiveCycle
  <2> QED
    BY <1>3, <1>6, <2>1, <2>2 DEF NoRequest
<1>11. CASE GetCycleResults
  <2>1. ASSUME NEW k \in DOMAIN cycles, Servable(k) PROVE Fits("results", <<k>>)
    BY <1>2, <2>1 DEF InStatus, Servable, Kinds
  <2> QED
    BY <1>3, <1>11, <2>1 DEF GetCycleResults, Ask
<1>12. CASE GetRecentLeaderboards
  <2>1. PICK raw \in {None} \cup 0 .. MaxLimit + 1 :
               request' = [kind |-> "recent", todo |-> Recent(RecentLimit(raw))]
    BY <1>12 DEF GetRecentLeaderboards, Ask
  <2>2. RecentLimit(raw) \in Nat
    BY RecentLimitOK
  <2>3. Fits("recent", Recent(RecentLimit(raw)))
    BY <1>2, <2>2, RecentLists DEF Completed, InStatus, Kinds
  <2> QED
    BY <1>3, <2>1, <2>3
<1>13. CASE ReadBoard
  <2>1. request.todo # <<>> /\ joining' = joining
    BY <1>13 DEF ReadBoard, roundVars
  <2>2. Fits(request.kind, Tail(request.todo))
    BY <1>2, <1>5, <2>1, TailOfRequest
  <2>3. \/ request' = NoRequest
        \/ request' = [kind |-> request.kind, todo |-> Tail(request.todo)]
    BY <1>4, <1>13 DEF ReadBoard
  <2> QED
    BY <1>3, <1>6, <2>2, <2>3 DEF NoRequest
<1> DEFINE players == IF clock < LastTrade THEN Traders ELSE {}
<1>14. CASE (LifecycleStep(Free) \/ RoundStep(Free, players)) /\ UNCHANGED request
  <2>1. request.kind = "reconcile" => joining'[Reader] = NoJoin
    <3>1. players \in SUBSET Users
      BY ReadAssumption
    <3> HIDE DEF players
    <3> QED
      BY <1>2, <1>14, <3>1, ReaderStaysOut
  <2>2. Fits(request.kind, request.todo)
    BY <1>2, <1>4, <2>1 DEF RequestOK, Listed
  <2> QED
    BY <1>3, <1>4, <1>14, <2>2
<1>15. CASE UNCHANGED readVars
  BY <1>3, <1>4, <1>5, <1>15 DEF readVars
<1> QED
  BY <1>7, <1>8, <1>9, <1>10, <1>11, <1>12, <1>13, <1>14, <1>15 DEF ReadNext, ReadStep

(* The invariant of the composition.                                       *)
THEOREM ReadInvariantHolds == ReadSpec => []ReadInvariant
<1>1. ReadInit => ReadInvariant
  <2>1. ASSUME request = NoRequest PROVE RequestOK
    BY <2>1 DEF RequestOK, NoRequest, Listed, Kinds
  <2> QED
    BY <2>1, RoundInvariantInit DEF ReadInit, ReadInvariant
<1>2. ReadInvariant /\ [ReadNext]_readVars => ReadInvariant'
  BY ReadIsRound, RoundIsChange, RequestStep DEF ReadInvariant
<1> QED
  BY <1>1, <1>2, PTL DEF ReadSpec

(* A reader is one more player, and no more: nothing it does is not a step *)
(* of the rounds, so every theorem about them holds beside it.             *)
THEOREM ReadersArePlayers == ReadSpec => RoundSpec
<1>1. ReadInvariant /\ [ReadNext]_readVars => [RoundNext]_roundVars
  BY ReadIsRound DEF ReadInvariant
<1> QED
  BY <1>1, ReadInvariantHolds, PTL DEF ReadSpec, ReadInit, RoundSpec

-----------------------------------------------------------------------------
(* The boards.                                                             *)

(* What the invariants of the game say of one cycle.                       *)
LEMMA CycleFacts ==
  ASSUME ReadInvariant, NEW k \in DOMAIN cycles
  PROVE  /\ cycles[k].participants \in [Users -> Participant]
         /\ Numbered(cycles[k].participants)
         /\ WholeOK(cycles[k])
         /\ \A u \in Users : ParticipantOK(cycles[k].participants[u])
         /\ k \in Completed => FairRanks(cycles[k].participants, cycles[k].results)
         /\ price \in [Coins -> Nat]
BY InvariantParts
   DEF ReadInvariant, RoundInvariant, LawfulInvariant, AllOK, CycleOK, Cycle, RestOK,
       Lawful, Law, Completed, InStatus

(* A live board lists every participant of its cycle, by wealth; settled   *)
(* meanwhile, the cycle has nobody left to list.                           *)
THEOREM LiveBoardsAreWhole == ReadSpec => []LiveBoardWhole
<1>1. ReadInvariant => LiveBoardWhole
  <2> SUFFICES ASSUME ReadInvariant, request.kind = "live", NEW k \in Listed
               PROVE  LET who == Joined(cycles[k].participants)
                          b == LiveBoard(k)
                      IN  IF cycles[k].status = "COMPLETED"
                          THEN b.total = 0
                          ELSE { b.ranks[u] : u \in who } = 1 .. Cardinality(who)
    BY DEF LiveBoardWhole
  <2> DEFINE ps == cycles[k].participants
             who == Joined(ps)
             Worth(u) == Wealth(ps[u], price)
             ahead == [u \in who |-> { v \in who :
                         \/ Worth(v) > Worth(u)
                         \/ Worth(v) = Worth(u) /\ ps[v].id < ps[u].id }]
  <2>1. /\ k \in DOMAIN cycles /\ ps \in [Users -> Participant] /\ Numbered(ps)
        /\ WholeOK(cycles[k]) /\ price \in [Coins -> Nat]
    BY CycleFacts DEF ReadInvariant, RequestOK
  <2>2. CASE cycles[k].status = "COMPLETED"
    <3>1. Players(k) = {}
      BY <2>1, <2>2 DEF Players, WholeOK
    <3> QED
      BY <2>2, <3>1, FS_EmptySet DEF LiveBoard
  <2>3. CASE cycles[k].status # "COMPLETED"
    <3>1. Players(k) = who /\ who \subseteq Users
      BY <2>1, <2>3 DEF Players, Joined, WholeOK, Participant
    <3>2. LiveBoard(k).ranks = Places(Players(k), [u \in Users |-> { v \in Users :
                                 \/ Worth(v) > Worth(u)
                                 \/ Worth(v) = Worth(u) /\ ps[v].id < ps[u].id }])
      BY DEF LiveBoard
    <3>3. ASSUME NEW u \in who PROVE LiveBoard(k).ranks[u] = Place(who, ahead)[u]
      <4>1. who \cap { v \in Users :
                      \/ Worth(v) > Worth(u)
                      \/ Worth(v) = Worth(u) /\ ps[v].id < ps[u].id }
              = ahead[u]
        BY <3>1
      <4> HIDE DEF Worth
      <4>2. LiveBoard(k).ranks[u] = 1 + Cardinality(ahead[u])
        BY <3>1, <3>2, <4>1 DEF Places
      <4> QED
        BY <4>2 DEF Place
    <3>4. /\ \A u \in who : Worth(u) \in Nat /\ ps[u].id \in Int
          /\ \A u, v \in who : ps[u].id = ps[v].id => u = v
      <4>1. \A u \in Users : /\ ps[u].cash \in Nat /\ ps[u].id \in Nat
                             /\ ps[u].holds \in [Coins -> Nat]
        BY <2>1 DEF Participant
      <4>2. \A u \in Users : Worth(u) \in Nat
        BY <2>1, <4>1, WealthOK
      <4> QED
        BY <2>1, <3>1, <4>1, <4>2 DEF Numbered
    <3> HIDE DEF Worth
    <3>5. /\ ahead \in [who -> SUBSET who]
          /\ \A u \in who : u \notin ahead[u]
          /\ \A u, v \in who : u # v => u \in ahead[v] \/ v \in ahead[u]
          /\ \A u, v \in who : u \in ahead[v] => ahead[u] \subseteq ahead[v]
      BY <3>4
    <3>6. IsFiniteSet(who)
      BY <3>1, FS_Subset, CycleAssumption
    <3> HIDE DEF ahead, who
    <3>7. { Place(who, ahead)[u] : u \in who } = 1 .. Cardinality(who)
      BY <3>5, <3>6, PlacesInOrder
    <3>8. { LiveBoard(k).ranks[u] : u \in who } = 1 .. Cardinality(who)
      BY <3>3, <3>7
    <3> QED
      BY <2>3, <3>8 DEF who, ps
  <2> QED
    BY <2>2, <2>3
<1> QED
  BY <1>1, ReadInvariantHolds, PTL

(* The results a reader is served are the whole table of a settlement.     *)
THEOREM ResultsAreWhole == ReadSpec => []ResultsWhole
<1>1. ReadInvariant => ResultsWhole
  <2> SUFFICES ASSUME ReadInvariant, request.kind = "results", NEW k \in Listed
               PROVE  LET who == Joined(cycles[k].participants)
                      IN  { FinalBoard(k).ranks[u] : u \in who } = 1 .. Cardinality(who)
    BY DEF ResultsWhole
  <2> DEFINE who == Joined(cycles[k].participants)
             rs == cycles[k].results
  <2>1. k \in DOMAIN cycles /\ k \in Completed
    BY DEF ReadInvariant, RequestOK, Completed
  <2>2. { rs[u].rank : u \in who } = 1 .. Cardinality(who)
    BY <2>1, CycleFacts DEF FairRanks
  <2>3. \A u \in who : FinalBoard(k).ranks[u] = rs[u].rank
    BY JoinedFinite DEF FinalBoard
  <2> HIDE DEF who
  <2>4. { FinalBoard(k).ranks[u] : u \in who } = { rs[u].rank : u \in who }
    BY <2>3
  <2> QED
    BY <2>2, <2>4 DEF who
<1> QED
  BY <1>1, ReadInvariantHolds, PTL

(* The recent boards number anew what settlement numbered: the rows above  *)
(* the starting cash.  Whoever beats one of them is one of them, so the    *)
(* rank comes out the same, whoever else reconciles.                       *)
LEMMA RecentRanks ==
  ASSUME ReadInvariant, request.kind = "recent",
         NEW k \in Listed, NEW u \in Joined(cycles[k].participants)
  PROVE  RecentBoard(k).ranks[u]
           = IF cycles[k].participants[u].cash > StartingCash
             THEN cycles[k].results[u].rank ELSE 0
<1> DEFINE ps == cycles[k].participants
           rs == cycles[k].results
<1>1. k \in DOMAIN cycles /\ k \in Completed
  BY DEF ReadInvariant, RequestOK, Completed
<1>2. /\ ps \in [Users -> Participant] /\ WholeOK(cycles[k])
      /\ cycles[k].status = "COMPLETED" /\ FairRanks(ps, rs)
  BY <1>1, CycleFacts DEF Completed, InStatus
<1>3. /\ Ranking(k) = Joined(ps)
      /\ Eligible(k) = { v \in Joined(ps) : rs[v].cash > StartingCash }
  BY <1>2 DEF Ranking, Eligible, WholeOK, Joined
<1>4. \A v \in Joined(ps) : /\ rs[v].rank = RankOf(ps, v)
                            /\ rs[v].cash = ps[v].final /\ rs[v].cash = ps[v].cash
                            /\ ps[v].cash \in Nat
  BY <1>2, JoinedFinite DEF FairRanks, Participant
<1>5. /\ u \in Joined(ps) /\ u \in Users /\ Joined(ps) \subseteq Users
      /\ StartingCash \in Nat
  BY JoinedFinite, CycleAssumption
<1>6. RecentBoard(k).ranks[u]
        = IF u \in Eligible(k) THEN 1 + Cardinality(Eligible(k) \cap Ahead(k, u)) ELSE 0
  BY <1>5 DEF RecentBoard, Places
<1>7. CASE ~ (ps[u].cash > StartingCash)
  BY <1>3, <1>4, <1>5, <1>6, <1>7
<1>8. CASE ps[u].cash > StartingCash
  <2>1. u \in Eligible(k)
    BY <1>3, <1>4, <1>5, <1>8
  <2>2. ASSUME NEW v \in Joined(ps)
        PROVE  rs[v].cash > StartingCash /\ v \in Ahead(k, u) <=> Beats(ps[v], ps[u])
    <3>1. v \in Ahead(k, u) <=> \/ rs[v].cash > rs[u].cash
                                \/ rs[v].cash = rs[u].cash /\ ps[v].id < ps[u].id
      BY <1>5 DEF Ahead
    <3>2. /\ rs[v].cash \in Nat /\ rs[u].cash \in Nat /\ rs[u].cash > StartingCash
          /\ ps[v].final = rs[v].cash /\ ps[u].final = rs[u].cash
      BY <1>4, <1>5, <1>8
    <3> HIDE DEF ps, rs
    <3> QED
      BY <1>5, <3>1, <3>2 DEF Beats
  <2>3. Eligible(k) \cap Ahead(k, u) = { v \in Joined(ps) : Beats(ps[v], ps[u]) }
    BY <1>3, <2>2
  <2> QED
    BY <1>4, <1>5, <1>6, <1>8, <2>1, <2>3 DEF RankOf
<1> QED
  BY <1>7, <1>8

(* On a recent board is exactly who ended the round richer than they began *)
(* it, with the rank of the results (getRecentLeaderboards numbers anew,   *)
(* with its own ORDER BY), whoever else reconciles meanwhile.              *)
THEOREM RecentBoardsAgree == ReadSpec => []RecentAgreesWithResults
<1>1. ReadInvariant => RecentAgreesWithResults
  BY RecentRanks DEF RecentAgreesWithResults
<1> QED
  BY <1>1, ReadInvariantHolds, PTL

(* What the rounds promise, they promise beside a reader, which reconciles *)
(* like any other: tables by cash and windows in turn always, one cycle    *)
(* after the other where none is opened over one still to be settled.      *)
THEOREM RoundsGoOnAsBefore ==
  ReadSpec => /\ []RankedByCash /\ ImplementsHurried
              /\ [][OpensAlone]_cycles => []Chained /\ ImplementsLifecycle
<1>1. /\ RoundSpec /\ [][OpensAlone]_cycles => []Chained
      /\ RoundSpec /\ [][OpensAlone]_cycles => ImplementsLifecycle
  BY RoundsAreChained, RoundsAreImplemented
<1> QED
  BY <1>1, ReadersArePlayers, FinalTableByCash, RoundsInAHurry, PTL
=============================================================================
