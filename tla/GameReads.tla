------------------------------ MODULE GameReads ------------------------------
(***************************************************************************)
(* Reading the game (game/gameResultsService.js): the live leaderboard, a  *)
(* completed cycle's results, and the boards of the recent cycles.         *)
(*                                                                         *)
(* No read takes the advisory lock or a snapshot of its own: each of its   *)
(* statements sees what is committed when it runs, so a cycle may end and  *)
(* be settled between the statement that finds it and the one that lists   *)
(* its players.  One reader stands for any number of them: a read changes  *)
(* nothing but through the reconciliation the live leaderboard begins with.*)
(***************************************************************************)
EXTENDS GameRound

CONSTANTS
  Traders,       \* bound on the trades: the users who make them ...
  LastTrade,     \* ... and the time from which none is made
  Reader,        \* a caller of reconcileCycle: the request that reads
  MaxLimit,      \* MAX_RECENT_LEADERBOARDS_LIMIT
  DefaultLimit   \* DEFAULT_RECENT_LEADERBOARDS_LIMIT

ASSUME ReadAssumption ==
  /\ Traders \subseteq Users /\ LastTrade \in Nat
  /\ Reader \in Callers
  /\ MaxLimit \in Nat \ {0} /\ DefaultLimit \in 1 .. MaxLimit

VARIABLE
  request   \* what the reader is doing: the kind of its request and the
            \* cycles whose boards it has yet to read, in order

readVars == <<clock, users, cycles, price, call, joining, request>>

(* The cycles of the request.                                              *)
Listed == { request.todo[i] : i \in DOMAIN request.todo }

NoRequest == [kind |-> "none", todo |-> <<>>]

-----------------------------------------------------------------------------
(* What one statement returns.                                             *)

(* The place of each u of `who`, 0 for anyone else; ahead[u] are those the *)
(* ORDER BY puts before u.                                                 *)
Places(who, ahead) ==
  [u \in Users |-> IF u \in who THEN 1 + Cardinality(who \cap ahead[u]) ELSE 0]

FaultyPlayers(k) == Joined(cycles[k].participants)

(* WHERE cycle_id = $1 AND status = 'ACTIVE'.                              *)
Players(k) ==
  { u \in Users : cycles[k].participants[u].status = "ACTIVE" }

(* ORDER BY wealth DESC, participant_id ASC, at the prices of the moment.  *)
LiveBoard(k) ==
  LET P(u) == cycles[k].participants[u]
      Worth(u) == Wealth(P(u), price)
  IN  [cycle |-> k, total |-> Cardinality(Players(k)),
       ranks |-> Places(Players(k), [u \in Users |-> { v \in Users :
                   \/ Worth(v) > Worth(u)
                   \/ Worth(v) = Worth(u) /\ P(v).id < P(u).id }])]

Ranking(k) == { u \in Users : cycles[k].results[u] # NoResult }

(* The immutable rows, with the ranks settlement gave them.                *)
FinalBoard(k) ==
  [cycle |-> k, total |-> Cardinality(Ranking(k)),
   ranks |-> [u \in Users |-> cycles[k].results[u].rank]]

(* leaderboard_eligible: a finish above the starting cash, nothing less.   *)
Eligible(k) == { u \in Ranking(k) : cycles[k].results[u].cash > StartingCash }

FaultyAhead(k, u) ==
  { v \in Users : cycles[k].results[v].cash > cycles[k].results[u].cash }

(* ORDER BY final_cash DESC, participant_id ASC: whom it puts before u.    *)
Ahead(k, u) ==
  LET R(v) == cycles[k].results[v]
      Id(v) == cycles[k].participants[v].id
  IN  { v \in Users : \/ R(v).cash > R(u).cash
                      \/ R(v).cash = R(u).cash /\ Id(v) < Id(u) }

(* The eligible rows, numbered anew in the order of the read.              *)
RecentBoard(k) ==
  [cycle |-> k, total |-> Cardinality(Ranking(k)),
   ranks |-> Places(Eligible(k), [u \in Users |-> Ahead(k, u)])]

(* ?limit=: absent, or an integer clamped into 1 .. MaxLimit.              *)
RecentLimit(raw) ==
  IF raw = None THEN DefaultLimit ELSE Min({MaxLimit, Max({1, raw})})

(* ... WHERE status = 'COMPLETED' ORDER BY end_time DESC, cycle_id DESC    *)
(* LIMIT n.                                                                *)
Recent(n) ==
  LET done == InStatus("COMPLETED")
      Later(k) == { j \in done : \/ cycles[j].end > cycles[k].end
                                 \/ cycles[j].end = cycles[k].end /\ j > k }
  IN  [i \in 1 .. Min({n, Cardinality(done)}) |->
         CHOOSE k \in done : Cardinality(Later(k)) = i - 1]

-----------------------------------------------------------------------------
(* The requests.                                                           *)

Ask(kind, todo) == request' = [kind |-> kind, todo |-> todo]

(* The board of the next cycle is read, as it is now; the last one is the  *)
(* end of the request.                                                     *)
ReadBoard ==
  /\ request.todo # <<>>
  /\ request' = IF Len(request.todo) = 1 THEN NoRequest
                ELSE [request EXCEPT !.todo = Tail(@)]
  /\ UNCHANGED roundVars

(* getLiveLeaderboard reconciles first.                                    *)
GetLiveLeaderboard ==
  /\ request = NoRequest /\ joining[Reader] = NoJoin
  /\ Reconcile(Reader)
  /\ Ask("reconcile", <<>>)
  /\ UNCHANGED joining

(* The reconciliation fails: a 409 when a cycle is SETTLING, a 500 when    *)
(* none is; nothing is answered.                                           *)
FailLiveLeaderboard ==
  /\ request.kind = "reconcile"
  /\ Fail(Reader)
  /\ request' = NoRequest
  /\ UNCHANGED joining

(* It returned; only then is the ACTIVE cycle looked up.                   *)
ReconciledLive ==
  /\ request.kind = "reconcile" /\ call[Reader].phase = "done"
  /\ request' = [request EXCEPT !.kind = "live"]
  /\ UNCHANGED roundVars

(* A 409 when it is gone by now.                                           *)
FindLiveCycle ==
  /\ request = [kind |-> "live", todo |-> <<>>]
  /\ \/ /\ InStatus("ACTIVE") = {}
        /\ request' = NoRequest
     \/ \E k \in InStatus("ACTIVE") : request' = [request EXCEPT !.todo = <<k>>]
  /\ UNCHANGED roundVars

(* getCycleResults: only of a COMPLETED cycle.                             *)
FaultyServable(k) == cycles[k].status # "ACTIVE"

Servable(k) == cycles[k].status = "COMPLETED"

GetCycleResults ==
  /\ request = NoRequest
  /\ \E k \in DOMAIN cycles : Servable(k) /\ Ask("results", <<k>>)
  /\ UNCHANGED roundVars

(* getRecentLeaderboards lists the cycles, then reads one after another.   *)
GetRecentLeaderboards ==
  /\ request = NoRequest
  /\ \E raw \in {None} \cup 0 .. MaxLimit + 1 : Ask("recent", Recent(RecentLimit(raw)))
  /\ request'.todo # <<>>
  /\ UNCHANGED roundVars

-----------------------------------------------------------------------------

ReadStep ==
  \/ GetLiveLeaderboard \/ FailLiveLeaderboard \/ ReconciledLive \/ FindLiveCycle
  \/ GetCycleResults \/ GetRecentLeaderboards
  \/ ReadBoard

(* Callers that may begin a call; the reader goes on to another while its  *)
(* board is read.                                                          *)
Free == IF request.kind = "reconcile" THEN Callers \ {Reader} ELSE Callers

ReadInit == RoundInit /\ request = NoRequest

ReadNext ==
  \/ ReadStep
  \/ /\ LifecycleStep(Free) \/ RoundStep(Free, IF clock < LastTrade THEN Traders ELSE {})
     /\ UNCHANGED request

ReadSpec == ReadInit /\ [][ReadNext]_readVars

-----------------------------------------------------------------------------
(* Properties.                                                             *)

(* Whatever ends between its statements, a live leaderboard is never part  *)
(* of a table: the board it would be served lists everyone who plays in    *)
(* its cycle, each rank once, or, the cycle having been settled meanwhile, *)
(* nobody at all.                                                          *)
LiveBoardWhole ==
  request.kind = "live" => \A k \in Listed :
    LET who == Joined(cycles[k].participants)
        b == LiveBoard(k)
    IN  IF cycles[k].status = "COMPLETED"
        THEN b.total = 0
        ELSE { b.ranks[u] : u \in who } = 1 .. Cardinality(who)

(* The results of a cycle are the whole table of its settlement, so two    *)
(* readers never see two versions: all who played, ranked 1 .. N.          *)
ResultsWhole ==
  request.kind = "results" => \A k \in Listed :
    LET who == Joined(cycles[k].participants)
    IN  { FinalBoard(k).ranks[u] : u \in who } = 1 .. Cardinality(who)

(* The recent boards are numbered anew at every read, the final tables     *)
(* once at settlement, and the two agree: on a recent board is exactly who *)
(* ended the round richer than they began it, with the rank the results    *)
(* give them, so that equal cash is told apart in the same way twice.      *)
RecentAgreesWithResults ==
  request.kind = "recent" => \A k \in Listed :
    LET ps == cycles[k].participants
    IN  \A u \in Joined(ps) :
          RecentBoard(k).ranks[u] = IF ps[u].cash > StartingCash
                                    THEN cycles[k].results[u].rank ELSE 0
=============================================================================
