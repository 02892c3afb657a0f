------------------------------ MODULE GameRound ------------------------------
(***************************************************************************)
(* Playing a round (game/gameRoundService.js): joining the live cycle and  *)
(* buying and selling coins in it, on top of the lifecycle of GameCycle.   *)
(*                                                                         *)
(* A join first reconciles and then inserts its row in a transaction of    *)
(* its own, so it is a call of GameCycle that goes on from "done"; when a  *)
(* rollover lands in between it reconciles again, with the same `now`.  A  *)
(* trade is one transaction; its `now` was read before it queued for the   *)
(* advisory lock and may be any earlier instant.                           *)
(*                                                                         *)
(* Money is in pennies, a quantity in parts of 1/Scale of a coin.  The     *)
(* append-only trade ledger is left out: no guard reads it.                *)
(***************************************************************************)
EXTENDS GameCycle, FiniteSetsExt

CONSTANTS
  Quantities,    \* the quantities traded, in 1/Scale coins
  Scale,         \* parts of a coin a quantity counts
  JoinAttempts,  \* joinRound's retry bound
  MaxCash,       \* bound on the cash a participant accumulates, and ...
  MaxHeld        \* ... on what it holds of a coin

ASSUME RoundAssumption ==
  /\ Quantities \subseteq Nat \ {0}
  /\ Scale \in Nat \ {0}
  /\ JoinAttempts \in Nat \ {0}
  /\ MaxCash \in Nat /\ MaxHeld \in Nat

VARIABLE
  joining   \* per caller: the joinRound its call belongs to, or NoJoin

roundVars == <<clock, users, cycles, price, call, joining>>

Join == [user : Users \cup {None}, attempt : 0 .. JoinAttempts]
NoJoin == [user |-> None, attempt |-> 0]

-----------------------------------------------------------------------------
(* Joining.                                                                *)

(* joinRound begins: its first pass reconciles.                            *)
JoinRound(c, u) ==
  /\ u \in users
  /\ joining[c] = NoJoin
  /\ Reconcile(c)
  /\ joining' = [joining EXCEPT ![c] = [user |-> u, attempt |-> 1]]

(* lockLiveCycle's condition, and joinRound's: ACTIVE, not expired at now. *)
FaultyLive(k, now) == cycles[k].end > now

Live(k, now) == cycles[k].status = "ACTIVE" /\ cycles[k].end > now

(* INSERT ... ON CONFLICT (cycle_id, user_id) DO NOTHING.                  *)
Inserted(participants, u) == Enrolled(participants, {u})

(* The transaction of one pass: join the live cycle; or, a rollover having *)
(* landed since, reconcile again; or give up after the last attempt.       *)
JoinActiveCycle(c) ==
  LET live == { k \in DOMAIN cycles : Live(k, call[c].now) }
      u == joining[c].user
  IN  /\ call[c].phase = "done"
      /\ joining[c] # NoJoin
      /\ \/ /\ \E k \in live :
                 cycles' = [cycles EXCEPT ![k].participants = Inserted(@, u)]
            /\ joining' = [joining EXCEPT ![c] = NoJoin]
            /\ UNCHANGED call
         \/ /\ live = {} /\ joining[c].attempt < JoinAttempts
            /\ joining' = [joining EXCEPT ![c].attempt = @ + 1]
            /\ Goto(c, "freeze")
            /\ UNCHANGED cycles
         \/ /\ live = {} /\ joining[c].attempt = JoinAttempts
            /\ joining' = [joining EXCEPT ![c] = NoJoin]
            /\ UNCHANGED <<cycles, call>>
      /\ UNCHANGED <<clock, users, price>>

(* A pass of joinRound throws: nothing of it remains.                      *)
FailJoin(c) ==
  /\ joining[c] # NoJoin
  /\ joining' = [joining EXCEPT ![c] = NoJoin]
  /\ call' = [call EXCEPT ![c] = [phase |-> "idle", now |-> 0]]
  /\ UNCHANGED <<clock, users, cycles, price>>

-----------------------------------------------------------------------------
(* Trading.                                                                *)

(* round2(quantity * price): to the penny, halves up.                      *)
Total(q, p) == RoundDiv(q * p, Scale)

(* Cash plus the value of the holdings, at the prices of one batch.        *)
Wealth(p, prices) ==
  RoundDiv(Scale * p.cash
             + MapThenSumSet(LAMBDA c : p.holds[c] * prices[c], Coins), Scale)

(* refreshWealthAndPeak: GREATEST(peak_wealth, wealth).                    *)
Lifted(p, prices) ==
  [p EXCEPT !.peak = IF Wealth(p, prices) > @ THEN Wealth(p, prices) ELSE @]

FaultyWorthTrading(total) == TRUE

(* assertMinTradeValue: GAME_MIN_TRADE_VALUE is a penny.                   *)
WorthTrading(total) == total >= 1

(* The debit's own WHERE clause: current_cash >= total.                    *)
Affordable(p, total) == p.cash >= total

FaultyCollapsedInCycle(k, coin) == FALSE

(* isCoinCollapsedInCycle.                                                 *)
CollapsedInCycle(k, coin) == cycles[k].schedule[coin].done # None

(* The trade's writes to its participant: cash, holding, peak.             *)
Traded(k, u, coin, cash, quantity) ==
  LET p == cycles[k].participants[u]
      dealt == [p EXCEPT !.cash = p.cash + cash,
                         !.holds[coin] = p.holds[coin] + quantity]
  IN  [cycles EXCEPT ![k].participants[u] = Lifted(dealt, price)]

(* The checks of a purchase, all of them made under the advisory lock.     *)
BuyAllowed(k, u, coin, q, now) ==
  LET p == cycles[k].participants[u]
      total == Total(q, price[coin])
  IN  /\ Live(k, now)
      /\ coin \notin Retired
      /\ p.status = "ACTIVE"
      /\ ~ CollapsedInCycle(k, coin)
      /\ price[coin] > 0
      /\ WorthTrading(total)
      /\ Affordable(p, total)

(* The checks of a sale.  A collapsed coin sells too, at zero.             *)
SellAllowed(k, u, coin, q, now) ==
  LET p == cycles[k].participants[u]
  IN  /\ Live(k, now)
      /\ p.status = "ACTIVE"
      /\ p.holds[coin] >= q
      /\ price[coin] > 0 => WorthTrading(Total(q, price[coin]))

BuyRoundTrade(k, u, coin, q, now) ==
  /\ BuyAllowed(k, u, coin, q, now)
  /\ cycles[k].participants[u].holds[coin] + q <= MaxHeld
  /\ cycles' = Traded(k, u, coin, -Total(q, price[coin]), q)
  /\ UNCHANGED <<clock, users, price, call, joining>>

SellRoundTrade(k, u, coin, q, now) ==
  /\ SellAllowed(k, u, coin, q, now)
  /\ cycles[k].participants[u].cash + Total(q, price[coin]) <= MaxCash
  /\ cycles' = Traded(k, u, coin, Total(q, price[coin]), -q)
  /\ UNCHANGED <<clock, users, price, call, joining>>

-----------------------------------------------------------------------------

(* The lifecycle's own steps, the calls begun by the callers of `who`; a   *)
(* caller inside a join begins no other call.                              *)
LifecycleStep(who) ==
  /\ \/ Tick
     \/ \E u \in Users : RegisterUser(u)
     \/ \E c \in who : joining[c] = NoJoin /\ (Reconcile(c) \/ Fail(c))
     \/ \E c \in Callers : \/ FreezeExpiredActiveCycle(c)
                           \/ SettleSettlingCycle(c)
                           \/ EnsureActiveCycle(c)
  /\ UNCHANGED joining

(* What the users of `players` do, their joins run by the callers of `who`.*)
RoundStep(who, players) ==
  \/ \E c \in who : \/ \E u \in players : JoinRound(c, u)
                    \/ JoinActiveCycle(c)
                    \/ FailJoin(c)
  \/ \E k \in DOMAIN cycles : \E u \in players : \E coin \in Coins :
     \E q \in Quantities : \E now \in 0 .. clock :
       \/ BuyRoundTrade(k, u, coin, q, now)
       \/ SellRoundTrade(k, u, coin, q, now)

RoundInit == Init /\ joining = [c \in Callers |-> NoJoin]

RoundNext == LifecycleStep(Callers) \/ RoundStep(Callers, Users)

RoundSpec == RoundInit /\ [][RoundNext]_roundVars

-----------------------------------------------------------------------------
(* Properties.                                                             *)

(* The lifecycle's rows stay typed under trading; so cash and holdings are *)
(* never negative (the CHECK constraints of migration 009).                *)
RoundTypeOK ==
  /\ TypeOK
  /\ joining \in [Callers -> Join]

(* Every participant a step finds and leaves in the same cycle satisfies R.*)
EachParticipant(R(_, _, _)) ==
  \A k \in DOMAIN cycles : \A u \in Joined(cycles[k].participants) :
    R(k, cycles[k].participants[u], cycles'[k].participants[u])

(* One trade of one coin at the price of the moment, to half a penny.      *)
FairDeal(p, q, coin) ==
  LET gain == Scale * (q.cash - p.cash) + (q.holds[coin] - p.holds[coin]) * price[coin]
  IN  /\ 2 * gain \in -Scale .. Scale
      /\ \A d \in Coins \ {coin} : q.holds[d] = p.holds[d]

(* Taking part is once and for all: whoever is in a cycle keeps their      *)
(* number and the peak they have reached, and their cash and holdings are  *)
(* moved by single trades at the live price alone, never by a join asked   *)
(* for again, a reconciliation that enrols everybody, a retry or a         *)
(* settlement; finalized, they are left alone.                             *)
EnrolledOnce ==
  [][EachParticipant(LAMBDA k, p, q :
       /\ q.id = p.id /\ p.peak <= q.peak
       /\ p.status = "FINALIZED" => q = p
       /\ q.cash # p.cash \/ q.holds # p.holds =>
            /\ UNCHANGED <<clock, users, price, call, joining>>
            /\ \E coin \in Coins : FairDeal(p, q, coin))]_roundVars

(* Nothing is had for nothing: holdings only grow when cash falls, cash    *)
(* only grows when a holding falls, and a coin still worth something is    *)
(* never given away: no repeated join, rollover or rounding mints either.  *)
NothingForFree ==
  [][EachParticipant(LAMBDA k, p, q :
       /\ (\E c \in Coins : q.holds[c] > p.holds[c]) => q.cash < p.cash
       /\ q.cash > p.cash => \E c \in Coins : q.holds[c] < p.holds[c]
       /\ \A c \in Coins :
            q.holds[c] < p.holds[c] /\ price[c] > 0 => q.cash > p.cash)]_roundVars

(* A cycle that is no longer ACTIVE is frozen: nobody joins it and nobody  *)
(* trades in it, however old the `now` a late request carries.             *)
FrozenIsFrozen ==
  [][\A k \in DOMAIN cycles : cycles[k].status # "ACTIVE" =>
       /\ Joined(cycles'[k].participants) = Joined(cycles[k].participants)
       /\ EachParticipant(LAMBDA j, p, q :
            j = k => q.cash = p.cash /\ q.holds = p.holds)]_roundVars

(* The recorded peak is never below the wealth a player has right now,     *)
(* cash and live holdings together, while the round is on.                 *)
PeakCoversWealth ==
  \A k \in InStatus("ACTIVE") : \A u \in Joined(cycles[k].participants) :
    cycles[k].participants[u].peak >= Wealth(cycles[k].participants[u], price)

(* The final table is ordered by the cash players ended with: who ranks    *)
(* better never has less, and the cash shown is the cash they had.         *)
RankedByCash ==
  \A k \in InStatus("COMPLETED") :
    LET ps == cycles[k].participants
        rs == cycles[k].results
    IN  \A u, v \in Joined(ps) :
          /\ rs[u].cash = ps[u].cash
          /\ rs[u].rank < rs[v].rank => ps[u].cash >= ps[v].cash
=============================================================================
