---------------------------- MODULE LegacyTrading ----------------------------
(***************************************************************************)
(* Trading outside the rounds (controllers/transactions.controller.js,     *)
(* models/transactions.model.js): account funds and portfolios, with       *)
(* funds updates and account removal (models/users.model.js), beside the   *)
(* game lifecycle that moves the prices.                                   *)
(*                                                                         *)
(* A request reads the coin, a buy then asks whether it has collapsed, and *)
(* only then its transaction begins, at the price read.  The transaction   *)
(* takes its row locks one after the other and keeps them to its end, so   *)
(* its writes show at COMMIT alone; who holds a lock is told by the stages *)
(* of the requests. A buy locks the account and then the holding, a sale   *)
(* the holding and then the account: they can deadlock, and the database   *)
(* then aborts one of them. An INSERT that names a user shares the key of  *)
(* the user's row, and so waits for a buy that has locked it.              *)
(*                                                                         *)
(* Money is in pennies, an amount in parts of 1/Scale of a coin; a DECIMAL *)
(* column rounds what is stored in it.                                     *)
(***************************************************************************)
EXTENDS GameCycle

CONSTANTS
  Requests,       \* requests in flight at one time
  Amounts,        \* what they trade, in 1/Scale coins
  Scale,          \* parts of a coin an amount counts
  Grain,          \* portfolios.quantity keeps multiples of it (0.01 coins)
  StartingFunds,  \* the 1000.00 of createUser
  Adjustments,    \* the amounts of funds updates, either sign
  MaxMovements    \* bound on the ledger rows and adjustments of a user

ASSUME LegacyAssumption ==
  /\ Amounts \subseteq Nat \ {0}
  /\ Scale \in Nat \ {0} /\ Grain \in Nat \ {0}
  /\ StartingFunds \in Nat
  /\ Adjustments \subseteq Int
  /\ MaxMovements \in Nat

VARIABLES
  funds,      \* users.funds
  portfolio,  \* portfolios.quantity, None without a row
  ledger,     \* what a user's transactions and adjustments add up to
  removed,    \* accounts deleted
  req         \* the requests

account == <<funds, portfolio, ledger, removed>>
legacyVars == <<vars, account, req>>

(* The totals are exact where the columns round: paid in 1/Scale pennies   *)
(* and traded in 1/Scale coins by buys and sales, recorded by bare ledger  *)
(* rows, adjusted by funds updates; rows counts them all.                  *)
Ledger == [paid : Int, traded : [Coins -> Int], recorded : [Coins -> Int],
           adjusted : Int, rows : Nat]
NoLedger == [paid |-> 0, traded |-> [c \in Coins |-> 0],
             recorded |-> [c \in Coins |-> 0], adjusted |-> 0, rows |-> 0]

Request ==
  [stage : {"none", "priced", "cleared", "debiting", "storing", "selling",
            "recording"},
   kind : {"NONE", "BUY", "SELL"}, user : Users \cup {None},
   coin : Coins \cup {None}, amount : Nat, price : Nat, found : BOOLEAN]
NoRequest == [stage |-> "none", kind |-> "NONE", user |-> None, coin |-> None,
              amount |-> 0, price |-> 0, found |-> FALSE]

At(r, stage) == req' = [req EXCEPT ![r].stage = stage]
Ends(r) == req' = [req EXCEPT ![r] = NoRequest]

FaultyFundsFree(u) == TRUE

(* No transaction holds the lock on the user's row ...                     *)
FundsFree(u) ==
  \A r \in Requests : req[r].stage \in {"debiting", "storing"} => req[r].user # u

(* ... on one of his holdings.                                             *)
HoldingFree(u, coin) ==
  \A r \in Requests : req[r].stage = "selling" =>
    <<req[r].user, req[r].coin>> # <<u, coin>>

FaultyStored(x, grain) == x \div grain

(* What a numeric column keeps of x.                                       *)
Stored(x, grain) == RoundDiv(x, grain)

(* A ledger with the trade of request q.                                   *)
Booked(l, q) ==
  LET sign == IF q.kind = "BUY" THEN 1 ELSE -1
  IN  [l EXCEPT !.paid = @ + sign * q.amount * q.price,
                !.traded[q.coin] = @ + sign * q.amount, !.rows = @ + 1]

(* Room for one more movement after those under way.                       *)
Room(u) ==
  ledger[u].rows + Cardinality({r \in Requests : req[r].user = u}) < MaxMovements

-----------------------------------------------------------------------------
(* Accounts.                                                               *)

(* createUser.                                                             *)
OpenAccount(u) ==
  /\ u \notin removed
  /\ RegisterUser(u)
  /\ funds' = [funds EXCEPT ![u] = StartingFunds]
  /\ UNCHANGED <<portfolio, ledger, removed, req>>

(* The guarded UPDATE finds a row: WHERE user_id = $2 AND funds + $1 >= 0. *)
Covered(u, amount) == u \in users /\ funds[u] + amount >= 0

(* updateUserFunds: that UPDATE alone, which waits for the row.            *)
UpdateUserFunds(u, amount) ==
  /\ FundsFree(u)
  /\ Covered(u, amount)
  /\ Room(u)
  /\ funds' = [funds EXCEPT ![u] = @ + amount]
  /\ ledger' = [ledger EXCEPT ![u].adjusted = @ + amount, ![u].rows = @ + 1]
  /\ UNCHANGED <<vars, portfolio, removed, req>>

(* The DELETE succeeds: a participant row of any cycle makes it fail.      *)
Removable(u) ==
  u \in users /\ \A k \in DOMAIN cycles : u \notin Joined(cycles[k].participants)

(* removeUser: portfolios and transactions cascade.                        *)
RemoveUser(u) ==
  /\ Removable(u)
  /\ FundsFree(u)
  /\ \A c \in Coins : HoldingFree(u, c)
  /\ users' = users \ {u}
  /\ removed' = removed \cup {u}
  /\ funds' = [funds EXCEPT ![u] = 0]
  /\ portfolio' = [portfolio EXCEPT ![u] = [c \in Coins |-> None]]
  /\ ledger' = [ledger EXCEPT ![u] = NoLedger]
  /\ UNCHANGED <<clock, cycles, price, call, req>>

-----------------------------------------------------------------------------
(* Buying and selling.                                                     *)

(* The controller reads the coin's row: its price, and for a buy whether   *)
(* it is retired.                                                          *)
ReadCoin(r, kind, u, coin, amount) ==
  /\ req[r] = NoRequest
  /\ u \in users
  /\ Room(u)
  /\ kind = "BUY" => coin \notin Retired
  /\ req' = [req EXCEPT ![r] =
       [stage |-> IF kind = "BUY" THEN "priced" ELSE "cleared", kind |-> kind,
        user |-> u, coin |-> coin, amount |-> amount, price |-> price[coin],
        found |-> FALSE]]
  /\ UNCHANGED <<vars, account>>

FaultyIsCoinCollapsed(coin) == FALSE

(* isCoinCollapsed: executed in a cycle ACTIVE or SETTLING.                *)
IsCoinCollapsed(coin) ==
  \E k \in InStatus("ACTIVE") \cup InStatus("SETTLING") :
    cycles[k].schedule[coin].done # None

CheckCollapse(r) ==
  /\ req[r].stage = "priced"
  /\ IF IsCoinCollapsed(req[r].coin) THEN Ends(r) ELSE At(r, "cleared")
  /\ UNCHANGED <<vars, account>>

(* BEGIN, SELECT funds FOR UPDATE, and the check against the unrounded     *)
(* cost; an account that is gone has no funds.                             *)
LockFunds(r) ==
  LET q == req[r]
  IN  /\ q.stage = "cleared" /\ q.kind = "BUY"
      /\ FundsFree(q.user)
      /\ IF q.user \in users /\ Scale * funds[q.user] >= q.amount * q.price
         THEN At(r, "debiting") ELSE Ends(r)
      /\ UNCHANGED <<vars, account>>

(* updatePortfolioOnClient looks whether there is a row, without a lock.   *)
FindHolding(r) ==
  LET q == req[r]
  IN  /\ q.stage = "debiting"
      /\ req' = [req EXCEPT ![r].stage = "storing",
                            ![r].found = portfolio[q.user][q.coin] # None]
      /\ UNCHANGED <<vars, account>>

FaultyAdded(holding, found, amount) ==
  Grain * Stored((IF found THEN holding ELSE 0)
                   + (IF amount < 0 THEN -amount ELSE amount), Grain)

(* Its INSERT or UPDATE.                                                   *)
Added(holding, found, amount) ==
  Grain * Stored((IF found THEN holding ELSE 0) + amount, Grain)

(* The UPDATE waits for the row; an INSERT over a row that has appeared    *)
(* since would fail.  Then COMMIT.                                         *)
CommitBuy(r) ==
  LET q == req[r]
      u == q.user
  IN  /\ q.stage = "storing"
      /\ HoldingFree(u, q.coin)
      /\ q.found <=> portfolio[u][q.coin] # None
      /\ funds' = [funds EXCEPT ![u] = Stored(Scale * @ - q.amount * q.price, Scale)]
      /\ portfolio' = [portfolio EXCEPT ![u][q.coin] = Added(@, q.found, q.amount)]
      /\ ledger' = [ledger EXCEPT ![u] = Booked(@, q)]
      /\ Ends(r)
      /\ UNCHANGED <<vars, removed>>

(* BEGIN, SELECT quantity FOR UPDATE and the check of the quantity.        *)
LockHolding(r) ==
  LET q == req[r]
  IN  /\ q.stage = "cleared" /\ q.kind = "SELL"
      /\ HoldingFree(q.user, q.coin)
      /\ IF portfolio[q.user][q.coin] >= q.amount THEN At(r, "selling") ELSE Ends(r)
      /\ UNCHANGED <<vars, account>>

(* The credit waits for the user's row; then everything commits.           *)
CommitSell(r) ==
  LET q == req[r]
      u == q.user
  IN  /\ q.stage = "selling"
      /\ FundsFree(u)
      /\ funds' = [funds EXCEPT ![u] = Stored(Scale * @ + q.amount * q.price, Scale)]
      /\ portfolio' = [portfolio EXCEPT ![u][q.coin] = Added(@, TRUE, -q.amount)]
      /\ ledger' = [ledger EXCEPT ![u] = Booked(@, q)]
      /\ Ends(r)
      /\ UNCHANGED <<vars, removed>>

FaultyDeadlocked(r, s) == FALSE

(* A buy that waits for the holding a sale has locked, while the sale      *)
(* waits for the account the buy has locked.                               *)
Deadlocked(r, s) ==
  /\ req[r].stage = "storing" /\ req[r].found
  /\ req[s].stage = "selling"
  /\ <<req[r].user, req[r].coin>> = <<req[s].user, req[s].coin>>

(* The database aborts one of the two, and its transaction rolls back.     *)
AbortDeadlock(r) ==
  /\ \E s \in Requests : Deadlocked(r, s) \/ Deadlocked(s, r)
  /\ Ends(r)
  /\ UNCHANGED <<vars, account>>

(* A statement fails: ROLLBACK.                                            *)
FailTrade(r) ==
  /\ req[r].stage \in {"debiting", "storing", "selling"}
  /\ Ends(r)
  /\ UNCHANGED <<vars, account>>

-----------------------------------------------------------------------------
(* createTransaction: a bare ledger row, at the client's own price.        *)

Balance(u, coin) == ledger[u].traded[coin] + ledger[u].recorded[coin]

(* A SELL first adds up the user's rows.                                   *)
CountBalance(r, kind, u, coin, amount) ==
  /\ req[r] = NoRequest
  /\ u \in users
  /\ Room(u)
  /\ kind = "SELL" => Balance(u, coin) >= amount
  /\ req' = [req EXCEPT ![r] =
       [NoRequest EXCEPT !.stage = "recording", !.kind = kind, !.user = u,
                         !.coin = coin, !.amount = amount]]
  /\ UNCHANGED <<vars, account>>

(* Then it inserts, once the key of the user's row can be shared, unless   *)
(* the account is gone.                                                    *)
InsertTransaction(r) ==
  LET q == req[r]
      change == IF q.kind = "BUY" THEN q.amount ELSE -q.amount
  IN  /\ q.stage = "recording"
      /\ FundsFree(q.user)
      /\ \/ /\ q.user \in users
            /\ ledger' = [ledger EXCEPT ![q.user].recorded[q.coin] = @ + change,
                                        ![q.user].rows = @ + 1]
         \/ q.user \notin users /\ UNCHANGED ledger
      /\ Ends(r)
      /\ UNCHANGED <<vars, funds, portfolio, removed>>

-----------------------------------------------------------------------------

(* So does a phase that enrols somebody.                                   *)
EnrolsUnlocked ==
  \A k \in DOMAIN cycles' : \A u \in Joined(cycles'[k].participants) :
    (k \in DOMAIN cycles => u \notin Joined(cycles[k].participants)) => FundsFree(u)

(* What becomes of a request once it has begun.                            *)
Progress(r) ==
  \/ CheckCollapse(r) \/ LockFunds(r) \/ FindHolding(r) \/ CommitBuy(r)
  \/ LockHolding(r) \/ CommitSell(r) \/ InsertTransaction(r) \/ AbortDeadlock(r)

LegacyInit ==
  /\ Init
  /\ funds = [u \in Users |-> 0]
  /\ portfolio = [u \in Users |-> [c \in Coins |-> None]]
  /\ ledger = [u \in Users |-> NoLedger]
  /\ removed = {}
  /\ req = [r \in Requests |-> NoRequest]

LegacyNext ==
  \/ CycleStep /\ EnrolsUnlocked /\ UNCHANGED <<account, req>>
  \/ \E u \in Users : \/ OpenAccount(u)
                      \/ \E amount \in Adjustments : UpdateUserFunds(u, amount)
                      \/ RemoveUser(u)
  \/ \E r \in Requests : \/ Progress(r) \/ FailTrade(r)
  \/ \E r \in Requests, kind \in {"BUY", "SELL"}, u \in Users, coin \in Coins,
        amount \in Amounts :
       \/ ReadCoin(r, kind, u, coin, amount)
       \/ CountBalance(r, kind, u, coin, amount)

LegacySpec == LegacyInit /\ [][LegacyNext]_legacyVars

-----------------------------------------------------------------------------
(* Properties.                                                             *)

(* Every row has its type.  However many requests of one user run at the   *)
(* same time, neither funds nor a holding is ever overdrawn, though no     *)
(* CHECK constraint guards these columns.                                  *)
LegacyTypeOK ==
  /\ funds \in [Users -> Nat]
  /\ portfolio \in [Users -> [Coins -> Nat \cup {None}]]
  /\ ledger \in [Users -> Ledger]
  /\ removed \subseteq Users
  /\ req \in [Requests -> Request]

Magnitude(x) == IF x < 0 THEN -x ELSE x

(* Money is conserved: an account holds its opening balance, its           *)
(* adjustments and what its trades paid, to half a penny for each trade.   *)
MoneyBalances ==
  \A u \in users :
    2 * Magnitude(Scale * (funds[u] - StartingFunds - ledger[u].adjusted)
                    + ledger[u].paid)
      <= Scale * ledger[u].rows

(* Coins are conserved: a holding is what was bought less what was sold,   *)
(* to half of the column's grain for each trade, and no row is ever        *)
(* written twice, lost or left behind by a transaction that rolled back.   *)
HoldingsBalance ==
  \A u \in users : \A c \in Coins :
    LET held == IF portfolio[u][c] = None THEN 0 ELSE portfolio[u][c]
    IN  2 * Magnitude(held - ledger[u].traded[c]) <= Grain * ledger[u].rows

(* What a request under way needs next is free, or it waits in a circle,   *)
(* which the database breaks.                                              *)
Unblocked(r) ==
  LET q == req[r]
      u == q.user
  IN  \/ q.stage \in {"priced", "debiting"}
      \/ q.stage = "recording" /\ FundsFree(u)
      \/ q.stage = "cleared" /\ q.kind = "BUY" /\ FundsFree(u)
      \/ q.stage = "cleared" /\ q.kind = "SELL" /\ HoldingFree(u, q.coin)
      \/ q.stage = "storing" /\ HoldingFree(u, q.coin)
      \/ q.stage = "selling" /\ FundsFree(u)
      \/ \E s \in Requests : Deadlocked(r, s) \/ Deadlocked(s, r)

(* Buys and sales of one holding take their locks in opposite orders, yet  *)
(* requests never all wait for one another: one of those begun can go on.  *)
RequestsNeverStuck ==
  (\E r \in Requests : req[r].stage # "none") => \E r \in Requests : Unblocked(r)

(* A request waits for nothing but locks: each check lets it pass or ends  *)
(* it, and what a buy inserts is never there already, though it looked     *)
(* without a lock on the holding.                                          *)
OnlyLocksHoldUp == \A r \in Requests : Unblocked(r) => ENABLED Progress(r)

(* A price of zero gets past the collapse check only once a round is over: *)
(* while the first one lives, a collapsed coin cannot be bought for        *)
(* nothing, whatever its collapse races with.                              *)
ZeroPriceAfterRoundOnly ==
  \A r \in Requests :
    (req[r].kind = "BUY" /\ req[r].price = 0
       /\ req[r].stage \in {"cleared", "debiting", "storing"})
      => InStatus("COMPLETED") # {}

(* Buying at zero "would hand out free coins for nothing"                  *)
(* (transactions.controller.js:167): a holding grows only when its owner   *)
(* pays.                                                                   *)
NoFreeCoins ==
  [][\A u \in Users, c \in Coins :
       portfolio'[u][c] > portfolio[u][c] => funds'[u] < funds[u]]_legacyVars
=============================================================================
