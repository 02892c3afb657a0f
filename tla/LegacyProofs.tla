----------------------------- MODULE LegacyProofs -----------------------------
(***************************************************************************)
(* Theorems about LegacyTrading, for every set of requests, users, coins   *)
(* and callers.                                                            *)
(*                                                                         *)
(* Nothing but the row locks keeps funds and holdings from being           *)
(* overdrawn: a request checks what it spends under a lock and keeps it    *)
(* until it has written.  The inductive invariant says so, request by      *)
(* request (RequestOK): while it holds a lock its account exists and still *)
(* covers what it checked, and no two hold the same lock.  To it belong    *)
(* the balances, which each rounded write moves by half a unit at most.    *)
(***************************************************************************)
EXTENDS LegacyTrading, GameCycleProofs

(* A request in flight knows what it trades; one that holds a lock spends  *)
(* no more than what the lock guards, of an account that exists.           *)
RequestOK(q) ==
  /\ q \in Request
  /\ q.stage # "none" => /\ q.kind \in {"BUY", "SELL"} /\ q.user \in Users
                         /\ q.coin \in Coins /\ q.amount > 0
  /\ q.stage = "priced" => q.kind = "BUY"
  /\ q.stage \in {"debiting", "storing"} =>
       /\ q.kind = "BUY" /\ q.user \in users
       /\ Scale * funds[q.user] >= q.amount * q.price
  /\ q.stage = "selling" =>
       /\ q.kind = "SELL" /\ q.user \in users
       /\ portfolio[q.user][q.coin] >= q.amount

(* They do not hold the same lock.                                         *)
Apart(q, p) ==
  /\ q.stage \in {"debiting", "storing"} /\ p.stage \in {"debiting", "storing"}
       => q.user # p.user
  /\ q.stage = "selling" /\ p.stage = "selling"
       => <<q.user, q.coin>> # <<p.user, p.coin>>

RequestsOK ==
  /\ req \in [Requests -> Request]
  /\ \A r \in Requests : RequestOK(req[r])
  /\ \A r, s \in Requests : r # s => Apart(req[r], req[s])

(* MoneyBalances and HoldingsBalance, of one account.                      *)
MoneyOK(f, l) ==
  2 * Magnitude(Scale * (f - StartingFunds - l.adjusted) + l.paid) <= Scale * l.rows

Held(holding) == IF holding = None THEN 0 ELSE holding

CoinsOK(p, l) ==
  \A c \in Coins : 2 * Magnitude(Held(p[c]) - l.traded[c]) <= Grain * l.rows

Portfolio == [Coins -> Nat \cup {None}]
NoPortfolio == [c \in Coins |-> None]

(* Accounts are typed and balanced, and an account not open has no trace.  *)
AccountsOK ==
  /\ funds \in [Users -> Nat] /\ portfolio \in [Users -> Portfolio]
  /\ ledger \in [Users -> Ledger] /\ removed \subseteq Users
  /\ \A u \in users : MoneyOK(funds[u], ledger[u]) /\ CoinsOK(portfolio[u], ledger[u])
  /\ \A u \in Users \ users : ledger[u] = NoLedger /\ portfolio[u] = NoPortfolio

-----------------------------------------------------------------------------
(* Rounding.                                                               *)

(* A write that errs by half of a unit adds one to the units a balance may *)
(* be off by.                                                              *)
LEMMA DriftAdds ==
  ASSUME NEW x \in Int, NEW e \in Int, NEW g \in Nat, NEW n \in Nat,
         2 * Magnitude(x) <= g * n, - g <= 2 * e, 2 * e <= g
  PROVE  2 * Magnitude(x + e) <= g * (n + 1)
<1>1. g * (n + 1) = g * n + g /\ g * n \in Int
  BY SMT
<1> QED
  BY <1>1 DEF Magnitude

(* What is paid moves an account's funds as far, to half a penny.          *)
LEMMA MoneyMoves ==
  ASSUME NEW f \in Nat, NEW l \in Ledger, MoneyOK(f, l), NEW cost \in Int,
         NEW m \in Ledger, m.adjusted = l.adjusted, m.paid = l.paid + cost,
         m.rows = l.rows + 1, Scale * f >= cost
  PROVE  /\ Stored(Scale * f - cost, Scale) \in Nat
         /\ MoneyOK(Stored(Scale * f - cost, Scale), m)
<1> DEFINE a == Scale * f - cost
           g == RoundDiv(a, Scale)
           e == Scale * g - a
           x == Scale * (f - StartingFunds - l.adjusted) + l.paid
<1>1. /\ Scale \in Nat /\ Scale > 0 /\ StartingFunds \in Nat
      /\ l.adjusted \in Int /\ l.paid \in Int /\ l.rows \in Nat
  BY LegacyAssumption DEF Ledger
<1>2. Scale * f \in Int /\ a \in Int /\ a >= 0
  BY <1>1, SMT
<1> HIDE DEF a
<1>3. g \in Nat /\ - Scale <= 2 * e /\ 2 * e <= Scale
  BY <1>1, <1>2, RoundDivNear
<1> HIDE DEF g
<1>4. e \in Int /\ x \in Int /\ 2 * Magnitude(x) <= Scale * l.rows
  BY <1>1, <1>2, <1>3, SMT DEF MoneyOK
<1>5. Scale * (g - StartingFunds - m.adjusted) + m.paid = x + e
  BY <1>1, <1>2, <1>3, SMT DEF a
<1> HIDE DEF x, e
<1>6. 2 * Magnitude(x + e) <= Scale * (l.rows + 1)
  BY <1>1, <1>3, <1>4, DriftAdds
<1> QED
  BY <1>3, <1>5, <1>6 DEF MoneyOK, Stored, g, a

(* What is traded moves a holding as far, to half of the column's grain.   *)
LEMMA HoldingMoves ==
  ASSUME NEW p \in Portfolio, NEW l \in Ledger, CoinsOK(p, l), NEW coin \in Coins,
         NEW amount \in Int, NEW found \in BOOLEAN, found <=> p[coin] # None,
         Held(p[coin]) + amount >= 0,
         NEW m \in Ledger, m.traded[coin] = l.traded[coin] + amount,
         \A c \in Coins \ {coin} : m.traded[c] = l.traded[c], m.rows = l.rows + 1
  PROVE  LET new == [p EXCEPT ![coin] = Added(p[coin], found, amount)]
         IN  new \in Portfolio /\ CoinsOK(new, m)
<1> DEFINE h == Held(p[coin])
           a == h + amount
           g == RoundDiv(a, Grain)
           e == Grain * g - a
           new == [p EXCEPT ![coin] = Added(p[coin], found, amount)]
<1>1. /\ Grain \in Nat /\ Grain > 0 /\ l.rows \in Nat
      /\ \A c \in Coins : l.traded[c] \in Int /\ Held(p[c]) \in Nat
  BY LegacyAssumption DEF Ledger, Portfolio, Held
<1>2. h \in Nat /\ a \in Int /\ a >= 0
  BY <1>1
<1>3. Added(p[coin], found, amount) = Grain * g
  BY DEF Added, Stored, Held
<1> HIDE DEF h
<1>4. g \in Nat /\ - Grain <= 2 * e /\ 2 * e <= Grain
  <2> HIDE DEF a
  <2> QED
    BY <1>1, <1>2, RoundDivNear
<1> HIDE DEF g
<1>5. Grain * g \in Nat /\ e \in Int /\ e = Grain * g - h - amount
  BY <1>1, <1>2, <1>4, SMT
<1>6. new \in Portfolio
  BY <1>3, <1>5 DEF Portfolio
<1>7. new[coin] = Grain * g /\ \A c \in Coins \ {coin} : new[c] = p[c]
  BY <1>3 DEF Portfolio
<1> HIDE DEF new, e
<1>8. ASSUME NEW c \in Coins
      PROVE  2 * Magnitude(Held(new[c]) - m.traded[c]) <= Grain * m.rows
  <2> DEFINE x == Held(p[c]) - l.traded[c]
  <2>1. x \in Int /\ 2 * Magnitude(x) <= Grain * l.rows
    BY <1>1 DEF CoinsOK
  <2>2. CASE c = coin
    <3>1. Held(new[c]) - m.traded[c] = x + e
      BY <1>1, <1>2, <1>5, <1>7, <2>2 DEF Held, None, h
    <3> HIDE DEF x
    <3> QED
      BY <1>1, <1>4, <1>5, <2>1, <3>1, DriftAdds DEF e
  <2>3. CASE c # coin
    <3>1. Held(new[c]) - m.traded[c] = x
      BY <1>7, <2>3
    <3>2. Grain * (l.rows + 1) = Grain * l.rows + Grain /\ Grain * l.rows \in Int
      BY <1>1, SMT
    <3> HIDE DEF x
    <3> QED
      BY <1>1, <2>1, <3>1, <3>2 DEF Magnitude
  <2> QED
    BY <2>2, <2>3
<1> QED
  BY <1>6, <1>8 DEF CoinsOK, new

-----------------------------------------------------------------------------
(* Requests.                                                               *)

(* What a request may still rely on after a step of somebody else.         *)
Relies(q) ==
  /\ q.stage \in {"debiting", "storing"} =>
       q.user \in users' /\ funds'[q.user] = funds[q.user]
  /\ q.stage = "selling" =>
       q.user \in users' /\ portfolio'[q.user][q.coin] = portfolio[q.user][q.coin]

(* The empty request relies on nothing.                                    *)
LEMMA NoRequestOK == NoRequest \in Request /\ RequestOK(NoRequest) /\ RequestOK(NoRequest)'
BY DEF NoRequest, Request, RequestOK

(* A step after which each request goes on as it was or has ended.         *)
LEMMA RequestsGoOn ==
  ASSUME RequestsOK, req' \in [Requests -> Request],
         \A r \in Requests : \/ req'[r] = NoRequest
                             \/ req'[r] = req[r] /\ Relies(req[r])
  PROVE  RequestsOK'
<1>1. ASSUME NEW r \in Requests PROVE RequestOK(req[r])'
  <2>1. CASE req'[r] = NoRequest
    BY <2>1, NoRequestOK DEF RequestOK, NoRequest
  <2>2. CASE req'[r] = req[r] /\ Relies(req[r])
    <3>1. RequestOK(req[r])
      BY DEF RequestsOK
    <3> QED
      BY <2>2, <3>1 DEF RequestOK, Relies
  <2> QED
    BY <2>1, <2>2
<1>2. ASSUME NEW r \in Requests, NEW s \in Requests, r # s
      PROVE  Apart(req'[r], req'[s])
  <2>1. Apart(req[r], req[s])
    BY <1>2 DEF RequestsOK
  <2> QED
    BY <2>1 DEF Apart, NoRequest
<1> QED
  BY <1>1, <1>2 DEF RequestsOK

(* A step of one request that writes nothing.                              *)
LEMMA RequestMoves ==
  ASSUME RequestsOK, UNCHANGED <<users, funds, portfolio>>, NEW r \in Requests,
         NEW q, RequestOK(q), req' = [req EXCEPT ![r] = q],
         \A s \in Requests \ {r} : Apart(q, req[s])
  PROVE  RequestsOK'
<1>1. /\ req' \in [Requests -> Request]
      /\ \A s \in Requests : req'[s] = IF s = r THEN q ELSE req[s]
  BY DEF RequestsOK, RequestOK
<1>2. ASSUME NEW s \in Requests PROVE RequestOK(req[s])'
  <2>1. RequestOK(req'[s])
    BY <1>1 DEF RequestsOK
  <2> QED
    BY <2>1 DEF RequestOK
<1>3. ASSUME NEW s \in Requests, NEW t \in Requests, s # t
      PROVE  Apart(req'[s], req'[t])
  <2>1. Apart(req[s], req[t])
    BY <1>3 DEF RequestsOK
  <2>2. s # r => Apart(q, req[s])
    OBVIOUS
  <2>3. t # r => Apart(q, req[t])
    OBVIOUS
  <2> QED
    BY <1>1, <1>3, <2>1, <2>2, <2>3 DEF Apart
<1> QED
  BY <1>1, <1>2, <1>3 DEF RequestsOK

(* One account changes, in balance.                                        *)
LEMMA AccountChanges ==
  ASSUME AccountsOK, users' = users, users \subseteq Users, NEW u \in users,
         NEW f \in Nat, NEW p \in Portfolio, NEW l \in Ledger, removed' = removed,
         funds' = [funds EXCEPT ![u] = f], portfolio' = [portfolio EXCEPT ![u] = p],
         ledger' = [ledger EXCEPT ![u] = l], MoneyOK(f, l), CoinsOK(p, l)
  PROVE  AccountsOK'
<1>1. /\ funds' \in [Users -> Nat] /\ portfolio' \in [Users -> Portfolio]
      /\ ledger' \in [Users -> Ledger]
  BY DEF AccountsOK
<1>2. \A v \in Users : /\ funds'[v] = IF v = u THEN f ELSE funds[v]
                       /\ portfolio'[v] = IF v = u THEN p ELSE portfolio[v]
                       /\ ledger'[v] = IF v = u THEN l ELSE ledger[v]
  BY DEF AccountsOK
<1>3. \A v \in users : MoneyOK(funds'[v], ledger'[v]) /\ CoinsOK(portfolio'[v], ledger'[v])
  BY <1>2 DEF AccountsOK
<1>4. \A v \in Users \ users : ledger'[v] = NoLedger /\ portfolio'[v] = NoPortfolio
  BY <1>2 DEF AccountsOK
<1> QED
  BY <1>1, <1>3, <1>4 DEF AccountsOK, MoneyOK, CoinsOK

(* A request ends and the others still rely on what they did.              *)
LEMMA RequestEnds ==
  ASSUME RequestsOK, NEW r \in Requests, Ends(r),
         \A s \in Requests \ {r} : Relies(req[s])
  PROVE  RequestsOK'
<1>1. /\ req' \in [Requests -> Request]
      /\ \A s \in Requests : req'[s] = IF s = r THEN NoRequest ELSE req[s]
  BY NoRequestOK DEF RequestsOK, Ends
<1> QED
  BY <1>1, RequestsGoOn

(* A request moves on to another stage.                                    *)
LEMMA RequestAt ==
  ASSUME RequestsOK, UNCHANGED <<users, funds, portfolio>>, NEW r \in Requests,
         req[r].stage # "none", NEW stage, At(r, stage),
         \/ stage = "cleared"
         \/ /\ stage = "debiting" /\ req[r].kind = "BUY" /\ req[r].user \in users
            /\ FundsFree(req[r].user)
            /\ Scale * funds[req[r].user] >= req[r].amount * req[r].price
         \/ /\ stage = "selling" /\ req[r].kind = "SELL" /\ req[r].user \in users
            /\ HoldingFree(req[r].user, req[r].coin)
            /\ portfolio[req[r].user][req[r].coin] >= req[r].amount
  PROVE  RequestsOK'
<1> DEFINE q == [req[r] EXCEPT !.stage = stage]
<1>1. req[r] \in Request /\ RequestOK(req[r]) /\ req \in [Requests -> Request]
  BY DEF RequestsOK
<1>2. /\ q \in Request /\ q.stage = stage /\ q.kind = req[r].kind
      /\ q.user = req[r].user /\ q.coin = req[r].coin /\ q.amount = req[r].amount
      /\ q.price = req[r].price
  BY <1>1 DEF Request
<1>3. req' = [req EXCEPT ![r] = q]
  BY <1>1 DEF At
<1> HIDE DEF q
<1>4. RequestOK(q)
  BY <1>1, <1>2 DEF RequestOK
<1>5. \A s \in Requests \ {r} : Apart(q, req[s])
  BY <1>2 DEF Apart, FundsFree, HoldingFree
<1> QED
  BY <1>3, <1>4, <1>5, RequestMoves

(* Reading, checking and locking keep what requests rely on; a lock is     *)
(* granted only while nobody holds it.                                     *)
LEMMA QuietSteps ==
  ASSUME RequestsOK, AccountsOK, users \subseteq Users, NEW r \in Requests,
         \/ CheckCollapse(r) \/ LockFunds(r) \/ FindHolding(r)
         \/ LockHolding(r) \/ AbortDeadlock(r) \/ FailTrade(r)
  PROVE  RequestsOK' /\ UNCHANGED <<vars, account>>
<1>1. UNCHANGED <<vars, account>>
  BY DEF CheckCollapse, LockFunds, FindHolding, LockHolding, AbortDeadlock, FailTrade
<1> SUFFICES RequestsOK'
  BY <1>1
<1>2. users' = users /\ funds' = funds /\ portfolio' = portfolio
  BY <1>1 DEF vars, account
<1>3. /\ req[r] \in Request /\ RequestOK(req[r]) /\ req \in [Requests -> Request]
      /\ \A s \in Requests : RequestOK(req[s])
  BY DEF RequestsOK
<1>4. ASSUME Ends(r) PROVE RequestsOK'
  BY <1>2, <1>3, <1>4, RequestEnds DEF RequestOK, Relies
<1>5. CASE CheckCollapse(r)
  BY <1>2, <1>4, <1>5, RequestAt DEF CheckCollapse
<1>6. CASE LockFunds(r)
  BY <1>2, <1>4, <1>6, RequestAt DEF LockFunds
<1>7. CASE LockHolding(r)
  <2>1. CASE Ends(r)
    BY <1>4, <2>1
  <2>2. ASSUME At(r, "selling"), portfolio[req[r].user][req[r].coin] >= req[r].amount
        PROVE  RequestsOK'
    <3>1. /\ req[r].stage = "cleared" /\ req[r].kind = "SELL"
          /\ HoldingFree(req[r].user, req[r].coin)
      BY <1>7 DEF LockHolding
    <3>2. req[r].user \in Users /\ req[r].coin \in Coins /\ req[r].amount > 0
          /\ req[r].amount \in Nat
      BY <1>3, <3>1 DEF RequestOK, Request
    <3>3. req[r].user \in users
      BY <2>2, <3>2 DEF AccountsOK, NoPortfolio, None
    <3> QED
      BY <1>2, <2>2, <3>1, <3>3, RequestAt
  <2> QED
    BY <1>7, <2>1, <2>2 DEF LockHolding
<1>8. CASE FindHolding(r)
  <2> DEFINE found == portfolio[req[r].user][req[r].coin] # None
             q == [req[r] EXCEPT !.stage = "storing", !.found = found]
  <2>1. /\ q \in Request /\ q.stage = "storing" /\ q.kind = req[r].kind
        /\ q.user = req[r].user /\ q.coin = req[r].coin /\ q.amount = req[r].amount
        /\ q.price = req[r].price
    BY <1>3 DEF Request
  <2>2. req' = [req EXCEPT ![r] = q] /\ req[r].stage = "debiting"
    BY <1>3, <1>8 DEF FindHolding
  <2> HIDE DEF q
  <2>3. RequestOK(q)
    BY <1>3, <2>1, <2>2 DEF RequestOK
  <2>4. \A s \in Requests \ {r} : Apart(req[r], req[s])
    BY DEF RequestsOK
  <2>5. \A s \in Requests \ {r} : Apart(q, req[s])
    BY <2>1, <2>2, <2>4 DEF Apart
  <2> QED
    BY <1>2, <2>2, <2>3, <2>5, RequestMoves
<1>9. CASE AbortDeadlock(r) \/ FailTrade(r)
  BY <1>4, <1>9 DEF AbortDeadlock, FailTrade
<1> QED
  BY <1>5, <1>6, <1>7, <1>8, <1>9

(* So does a request that begins.                                          *)
LEMMA BeginningSteps ==
  ASSUME RequestsOK, users \subseteq Users, price \in [Coins -> Nat],
         NEW r \in Requests, NEW kind \in {"BUY", "SELL"}, NEW u \in Users,
         NEW coin \in Coins, NEW amount \in Amounts,
         ReadCoin(r, kind, u, coin, amount) \/ CountBalance(r, kind, u, coin, amount)
  PROVE  RequestsOK' /\ UNCHANGED <<vars, account>>
<1>1. UNCHANGED <<vars, account>>
  BY DEF ReadCoin, CountBalance
<1> SUFFICES RequestsOK'
  BY <1>1
<1>2. users' = users /\ funds' = funds /\ portfolio' = portfolio
  BY <1>1 DEF vars, account
<1>3. amount \in Nat /\ amount > 0
  BY LegacyAssumption
<1>4. ASSUME NEW q \in Request, req' = [req EXCEPT ![r] = q], q.kind = kind,
             q.user = u, q.coin = coin, q.amount = amount,
             \/ q.stage = "priced" /\ kind = "BUY"
             \/ q.stage \in {"cleared", "recording"}
      PROVE  RequestsOK'
  <2>1. RequestOK(q)
    BY <1>3, <1>4 DEF RequestOK
  <2>2. \A s \in Requests \ {r} : Apart(q, req[s])
    BY <1>4 DEF Apart
  <2> QED
    BY <1>2, <1>4, <2>1, <2>2, RequestMoves
<1>5. CASE ReadCoin(r, kind, u, coin, amount)
  <2> DEFINE q == [stage |-> IF kind = "BUY" THEN "priced" ELSE "cleared",
                   kind |-> kind, user |-> u, coin |-> coin, amount |-> amount,
                   price |-> price[coin], found |-> FALSE]
  <2>1. q \in Request
    BY <1>3 DEF Request
  <2>2. req' = [req EXCEPT ![r] = q]
    BY <1>5 DEF ReadCoin
  <2>3. /\ q.kind = kind /\ q.user = u /\ q.coin = coin /\ q.amount = amount
        /\ \/ q.stage = "priced" /\ kind = "BUY"
           \/ q.stage \in {"cleared", "recording"}
    OBVIOUS
  <2> HIDE DEF q
  <2> QED
    BY <1>4, <2>1, <2>2, <2>3
<1>6. CASE CountBalance(r, kind, u, coin, amount)
  <2> DEFINE q == [NoRequest EXCEPT !.stage = "recording", !.kind = kind, !.user = u,
                                    !.coin = coin, !.amount = amount]
  <2>1. /\ q \in Request /\ q.stage = "recording" /\ q.kind = kind /\ q.user = u
        /\ q.coin = coin /\ q.amount = amount
    BY <1>3 DEF Request, NoRequest, None
  <2>2. req' = [req EXCEPT ![r] = q]
    BY <1>6 DEF CountBalance
  <2> HIDE DEF q
  <2> QED
    BY <1>4, <2>1, <2>2
<1> QED
  BY <1>5, <1>6

-----------------------------------------------------------------------------
(* What changes accounts.                                                  *)

(* Accounts nobody writes stay in balance.                                 *)
LEMMA AccountsStay ==
  ASSUME AccountsOK, UNCHANGED <<vars, account>> \/ UNCHANGED <<users, account>>
  PROVE  AccountsOK'
<1>1. /\ users' = users /\ funds' = funds /\ portfolio' = portfolio
      /\ ledger' = ledger /\ removed' = removed
  BY DEF account, vars
<1>2. \A v \in users' : MoneyOK(funds'[v], ledger'[v]) /\ CoinsOK(portfolio'[v], ledger'[v])
  BY <1>1 DEF AccountsOK
<1>3. \A v \in Users \ users' : ledger'[v] = NoLedger /\ portfolio'[v] = NoPortfolio
  BY <1>1 DEF AccountsOK
<1>4. /\ funds' \in [Users -> Nat] /\ portfolio' \in [Users -> Portfolio]
      /\ ledger' \in [Users -> Ledger] /\ removed' \subseteq Users
  BY <1>1 DEF AccountsOK
<1> QED
  BY <1>2, <1>3, <1>4 DEF AccountsOK, MoneyOK, CoinsOK

(* A trade is booked in the ledger at its exact cost.                      *)
LEMMA BookedLedger ==
  ASSUME NEW l \in Ledger, NEW q \in Request, q.coin \in Coins
  PROVE  LET m == Booked(l, q)
             cost == q.amount * q.price
         IN  /\ m \in Ledger /\ m.adjusted = l.adjusted /\ m.rows = l.rows + 1
             /\ m.paid = l.paid + (IF q.kind = "BUY" THEN cost ELSE - cost)
             /\ m.traded[q.coin] =
                  l.traded[q.coin] + (IF q.kind = "BUY" THEN q.amount ELSE - q.amount)
             /\ \A c \in Coins \ {q.coin} : m.traded[c] = l.traded[c]
<1> DEFINE m == Booked(l, q)
           sign == IF q.kind = "BUY" THEN 1 ELSE -1
           paid == l.paid + sign * q.amount * q.price
           traded == [l.traded EXCEPT ![q.coin] = @ + sign * q.amount]
<1>1. /\ q.amount \in Nat /\ q.price \in Nat
      /\ l.paid \in Int /\ l.rows \in Nat /\ l.traded \in [Coins -> Int]
  BY DEF Request, Ledger
<1>2. /\ paid \in Int
      /\ paid = l.paid + (IF q.kind = "BUY" THEN q.amount * q.price
                                           ELSE - (q.amount * q.price))
  BY <1>1, SMT
<1>3. /\ traded \in [Coins -> Int]
      /\ traded[q.coin] =
           l.traded[q.coin] + (IF q.kind = "BUY" THEN q.amount ELSE - q.amount)
      /\ \A c \in Coins \ {q.coin} : traded[c] = l.traded[c]
  BY <1>1, SMT
<1>4. m = [l EXCEPT !.paid = paid, !.traded = traded, !.rows = l.rows + 1]
  BY DEF Booked, Ledger
<1> HIDE DEF m, paid, traded
<1>5. /\ m \in Ledger /\ m.adjusted = l.adjusted /\ m.rows = l.rows + 1
      /\ m.paid = paid /\ m.traded = traded
  <2>1. paid \in Int /\ traded \in [Coins -> Int] /\ l.rows + 1 \in Nat
    BY <1>1, <1>2, <1>3
  <2> QED
    BY <1>4, <2>1 DEF Ledger
<1> QED
  BY <1>2, <1>3, <1>5 DEF m

(* A purchase spends what its lock guards.                                 *)
LEMMA CommitBuyKeeps ==
  ASSUME RequestsOK, AccountsOK, users \subseteq Users, NEW r \in Requests, CommitBuy(r)
  PROVE  RequestsOK' /\ AccountsOK'
<1> DEFINE q == req[r]
           u == q.user
           cost == q.amount * q.price
           f == Stored(Scale * funds[u] - cost, Scale)
           p == [portfolio[u] EXCEPT ![q.coin] = Added(portfolio[u][q.coin], q.found, q.amount)]
           l == Booked(ledger[u], q)
<1>1. /\ q.stage = "storing" /\ HoldingFree(u, q.coin) /\ Ends(r)
      /\ q.found <=> portfolio[u][q.coin] # None
      /\ users' = users /\ removed' = removed
      /\ funds' = [funds EXCEPT ![u] = f]
      /\ portfolio' = [portfolio EXCEPT ![u][q.coin] =
                                      Added(portfolio[u][q.coin], q.found, q.amount)]
      /\ ledger' = [ledger EXCEPT ![u] = l]
  BY DEF CommitBuy, vars
<1>2. /\ q \in Request /\ q.kind = "BUY" /\ u \in users /\ q.coin \in Coins
      /\ Scale * funds[u] >= cost /\ u \in Users
      /\ q.amount \in Nat /\ q.price \in Nat /\ q.found \in BOOLEAN
  BY <1>1 DEF RequestsOK, RequestOK, Request
<1>3. /\ funds[u] \in Nat /\ ledger[u] \in Ledger /\ portfolio[u] \in Portfolio
      /\ MoneyOK(funds[u], ledger[u]) /\ CoinsOK(portfolio[u], ledger[u])
      /\ funds \in [Users -> Nat] /\ portfolio \in [Users -> Portfolio]
  BY <1>2 DEF AccountsOK
<1>4. portfolio' = [portfolio EXCEPT ![u] = p]
  BY <1>1
<1>5. /\ l \in Ledger /\ l.adjusted = ledger[u].adjusted
      /\ l.rows = ledger[u].rows + 1 /\ l.paid = ledger[u].paid + cost
      /\ l.traded[q.coin] = ledger[u].traded[q.coin] + q.amount
      /\ \A c \in Coins \ {q.coin} : l.traded[c] = ledger[u].traded[c]
  BY <1>2, <1>3, BookedLedger
<1>6. cost \in Int
  BY <1>2, SMT
<1> HIDE DEF l, cost
<1>7. f \in Nat /\ MoneyOK(f, l)
  BY <1>2, <1>3, <1>5, <1>6, MoneyMoves
<1>8. Held(portfolio[u][q.coin]) + q.amount >= 0
  BY <1>2, <1>3 DEF Held, Portfolio
<1>9. p \in Portfolio /\ CoinsOK(p, l)
  <2>1. q.found <=> portfolio[u][q.coin] # None
    BY <1>1
  <2>2. q.amount \in Int /\ q.found \in BOOLEAN /\ q.coin \in Coins
    BY <1>2
  <2> HIDE DEF q, u
  <2> QED
    BY <1>3, <1>5, <1>8, <2>1, <2>2, HoldingMoves
<1> HIDE DEF f, p
<1>10. AccountsOK'
  BY <1>1, <1>2, <1>4, <1>5, <1>7, <1>9, AccountChanges
<1>11. ASSUME NEW s \in Requests \ {r} PROVE Relies(req[s])
  <2>1. Apart(req[r], req[s]) /\ RequestOK(req[s])
    BY DEF RequestsOK
  <2>2. ASSUME req[s].stage \in {"debiting", "storing"}
        PROVE  req[s].user \in users' /\ funds'[req[s].user] = funds[req[s].user]
    <3>1. req[s].user \in users /\ req[s].user # u
      BY <1>1, <2>1, <2>2 DEF Apart, RequestOK
    <3> QED
      BY <1>1, <1>3, <3>1
  <2>3. ASSUME req[s].stage = "selling"
        PROVE  /\ req[s].user \in users'
               /\ portfolio'[req[s].user][req[s].coin] = portfolio[req[s].user][req[s].coin]
    <3>1. /\ req[s].user \in users /\ req[s].coin \in Coins
          /\ <<req[s].user, req[s].coin>> # <<u, q.coin>>
      BY <1>1, <2>1, <2>3 DEF RequestOK, HoldingFree
    <3>2. portfolio'[req[s].user] = IF req[s].user = u THEN p ELSE portfolio[req[s].user]
      BY <1>3, <1>4, <3>1
    <3>3. \A c \in Coins : c # q.coin => p[c] = portfolio[u][c]
      BY <1>3 DEF p, Portfolio
    <3> QED
      BY <1>1, <3>1, <3>2, <3>3
  <2> QED
    BY <2>2, <2>3 DEF Relies
<1>12. RequestsOK'
  BY <1>1, <1>11, RequestEnds
<1> QED
  BY <1>10, <1>12

(* A sale too, and its credit waits for the account's lock.                *)
LEMMA CommitSellKeeps ==
  ASSUME RequestsOK, AccountsOK, users \subseteq Users, NEW r \in Requests, CommitSell(r)
  PROVE  RequestsOK' /\ AccountsOK'
<1> DEFINE q == req[r]
           u == q.user
           cost == - (q.amount * q.price)
           f == Stored(Scale * funds[u] - cost, Scale)
           p == [portfolio[u] EXCEPT ![q.coin] = Added(portfolio[u][q.coin], TRUE, - q.amount)]
           l == Booked(ledger[u], q)
<1>1. /\ q.stage = "selling" /\ FundsFree(u) /\ Ends(r)
      /\ users' = users /\ removed' = removed
      /\ funds' = [funds EXCEPT ![u] = Stored(Scale * funds[u] + q.amount * q.price, Scale)]
      /\ portfolio' = [portfolio EXCEPT ![u][q.coin] =
                                      Added(portfolio[u][q.coin], TRUE, - q.amount)]
      /\ ledger' = [ledger EXCEPT ![u] = l]
  BY DEF CommitSell, vars
<1>2. /\ q \in Request /\ q.kind = "SELL" /\ u \in users /\ q.coin \in Coins
      /\ portfolio[u][q.coin] >= q.amount /\ u \in Users
      /\ q.amount \in Nat /\ q.amount > 0 /\ q.price \in Nat
  BY <1>1 DEF RequestsOK, RequestOK, Request
<1>3. /\ funds[u] \in Nat /\ ledger[u] \in Ledger /\ portfolio[u] \in Portfolio
      /\ MoneyOK(funds[u], ledger[u]) /\ CoinsOK(portfolio[u], ledger[u])
      /\ funds \in [Users -> Nat] /\ portfolio \in [Users -> Portfolio]
  BY <1>2 DEF AccountsOK
<1>4. portfolio' = [portfolio EXCEPT ![u] = p]
  BY <1>1
<1>5. /\ l \in Ledger /\ l.adjusted = ledger[u].adjusted
      /\ l.rows = ledger[u].rows + 1 /\ l.paid = ledger[u].paid + cost
      /\ l.traded[q.coin] = ledger[u].traded[q.coin] + (- q.amount)
      /\ \A c \in Coins \ {q.coin} : l.traded[c] = ledger[u].traded[c]
  BY <1>2, <1>3, BookedLedger
<1>6. /\ cost \in Int /\ Scale * funds[u] >= cost
      /\ Scale * funds[u] + q.amount * q.price = Scale * funds[u] - cost
  <2>1. q.amount * q.price \in Nat /\ Scale * funds[u] \in Nat
    BY <1>2, <1>3, LegacyAssumption, SMT
  <2> QED
    BY <2>1
<1>7. funds' = [funds EXCEPT ![u] = f]
  BY <1>1, <1>6
<1> HIDE DEF l, cost
<1>8. f \in Nat /\ MoneyOK(f, l)
  BY <1>2, <1>3, <1>5, <1>6, MoneyMoves
<1>9. /\ portfolio[u][q.coin] # None
      /\ Held(portfolio[u][q.coin]) + (- q.amount) >= 0 /\ - q.amount \in Int
  BY <1>2, <1>3 DEF Held, Portfolio, None
<1>10. p \in Portfolio /\ CoinsOK(p, l)
  BY <1>2, <1>3, <1>5, <1>9, HoldingMoves
<1> HIDE DEF f, p
<1>11. AccountsOK'
  BY <1>1, <1>2, <1>4, <1>5, <1>7, <1>8, <1>10, AccountChanges
<1>12. ASSUME NEW s \in Requests \ {r} PROVE Relies(req[s])
  <2>1. Apart(req[r], req[s]) /\ RequestOK(req[s])
    BY DEF RequestsOK
  <2>2. ASSUME req[s].stage \in {"debiting", "storing"}
        PROVE  req[s].user \in users' /\ funds'[req[s].user] = funds[req[s].user]
    <3>1. req[s].user \in users /\ req[s].user # u
      BY <1>1, <2>1, <2>2 DEF FundsFree, RequestOK
    <3> QED
      BY <1>1, <1>3, <3>1
  <2>3. ASSUME req[s].stage = "selling"
        PROVE  /\ req[s].user \in users'
               /\ portfolio'[req[s].user][req[s].coin] = portfolio[req[s].user][req[s].coin]
    <3>1. /\ req[s].user \in users /\ req[s].coin \in Coins
          /\ <<req[s].user, req[s].coin>> # <<u, q.coin>>
      BY <1>1, <2>1, <2>3 DEF RequestOK, Apart
    <3>2. portfolio'[req[s].user] = IF req[s].user = u THEN p ELSE portfolio[req[s].user]
      BY <1>3, <1>4, <3>1
    <3>3. \A c \in Coins : c # q.coin => p[c] = portfolio[u][c]
      BY <1>3 DEF p, Portfolio
    <3> QED
      BY <1>1, <3>1, <3>2, <3>3
  <2> QED
    BY <2>2, <2>3 DEF Relies
<1>13. RequestsOK'
  BY <1>1, <1>12, RequestEnds
<1> QED
  BY <1>11, <1>13

(* An account opens with its funds and nothing else.                       *)
LEMMA OpenAccountKeeps ==
  ASSUME RequestsOK, AccountsOK, users \subseteq Users, NEW u \in Users, OpenAccount(u)
  PROVE  RequestsOK' /\ AccountsOK'
<1>1. /\ u \notin users /\ users' = users \cup {u}
      /\ funds' = [funds EXCEPT ![u] = StartingFunds]
      /\ portfolio' = portfolio /\ ledger' = ledger /\ removed' = removed /\ req' = req
  BY DEF OpenAccount, RegisterUser
<1>2. StartingFunds \in Nat /\ Grain \in Nat /\ Scale \in Nat
  BY LegacyAssumption
<1>3. funds' \in [Users -> Nat] /\ \A v \in users : funds'[v] = funds[v]
  BY <1>1, <1>2 DEF AccountsOK
<1>4. ledger[u] = NoLedger /\ portfolio[u] = NoPortfolio /\ funds'[u] = StartingFunds
  BY <1>1 DEF AccountsOK
<1>5. MoneyOK(StartingFunds, NoLedger) /\ CoinsOK(NoPortfolio, NoLedger)
  BY <1>2 DEF MoneyOK, CoinsOK, NoLedger, NoPortfolio, Held, Magnitude
<1>6. AccountsOK'
  BY <1>1, <1>3, <1>4, <1>5 DEF AccountsOK, MoneyOK, CoinsOK
<1>7. \A r \in Requests : Relies(req[r])
  BY <1>1, <1>3 DEF RequestsOK, RequestOK, Relies
<1> QED
  BY <1>1, <1>6, <1>7, RequestsGoOn DEF RequestsOK

(* A movement that neither pays nor trades leaves the balances alone.      *)
LEMMA MovementCounts ==
  ASSUME NEW f \in Nat, NEW p \in Portfolio, NEW l \in Ledger,
         MoneyOK(f, l), CoinsOK(p, l),
         NEW amount \in Int, NEW g \in Nat, g = f + amount, NEW m \in Ledger,
         m.adjusted = l.adjusted + amount, m.paid = l.paid, m.traded = l.traded,
         m.rows = l.rows + 1
  PROVE  MoneyOK(g, m) /\ CoinsOK(p, m)
<1>1. /\ l.adjusted \in Int /\ l.paid \in Int /\ l.rows \in Nat
      /\ l.traded \in [Coins -> Int]
      /\ Scale \in Nat /\ Grain \in Nat /\ StartingFunds \in Nat
  BY LegacyAssumption DEF Ledger
<1>2. MoneyOK(g, m)
  <2> DEFINE x == Scale * (f - StartingFunds - l.adjusted) + l.paid
  <2>1. x \in Int /\ 2 * Magnitude(x) <= Scale * l.rows
    BY <1>1, SMT DEF MoneyOK
  <2>2. Scale * (g - StartingFunds - m.adjusted) + m.paid = x
    <3>1. g - StartingFunds - m.adjusted = f - StartingFunds - l.adjusted
      BY <1>1
    <3> QED
      BY <3>1
  <2> HIDE DEF x
  <2>3. l.rows \in Nat /\ Scale \in Nat /\ 0 \in Int /\ - Scale <= 2 * 0 /\ 2 * 0 <= Scale
    BY <1>1
  <2>4. 2 * Magnitude(x + 0) <= Scale * (l.rows + 1)
    BY <2>1, <2>3, DriftAdds
  <2> QED
    BY <2>1, <2>2, <2>4 DEF MoneyOK
<1>3. ASSUME NEW c \in Coins
      PROVE  2 * Magnitude(Held(p[c]) - m.traded[c]) <= Grain * m.rows
  <2> DEFINE x == Held(p[c]) - l.traded[c]
  <2>1. x \in Int /\ 2 * Magnitude(x) <= Grain * l.rows
    BY <1>1 DEF CoinsOK, Held, Portfolio
  <2>2. Held(p[c]) - m.traded[c] = x
    OBVIOUS
  <2> HIDE DEF x
  <2>3. l.rows \in Nat /\ Grain \in Nat /\ 0 \in Int /\ - Grain <= 2 * 0 /\ 2 * 0 <= Grain
    BY <1>1
  <2>4. 2 * Magnitude(x + 0) <= Grain * (l.rows + 1)
    BY <2>1, <2>3, DriftAdds
  <2> QED
    BY <2>1, <2>2, <2>4
<1> QED
  BY <1>2, <1>3 DEF CoinsOK

(* A funds update waits for the account's lock, and never overdraws it.    *)
LEMMA UpdateUserFundsKeeps ==
  ASSUME RequestsOK, AccountsOK, users \subseteq Users, NEW u \in Users,
         NEW amount \in Adjustments, UpdateUserFunds(u, amount)
  PROVE  RequestsOK' /\ AccountsOK'
<1> DEFINE f == funds[u] + amount
           l == [ledger[u] EXCEPT !.adjusted = @ + amount, !.rows = @ + 1]
<1>1. /\ FundsFree(u) /\ u \in users /\ f >= 0
      /\ users' = users /\ removed' = removed /\ portfolio' = portfolio /\ req' = req
      /\ funds' = [funds EXCEPT ![u] = f]
  BY DEF UpdateUserFunds, Covered, vars
<1>2. /\ amount \in Int /\ funds[u] \in Nat /\ ledger[u] \in Ledger
      /\ portfolio[u] \in Portfolio
      /\ MoneyOK(funds[u], ledger[u]) /\ CoinsOK(portfolio[u], ledger[u])
      /\ funds \in [Users -> Nat] /\ portfolio \in [Users -> Portfolio]
      /\ ledger \in [Users -> Ledger]
  BY <1>1, LegacyAssumption DEF AccountsOK
<1>3. ledger' = [ledger EXCEPT ![u] = l]
  BY <1>2 DEF UpdateUserFunds, Ledger
<1>4. portfolio' = [portfolio EXCEPT ![u] = portfolio[u]]
  BY <1>1, <1>2
<1>5. /\ ledger[u].adjusted \in Int /\ ledger[u].rows \in Nat /\ ledger[u].paid \in Int
      /\ ledger[u].traded \in [Coins -> Int]
      /\ Scale \in Nat /\ Grain \in Nat /\ StartingFunds \in Nat
  BY <1>2, LegacyAssumption DEF Ledger
<1>6. /\ l \in Ledger /\ l.adjusted = ledger[u].adjusted + amount
      /\ l.rows = ledger[u].rows + 1 /\ l.paid = ledger[u].paid
      /\ l.traded = ledger[u].traded
  <2> DEFINE adjusted == ledger[u].adjusted + amount
             rows == ledger[u].rows + 1
  <2>1. adjusted \in Int /\ rows \in Nat
    BY <1>2, <1>5
  <2>2. l = [ledger[u] EXCEPT !.adjusted = adjusted, !.rows = rows]
    OBVIOUS
  <2> HIDE DEF l, adjusted, rows
  <2>3. /\ l \in Ledger /\ l.adjusted = adjusted /\ l.rows = rows
        /\ l.paid = ledger[u].paid /\ l.traded = ledger[u].traded
    BY <1>2, <2>1, <2>2 DEF Ledger
  <2> QED
    BY <2>3 DEF adjusted, rows
<1>7. f \in Nat
  BY <1>1, <1>2
<1> HIDE DEF l
<1>8. MoneyOK(f, l) /\ CoinsOK(portfolio[u], l)
  BY <1>2, <1>6, <1>7, MovementCounts
<1> HIDE DEF f
<1>9. AccountsOK'
  BY <1>1, <1>2, <1>3, <1>4, <1>6, <1>7, <1>8, AccountChanges
<1>10. \A r \in Requests : Relies(req[r])
  BY <1>1, <1>2 DEF RequestsOK, RequestOK, Relies, FundsFree
<1> QED
  BY <1>1, <1>9, <1>10, RequestsGoOn DEF RequestsOK

(* A removal waits for the account's locks and takes all its rows along.   *)
LEMMA RemoveUserKeeps ==
  ASSUME RequestsOK, AccountsOK, users \subseteq Users, NEW u \in Users, RemoveUser(u)
  PROVE  RequestsOK' /\ AccountsOK'
<1>1. /\ FundsFree(u) /\ \A c \in Coins : HoldingFree(u, c)
      /\ u \in users /\ users' = users \ {u} /\ removed' = removed \cup {u}
      /\ funds' = [funds EXCEPT ![u] = 0]
      /\ portfolio' = [portfolio EXCEPT ![u] = NoPortfolio]
      /\ ledger' = [ledger EXCEPT ![u] = NoLedger] /\ req' = req
  BY DEF RemoveUser, Removable, NoPortfolio
<1>2. NoPortfolio \in Portfolio /\ NoLedger \in Ledger
  BY DEF NoPortfolio, Portfolio, NoLedger, Ledger
<1>3. /\ funds' \in [Users -> Nat] /\ portfolio' \in [Users -> Portfolio]
      /\ ledger' \in [Users -> Ledger] /\ removed' \subseteq Users
  BY <1>1, <1>2 DEF AccountsOK
<1>4. /\ ledger'[u] = NoLedger /\ portfolio'[u] = NoPortfolio
      /\ \A v \in Users \ {u} : /\ funds'[v] = funds[v] /\ portfolio'[v] = portfolio[v]
                                /\ ledger'[v] = ledger[v]
  BY <1>1 DEF AccountsOK
<1>5. AccountsOK'
  BY <1>1, <1>3, <1>4 DEF AccountsOK, MoneyOK, CoinsOK
<1>6. ASSUME NEW r \in Requests PROVE Relies(req[r])
  <2>1. RequestOK(req[r])
    BY DEF RequestsOK
  <2>2. req[r].stage \in {"debiting", "storing"} => req[r].user # u /\ req[r].user \in users
    BY <1>1, <2>1 DEF RequestOK, FundsFree
  <2>3. req[r].stage = "selling" => req[r].user # u /\ req[r].user \in users
    BY <1>1, <2>1 DEF RequestOK, HoldingFree
  <2> QED
    BY <1>1, <1>4, <2>2, <2>3 DEF Relies
<1> QED
  BY <1>1, <1>5, <1>6, RequestsGoOn DEF RequestsOK

(* A bare ledger row moves neither funds nor holdings.                     *)
LEMMA InsertTransactionKeeps ==
  ASSUME RequestsOK, AccountsOK, users \subseteq Users, NEW r \in Requests,
         InsertTransaction(r)
  PROVE  RequestsOK' /\ AccountsOK'
<1> DEFINE q == req[r]
           u == q.user
           change == IF q.kind = "BUY" THEN q.amount ELSE -q.amount
           l == [ledger[u] EXCEPT !.recorded[q.coin] = @ + change, !.rows = @ + 1]
<1>1. /\ Ends(r) /\ q.stage = "recording" /\ users' = users /\ funds' = funds
      /\ portfolio' = portfolio /\ removed' = removed
  BY DEF InsertTransaction, vars
<1>2. RequestsOK'
  BY <1>1, RequestEnds DEF RequestsOK, RequestOK, Relies
<1>3. CASE ledger' = ledger
  BY <1>1, <1>2, <1>3, AccountsStay DEF account
<1>4. CASE u \in users /\ ledger' # ledger
  <2>1. /\ funds[u] \in Nat /\ ledger[u] \in Ledger /\ portfolio[u] \in Portfolio
        /\ MoneyOK(funds[u], ledger[u]) /\ CoinsOK(portfolio[u], ledger[u])
        /\ funds \in [Users -> Nat] /\ portfolio \in [Users -> Portfolio]
        /\ ledger \in [Users -> Ledger]
    BY <1>4 DEF AccountsOK
  <2>2. q.coin \in Coins /\ q.amount \in Nat
    BY <1>1 DEF RequestsOK, RequestOK, Request
  <2>3. ledger' = [ledger EXCEPT ![u] = l]
    BY <1>4, <2>1 DEF InsertTransaction, Ledger
  <2>4. /\ ledger[u].adjusted \in Int /\ ledger[u].rows \in Nat /\ ledger[u].paid \in Int
        /\ ledger[u].traded \in [Coins -> Int] /\ ledger[u].recorded \in [Coins -> Int]
        /\ Scale \in Nat /\ Grain \in Nat /\ StartingFunds \in Nat
    BY <2>1, LegacyAssumption DEF Ledger
  <2>5. /\ l \in Ledger /\ l.adjusted = ledger[u].adjusted
        /\ l.rows = ledger[u].rows + 1 /\ l.paid = ledger[u].paid
        /\ l.traded = ledger[u].traded
    <3> DEFINE recorded == [ledger[u].recorded EXCEPT ![q.coin] = @ + change]
               rows == ledger[u].rows + 1
    <3>1. recorded \in [Coins -> Int] /\ rows \in Nat
      BY <2>2, <2>4
    <3>2. l = [ledger[u] EXCEPT !.recorded = recorded, !.rows = rows]
      BY <2>1 DEF Ledger
    <3> HIDE DEF l, recorded, rows
    <3>3. /\ l \in Ledger /\ l.adjusted = ledger[u].adjusted /\ l.rows = rows
          /\ l.paid = ledger[u].paid /\ l.traded = ledger[u].traded
      BY <2>1, <3>1, <3>2 DEF Ledger
    <3> QED
      BY <3>3 DEF rows
  <2> HIDE DEF l
  <2>6. l.adjusted = ledger[u].adjusted + 0 /\ funds[u] = funds[u] + 0
    BY <2>1, <2>4, <2>5
  <2>7. MoneyOK(funds[u], l) /\ CoinsOK(portfolio[u], l)
    BY <2>1, <2>5, <2>6, MovementCounts
  <2>8. funds' = [funds EXCEPT ![u] = funds[u]]
        /\ portfolio' = [portfolio EXCEPT ![u] = portfolio[u]]
    BY <1>1, <2>1
  <2>9. AccountsOK'
    BY <1>1, <1>4, <2>1, <2>3, <2>5, <2>7, <2>8, AccountChanges
  <2> QED
    BY <1>2, <2>9
<1>5. u \in users \/ ledger' = ledger
  BY DEF InsertTransaction
<1> QED
  BY <1>2, <1>3, <1>4, <1>5

-----------------------------------------------------------------------------
(* The lifecycle beside the trades.                                        *)

(* Of the lifecycle's state, a step that is none of the lifecycle's can    *)
(* but remove a user.                                                      *)
LEMMA LifecycleMoves ==
  ASSUME [LegacyNext]_legacyVars
  PROVE  \/ [Next]_vars
         \/ users' \subseteq users /\ UNCHANGED <<clock, cycles, price, call>>
<1>1. CASE UNCHANGED legacyVars
  BY <1>1 DEF legacyVars
<1>2. CASE CycleStep
  BY <1>2 DEF Next
<1>3. ASSUME NEW u \in Users, OpenAccount(u)
      PROVE  [Next]_vars
  BY <1>3 DEF OpenAccount, Next
<1>4. ASSUME NEW u \in Users, NEW amount \in Adjustments, UpdateUserFunds(u, amount)
      PROVE  [Next]_vars
  BY <1>4 DEF UpdateUserFunds
<1>5. ASSUME NEW u \in Users, RemoveUser(u)
      PROVE  users' \subseteq users /\ UNCHANGED <<clock, cycles, price, call>>
  BY <1>5 DEF RemoveUser
<1>6. ASSUME NEW r \in Requests, Progress(r) \/ FailTrade(r)
      PROVE  [Next]_vars
  BY <1>6 DEF Progress, FailTrade, CheckCollapse, LockFunds, FindHolding, CommitBuy,
              LockHolding, CommitSell, InsertTransaction, AbortDeadlock
<1>7. ASSUME NEW r \in Requests, NEW kind \in {"BUY", "SELL"}, NEW u \in Users,
             NEW coin \in Coins, NEW amount \in Amounts,
             \/ ReadCoin(r, kind, u, coin, amount)
             \/ CountBalance(r, kind, u, coin, amount)
      PROVE  [Next]_vars
  BY <1>7 DEF ReadCoin, CountBalance
<1> QED
  BY <1>1, <1>2, <1>3, <1>4, <1>5, <1>6, <1>7 DEF LegacyNext

(* So the lifecycle's invariant outlives it.                               *)
LEMMA LifecycleGoesOn ==
  ASSUME Invariant, [LegacyNext]_legacyVars
  PROVE  Invariant'
<1>1. CASE [Next]_vars
  BY <1>1, InvariantStep
<1>2. CASE users' \subseteq users /\ UNCHANGED <<clock, cycles, price, call>>
  <2>1. RestOK /\ cycles \in Seq(Cycle) /\ AllOK /\ SingleLiveCycle
    BY InvariantParts
  <2>2. RestOK'
    BY <1>2, <2>1 DEF RestOK
  <2>3. cycles' = cycles
    BY <1>2
  <2>4. TypeOK'
    BY <1>2, <2>2, <2>3 DEF Invariant, TypeOK, RestOK, RowOK, ParticipantOK
  <2>5. SingleLiveCycle' /\ SettledWhole'
    BY <2>3 DEF Invariant, SingleLiveCycle, SettledWhole, Joined
  <2> QED
    BY <2>4, <2>5 DEF Invariant
<1> QED
  BY <1>1, <1>2, LifecycleMoves

-----------------------------------------------------------------------------
(* The inductive invariant and what follows from it.                       *)

LegacyInvariant == Invariant /\ AccountsOK /\ RequestsOK

(* Before the first account.                                               *)
LEMMA LegacyInvariantInit == LegacyInit => LegacyInvariant
<1> SUFFICES ASSUME LegacyInit PROVE LegacyInvariant
  OBVIOUS
<1>1. Invariant
  BY InvariantInit DEF LegacyInit
<1>2. users = {} /\ NoLedger \in Ledger /\ NoPortfolio \in Portfolio
  BY DEF LegacyInit, Init, NoLedger, Ledger, NoPortfolio, Portfolio
<1>3. AccountsOK
  BY <1>2 DEF LegacyInit, AccountsOK, NoPortfolio
<1>4. \A r \in Requests : req[r] = NoRequest
  BY DEF LegacyInit
<1>5. req \in [Requests -> Request] /\ \A r \in Requests : RequestOK(req[r])
  BY <1>4, NoRequestOK DEF LegacyInit
<1>6. \A r, s \in Requests : r # s => Apart(req[r], req[s])
  BY <1>4 DEF Apart, NoRequest
<1> QED
  BY <1>1, <1>3, <1>5, <1>6 DEF LegacyInvariant, RequestsOK

(* Steps that leave accounts, requests and users as they are.              *)
LEMMA BystanderSteps ==
  ASSUME AccountsOK, RequestsOK, UNCHANGED <<users, account, req>>
  PROVE  RequestsOK' /\ AccountsOK'
<1>1. AccountsOK'
  BY AccountsStay
<1>2. users' = users /\ funds' = funds /\ portfolio' = portfolio /\ req' = req
  BY DEF account
<1> QED
  BY <1>1, <1>2, RequestsGoOn DEF RequestsOK, RequestOK, Relies

(* Every step keeps it.                                                    *)
LEMMA LegacyInvariantStep == LegacyInvariant /\ [LegacyNext]_legacyVars => LegacyInvariant'
<1> SUFFICES ASSUME LegacyInvariant, [LegacyNext]_legacyVars PROVE RequestsOK' /\ AccountsOK'
  BY LifecycleGoesOn DEF LegacyInvariant
<1>1. /\ RequestsOK /\ AccountsOK /\ users \subseteq Users
      /\ price \in [Coins -> Nat]
  BY InvariantParts DEF LegacyInvariant, RestOK
<1>2. CASE UNCHANGED legacyVars
  BY <1>1, <1>2, BystanderSteps DEF legacyVars, vars
<1>3. CASE CycleStep /\ UNCHANGED <<account, req>>
  <2>1. users' = users
    BY <1>3 DEF CycleStep, Tick, Reconcile, FreezeExpiredActiveCycle,
                SettleSettlingCycle, EnsureActiveCycle, Fail
  <2> QED
    BY <1>1, <1>3, <2>1, BystanderSteps
<1>4. ASSUME NEW u \in Users,
             \/ OpenAccount(u)
             \/ \E amount \in Adjustments : UpdateUserFunds(u, amount)
             \/ RemoveUser(u)
      PROVE  RequestsOK' /\ AccountsOK'
  BY <1>1, <1>4, OpenAccountKeeps, UpdateUserFundsKeeps, RemoveUserKeeps
<1>5. ASSUME NEW r \in Requests,
             \/ CheckCollapse(r) \/ LockFunds(r) \/ FindHolding(r)
             \/ LockHolding(r) \/ AbortDeadlock(r) \/ FailTrade(r)
      PROVE  RequestsOK' /\ AccountsOK'
  <2>1. RequestsOK' /\ UNCHANGED <<vars, account>>
    BY <1>1, <1>5, QuietSteps
  <2> QED
    BY <1>1, <2>1, AccountsStay
<1>6. ASSUME NEW r \in Requests, NEW kind \in {"BUY", "SELL"}, NEW u \in Users,
             NEW coin \in Coins, NEW amount \in Amounts,
             \/ ReadCoin(r, kind, u, coin, amount)
             \/ CountBalance(r, kind, u, coin, amount)
      PROVE  RequestsOK' /\ AccountsOK'
  <2>1. RequestsOK' /\ UNCHANGED <<vars, account>>
    BY <1>1, <1>6, BeginningSteps
  <2> QED
    BY <1>1, <2>1, AccountsStay
<1>7. ASSUME NEW r \in Requests, CommitBuy(r) \/ CommitSell(r) \/ InsertTransaction(r)
      PROVE  RequestsOK' /\ AccountsOK'
  BY <1>1, <1>7, CommitBuyKeeps, CommitSellKeeps, InsertTransactionKeeps
<1> QED
  BY <1>2, <1>3, <1>4, <1>5, <1>6, <1>7 DEF LegacyNext, Progress

(* The invariant of the accounts holds, however many requests are under    *)
(* way (transactions.model.js, users.model.js).                            *)
THEOREM LegacyInvariantHolds == LegacySpec => []LegacyInvariant
BY LegacyInvariantInit, LegacyInvariantStep, PTL DEF LegacySpec

(* However many requests of one user run at a time, neither funds nor a    *)
(* holding is ever overdrawn: the row locks of buyTransaction and          *)
(* sellTransaction are enough.                                             *)
THEOREM NeverOverdrawn == LegacySpec => []LegacyTypeOK
<1>1. LegacyInvariant => LegacyTypeOK
  BY DEF LegacyInvariant, AccountsOK, RequestsOK, Portfolio, LegacyTypeOK
<1> QED
  BY <1>1, LegacyInvariantHolds, PTL

(* An account holds what it opened with, its adjustments and what its      *)
(* trades paid, to half a penny for each trade.                            *)
THEOREM MoneyIsConserved == LegacySpec => []MoneyBalances
<1>1. LegacyInvariant => MoneyBalances
  BY DEF LegacyInvariant, AccountsOK, MoneyOK, MoneyBalances
<1> QED
  BY <1>1, LegacyInvariantHolds, PTL

(* A holding is what was bought less what was sold, to half of the         *)
(* column's grain for each trade.                                          *)
THEOREM HoldingsAreConserved == LegacySpec => []HoldingsBalance
<1>1. LegacyInvariant => HoldingsBalance
  BY DEF LegacyInvariant, AccountsOK, CoinsOK, Held, HoldingsBalance
<1> QED
  BY <1>1, LegacyInvariantHolds, PTL

-----------------------------------------------------------------------------
(* Waiting.                                                                *)

(* What a buy found of its holding, without a lock on it, is still so when *)
(* it writes: the lock on the account keeps every other writer away.       *)
FoundOK ==
  \A r \in Requests : req[r].stage = "storing" =>
    (req[r].found <=> portfolio[req[r].user][req[r].coin] # None)

(* While a buy holds its account nobody writes the portfolio.              *)
LEMMA PortfolioLocked ==
  ASSUME RequestsOK, AccountsOK, [LegacyNext]_legacyVars, NEW r \in Requests,
         req[r].stage = "storing"
  PROVE  \/ req'[r] = req[r] /\ portfolio'[req[r].user] = portfolio[req[r].user]
         \/ req'[r] = NoRequest
<1> DEFINE v == req[r].user
           Kept == req'[r] = req[r] /\ portfolio'[v] = portfolio[v]
           Ended == req'[r] = NoRequest
<1>1. /\ req \in [Requests -> Request] /\ portfolio \in [Users -> Portfolio]
      /\ v \in Users /\ req[r] # NoRequest
      /\ \A s \in Requests : req[s].stage # "none" => req[s].user \in Users
  BY DEF RequestsOK, AccountsOK, RequestOK, NoRequest
<1>2. CASE UNCHANGED <<account, req>>
  BY <1>2 DEF account
<1>3. ASSUME NEW s \in Requests, NEW new, req' = [req EXCEPT ![s] = new],
             s = r => new = NoRequest, portfolio'[v] = portfolio[v]
      PROVE  Kept \/ Ended
  BY <1>1, <1>3
<1>4. ASSUME NEW s \in Requests,
             \/ CheckCollapse(s) \/ LockFunds(s) \/ FindHolding(s)
             \/ LockHolding(s) \/ AbortDeadlock(s) \/ FailTrade(s)
             \/ InsertTransaction(s)
      PROVE  Kept \/ Ended
  <2>1. portfolio' = portfolio
    BY <1>4 DEF CheckCollapse, LockFunds, FindHolding, LockHolding, AbortDeadlock,
                FailTrade, InsertTransaction, account
  <2>2. \/ req' = [req EXCEPT ![s] = NoRequest]
        \/ s # r /\ \E new : req' = [req EXCEPT ![s] = new]
    BY <1>4 DEF CheckCollapse, LockFunds, FindHolding, LockHolding, AbortDeadlock,
                FailTrade, InsertTransaction, At, Ends
  <2> QED
    BY <1>3, <2>1, <2>2
<1>5. ASSUME NEW s \in Requests, CommitBuy(s) \/ CommitSell(s)
      PROVE  Kept \/ Ended
  <2>1. req' = [req EXCEPT ![s] = NoRequest]
    BY <1>5 DEF CommitBuy, CommitSell, Ends
  <2>2. CASE s = r
    BY <1>1, <2>1, <2>2
  <2>3. CASE s # r
    <3>1. req[s].user # v
      BY <1>5, <2>3 DEF CommitBuy, CommitSell, FundsFree, RequestsOK, Apart
    <3>2. \E p : portfolio' = [portfolio EXCEPT ![req[s].user] = p]
      BY <1>5 DEF CommitBuy, CommitSell
    <3>3. portfolio'[v] = portfolio[v]
      BY <1>1, <3>1, <3>2
    <3> QED
      BY <1>3, <2>1, <3>3
  <2> QED
    BY <2>2, <2>3
<1>6. ASSUME NEW u \in Users, RemoveUser(u) PROVE Kept \/ Ended
  <2>1. u # v /\ req' = req
    BY <1>6 DEF RemoveUser, FundsFree
  <2>2. portfolio'[v] = portfolio[v]
    BY <1>1, <1>6, <2>1 DEF RemoveUser
  <2> QED
    BY <2>1, <2>2
<1>7. ASSUME NEW u \in Users,
             OpenAccount(u) \/ \E amount \in Adjustments : UpdateUserFunds(u, amount)
      PROVE  Kept \/ Ended
  BY <1>7 DEF OpenAccount, UpdateUserFunds
<1>8. ASSUME NEW s \in Requests, NEW kind \in {"BUY", "SELL"}, NEW u \in Users,
             NEW coin \in Coins, NEW amount \in Amounts,
             \/ ReadCoin(s, kind, u, coin, amount)
             \/ CountBalance(s, kind, u, coin, amount)
      PROVE  Kept \/ Ended
  <2>1. s # r /\ portfolio' = portfolio
    BY <1>1, <1>8 DEF ReadCoin, CountBalance, account
  <2>2. \E new : req' = [req EXCEPT ![s] = new]
    BY <1>8 DEF ReadCoin, CountBalance
  <2> QED
    BY <1>3, <2>1, <2>2
<1>9. CASE UNCHANGED legacyVars
  BY <1>2, <1>9 DEF legacyVars
<1> QED
  BY <1>2, <1>4, <1>5, <1>6, <1>7, <1>8, <1>9 DEF LegacyNext, Progress

(* A request gets to writing its holding by looking for it.                *)
LEMMA StoringBegins ==
  ASSUME RequestsOK, [LegacyNext]_legacyVars, NEW r \in Requests,
         req[r].stage # "storing", req'[r].stage = "storing"
  PROVE  FindHolding(r)
<1>1. req \in [Requests -> Request]
  BY DEF RequestsOK
<1>2. ASSUME NEW s \in Requests, NEW new, req' = [req EXCEPT ![s] = new],
             new.stage # "storing"
      PROVE  FALSE
  BY <1>1, <1>2
<1>3. ASSUME NEW s \in Requests, NEW stage, At(s, stage), stage # "storing"
      PROVE  FALSE
  BY <1>1, <1>3 DEF At, Request
<1>4. ASSUME NEW s \in Requests, Ends(s) PROVE FALSE
  BY <1>2, <1>4 DEF Ends, NoRequest
<1>5. ASSUME NEW s \in Requests, FindHolding(s) PROVE s = r
  BY <1>1, <1>5 DEF FindHolding
<1>6. ASSUME NEW s \in Requests, Progress(s) \/ FailTrade(s)
      PROVE  FindHolding(s)
  BY <1>3, <1>4, <1>6
     DEF Progress, CheckCollapse, LockFunds, CommitBuy, LockHolding, CommitSell,
         InsertTransaction, AbortDeadlock, FailTrade
<1>7. ASSUME NEW s \in Requests, NEW kind \in {"BUY", "SELL"}, NEW u \in Users,
             NEW coin \in Coins, NEW amount \in Amounts,
             \/ ReadCoin(s, kind, u, coin, amount)
             \/ CountBalance(s, kind, u, coin, amount)
      PROVE  FALSE
  <2>1. CASE ReadCoin(s, kind, u, coin, amount)
    <3>1. PICK new : req' = [req EXCEPT ![s] = new] /\ new.stage # "storing"
      <4> DEFINE new == [stage |-> IF kind = "BUY" THEN "priced" ELSE "cleared",
                         kind |-> kind, user |-> u, coin |-> coin,
                         amount |-> amount, price |-> price[coin], found |-> FALSE]
      <4>1. req' = [req EXCEPT ![s] = new]
        BY <2>1 DEF ReadCoin
      <4>2. new.stage # "storing"
        OBVIOUS
      <4> HIDE DEF new
      <4> QED
        BY <4>1, <4>2
    <3> QED
      BY <1>2, <3>1
  <2>2. CASE CountBalance(s, kind, u, coin, amount)
    <3>1. PICK new : req' = [req EXCEPT ![s] = new] /\ new.stage # "storing"
      <4> DEFINE new == [NoRequest EXCEPT !.stage = "recording", !.kind = kind,
                                          !.user = u, !.coin = coin, !.amount = amount]
      <4>1. req' = [req EXCEPT ![s] = new]
        BY <2>2 DEF CountBalance
      <4>2. new.stage # "storing"
        BY DEF NoRequest
      <4> HIDE DEF new
      <4> QED
        BY <4>1, <4>2
    <3> QED
      BY <1>2, <3>1
  <2> QED
    BY <1>7, <2>1, <2>2
<1>8. CASE UNCHANGED req
  BY <1>8
<1>9. ASSUME NEW u \in Users,
             \/ OpenAccount(u) \/ RemoveUser(u)
             \/ \E amount \in Adjustments : UpdateUserFunds(u, amount)
      PROVE  FALSE
  BY <1>8, <1>9 DEF OpenAccount, RemoveUser, UpdateUserFunds
<1> QED
  BY <1>5, <1>6, <1>7, <1>8, <1>9 DEF LegacyNext, legacyVars

(* So what a buy found stays true until it has written.                    *)
LEMMA FoundStep ==
  LegacyInvariant /\ FoundOK /\ [LegacyNext]_legacyVars => FoundOK'
<1> SUFFICES ASSUME LegacyInvariant, FoundOK, [LegacyNext]_legacyVars,
                    NEW r \in Requests, req'[r].stage = "storing"
             PROVE  req'[r].found
                      <=> portfolio'[req'[r].user][req'[r].coin] # None
  BY DEF FoundOK
<1>1. RequestsOK /\ AccountsOK /\ req[r] \in Request
  BY DEF LegacyInvariant, RequestsOK
<1>2. CASE req[r].stage = "storing"
  BY <1>1, <1>2, PortfolioLocked DEF FoundOK, NoRequest
<1>3. CASE req[r].stage # "storing"
  <2>1. FindHolding(r)
    BY <1>1, <1>3, StoringBegins
  <2>2. /\ req'[r].found = (portfolio[req[r].user][req[r].coin] # None)
        /\ req'[r].user = req[r].user /\ req'[r].coin = req[r].coin
    BY <1>1, <2>1 DEF FindHolding, RequestsOK, Request
  <2>3. portfolio' = portfolio
    BY <2>1 DEF FindHolding, account
  <2> QED
    BY <2>2, <2>3
<1> QED
  BY <1>2, <1>3

(* Of the requests under way one can always go on.  A buy that writes its  *)
(* holding waits for a sale at most, and then the holding is there: the    *)
(* two are a circle, which the database breaks.  With no buy past its lock *)
(* a sale's account is free; with no sale either, every lock is.           *)
THEOREM SomeoneGoesOn == LegacySpec => []RequestsNeverStuck
<1>1. LegacyInit => FoundOK
  BY DEF LegacyInit, FoundOK, NoRequest
<1>2. LegacyInvariant /\ FoundOK => RequestsNeverStuck
  <2> SUFFICES ASSUME LegacyInvariant, FoundOK, NEW r \in Requests,
                      req[r].stage # "none", \A s \in Requests : ~ Unblocked(s)
               PROVE  FALSE
    BY DEF RequestsNeverStuck
  <2>1. /\ \A s \in Requests : RequestOK(req[s]) /\ req[s] \in Request
        /\ portfolio \in [Users -> Portfolio]
    BY DEF LegacyInvariant, RequestsOK, AccountsOK
  <2>2. ASSUME NEW s \in Requests PROVE req[s].stage # "storing"
    <3> SUFFICES ASSUME req[s].stage = "storing" PROVE FALSE
      OBVIOUS
    <3>1. PICK t \in Requests : /\ req[t].stage = "selling"
                                /\ <<req[t].user, req[t].coin>> = <<req[s].user, req[s].coin>>
      BY DEF Unblocked, HoldingFree
    <3>2. /\ req[t].amount \in Nat /\ req[t].amount > 0
          /\ portfolio[req[t].user][req[t].coin] >= req[t].amount
      BY <2>1, <3>1 DEF RequestOK, Request
    <3>3. req[s].found
      BY <3>1, <3>2 DEF FoundOK, None
    <3> QED
      BY <3>1, <3>3 DEF Unblocked, Deadlocked
  <2>3. ASSUME NEW s \in Requests PROVE req[s].stage # "selling"
    BY <2>2 DEF Unblocked, FundsFree
  <2> QED
    BY <2>1, <2>2, <2>3 DEF Unblocked, FundsFree, HoldingFree, RequestOK, Request
<1> QED
  BY <1>1, <1>2, FoundStep, LegacyInvariantHolds, PTL DEF LegacySpec

-----------------------------------------------------------------------------
(* Prices of zero.                                                         *)

FirstRoundLives == InStatus("COMPLETED") = {}

(* While no round is over a price of zero is the mark of a collapse, and   *)
(* of the purchases under way at that price none has passed the check.     *)
ZeroPriced(q) ==
  (q.kind = "BUY" /\ q.price = 0
     /\ q.stage \in {"priced", "cleared", "debiting", "storing"})
    => q.stage = "priced" /\ IsCoinCollapsed(q.coin)

(* IsCoinCollapsed, of a table of cycles.                                  *)
CollapsedIn(table, coin) ==
  \E k \in DOMAIN table : /\ table[k].status \in {"ACTIVE", "SETTLING"}
                          /\ table[k].schedule[coin].done # None

ZeroMeansCollapsed ==
  FirstRoundLives => /\ \A c \in Coins : price[c] = 0 => IsCoinCollapsed(c)
                     /\ \A r \in Requests : ZeroPriced(req[r])

(* A round over stays over, and a coin collapsed in a live cycle stays so  *)
(* until one is.                                                           *)
LEMMA CollapseStays ==
  ASSUME Invariant, [Next]_vars, FirstRoundLives'
  PROVE  FirstRoundLives /\ \A c \in Coins : IsCoinCollapsed(c) => IsCoinCollapsed(c)'
<1>1. FirstRoundLives
  BY TableGrows DEF FirstRoundLives, InStatus
<1>2. ASSUME NEW c \in Coins, NEW k \in DOMAIN cycles, cycles[k].schedule[c].done # None
      PROVE  IsCoinCollapsed(c)'
  <2>1. k \in DOMAIN cycles' /\ cycles'[k] \in Cycle
    <3>1. cycles' \in Seq(Cycle)
      BY InvariantStep DEF Invariant, TypeOK
    <3> QED
      BY <3>1, TableGrows, ElementOfSeq, LenProperties
  <2>2. cycles'[k].status \in {"ACTIVE", "SETTLING"}
    BY <2>1 DEF Cycle, FirstRoundLives, InStatus
  <2>3. cycles[k].schedule[c] # NoRow
    BY <1>2 DEF NoRow
  <2>4. cycles'[k].schedule[c].done # None
    BY <1>2, <2>3, StepKeeps DEF ScheduleKept
  <2> QED
    BY <2>1, <2>2, <2>4 DEF IsCoinCollapsed, InStatus
<1> QED
  BY <1>1, <1>2 DEF IsCoinCollapsed, InStatus

(* No price falls to zero but by a collapse.                               *)
LEMMA OnlyCollapsesZero ==
  ASSUME Invariant, [Next]_vars, FirstRoundLives', NEW c \in Coins, price'[c] = 0
  PROVE  price[c] = 0 \/ IsCoinCollapsed(c)'
<1>1. /\ RestOK /\ TableOK /\ cycles \in Seq(Cycle) /\ users \subseteq Users
      /\ \A k \in DOMAIN cycles : /\ CycleOK(cycles[k]) /\ WholeOK(cycles[k])
                                  /\ cycles[k] \in Cycle
  BY InvariantParts DEF AllOK, CycleOK, TableOK, RestOK
<1>2. CASE UNCHANGED vars \/ Tick \/ \E u \in Users : RegisterUser(u)
  BY <1>2 DEF vars, Tick, RegisterUser
<1>3. ASSUME NEW b \in Callers, Reconcile(b) \/ FreezeExpiredActiveCycle(b) \/ Fail(b)
      PROVE  price[c] = 0
  BY <1>3 DEF Reconcile, FreezeExpiredActiveCycle, Fail
<1>4. ASSUME NEW b \in Callers, SettleSettlingCycle(b)
      PROVE  price[c] = 0
  <2>1. CASE UNCHANGED price
    BY <2>1
  <2>2. ASSUME NEW k \in InStatus("SETTLING"), NEW rows \in ScheduleChoices(cycles[k]),
               cycles' = [cycles EXCEPT ![k] = Settled(@, rows)]
        PROVE  FALSE
    <3> DEFINE z == Settled(cycles[k], rows)
    <3>1. k \in DOMAIN cycles /\ cycles[k].status = "SETTLING"
      BY DEF InStatus
    <3>2. z \in Cycle /\ z.status = "COMPLETED"
      BY <1>1, <3>1, SettledOK DEF CycleOK
    <3>3. Replaced(k, z)
      BY <2>2 DEF Replaced
    <3> HIDE DEF z
    <3>4. k \in DOMAIN cycles' /\ cycles'[k] = z
      BY <1>1, <3>1, <3>2, <3>3, ReplacedTable
    <3> QED
      BY <3>2, <3>4 DEF FirstRoundLives, InStatus
  <2> QED
    BY <1>4, <2>1, <2>2 DEF SettleSettlingCycle, Settleable
<1>5. ASSUME NEW b \in Callers, CreateActiveCycle(b)
      PROVE  FALSE
  BY <1>5, CycleAssumption DEF CreateActiveCycle, RestoredPrices
<1>6. ASSUME NEW b \in Callers, RecoverActiveCycle(b)
      PROVE  price[c] = 0 \/ IsCoinCollapsed(c)'
  <2>1. PICK k \in InStatus("ACTIVE") : \E rows \in ScheduleChoices(cycles[k]) :
          /\ cycles' = [cycles EXCEPT ![k] = Recovered(@, rows, call[b].now)]
          /\ price' = IF cycles[k].end > call[b].now
                      THEN Collapsed(rows, call[b].now, price) ELSE price
    BY <1>6 DEF RecoverActiveCycle
  <2>2. PICK rows \in ScheduleChoices(cycles[k]) :
          /\ cycles' = [cycles EXCEPT ![k] = Recovered(@, rows, call[b].now)]
          /\ price' = IF cycles[k].end > call[b].now
                      THEN Collapsed(rows, call[b].now, price) ELSE price
    BY <2>1
  <2> DEFINE now == call[b].now
             z == Recovered(cycles[k], rows, now)
  <2>3. k \in DOMAIN cycles /\ cycles[k].status = "ACTIVE" /\ now \in Nat
    BY <1>1 DEF InStatus, RestOK
  <2>4. z \in Cycle
    BY <1>1, <2>3, RecoveredOK DEF CycleOK
  <2>5. /\ z.status = "ACTIVE"
        /\ cycles[k].end > now => z.schedule = Executed(rows, now)
    BY <1>1, <2>3 DEF Recovered, Cycle
  <2>6. Replaced(k, z)
    BY <2>2 DEF Replaced
  <2> HIDE DEF z
  <2>7. k \in DOMAIN cycles' /\ cycles'[k] = z
    BY <1>1, <2>3, <2>4, <2>6, ReplacedTable
  <2>8. CASE cycles[k].end > now /\ c \in Due(rows, now)
    <3>1. rows \in [Coins -> Row]
      BY <1>1, <2>3, ChoicesOK
    <3>2. Executed(rows, now)[c].done = now
      BY <2>8, <3>1 DEF Executed, Row
    <3>3. z.schedule[c].done # None
      BY <2>3, <2>5, <2>8, <3>2 DEF None
    <3> QED
      BY <2>5, <2>7, <3>3 DEF IsCoinCollapsed, InStatus
  <2>9. CASE ~ (cycles[k].end > now /\ c \in Due(rows, now))
    BY <2>2, <2>9 DEF Collapsed
  <2> QED
    BY <2>8, <2>9
<1> QED
  BY <1>2, <1>3, <1>4, <1>5, <1>6 DEF Next, CycleStep, EnsureActiveCycle

(* What a step makes of a request at a price of zero: it takes the price   *)
(* of the table along, passes the check, or goes on from there.            *)
LEMMA RequestFates ==
  ASSUME RequestsOK, [LegacyNext]_legacyVars, NEW r \in Requests
  PROVE  LET q == req[r]
             p == req'[r]
         IN  \/ p = q
             \/ p.kind # "BUY" \/ p.stage \in {"none", "recording"}
             \/ /\ p.stage = "priced" /\ p.coin \in Coins
                /\ p.price = price[p.coin] /\ UNCHANGED vars
             \/ q.stage = "priced" /\ ~ IsCoinCollapsed(q.coin) /\ p.price = q.price
             \/ q.stage \in {"cleared", "debiting"} /\ p.price = q.price
                /\ p.kind = q.kind
<1> DEFINE q == req[r]
           p == req'[r]
           Fate == \/ p = q
                   \/ p.kind # "BUY" \/ p.stage \in {"none", "recording"}
                   \/ /\ p.stage = "priced" /\ p.coin \in Coins
                      /\ p.price = price[p.coin] /\ UNCHANGED vars
                   \/ /\ q.stage = "priced" /\ ~ IsCoinCollapsed(q.coin)
                      /\ p.price = q.price
                   \/ q.stage \in {"cleared", "debiting"} /\ p.price = q.price
                      /\ p.kind = q.kind
<1>1. q \in Request /\ RequestOK(q) /\ req \in [Requests -> Request]
  BY DEF RequestsOK
<1>2. ASSUME UNCHANGED req PROVE Fate
  BY <1>2
<1>3. ASSUME NEW s \in Requests, NEW new, req' = [req EXCEPT ![s] = new], s # r
      PROVE  Fate
  BY <1>1, <1>3
<1>4. ASSUME NEW s \in Requests, Ends(s) PROVE Fate
  BY <1>1, <1>4 DEF Ends, NoRequest
<1>5. ASSUME NEW s \in Requests,
             \/ CheckCollapse(s) \/ LockFunds(s) \/ FindHolding(s) \/ LockHolding(s)
      PROVE  Fate
  <2>1. CASE s # r
    BY <1>1, <1>5, <2>1 DEF CheckCollapse, LockFunds, FindHolding, LockHolding, At, Ends
  <2>2. CASE s = r
    <3>1. CASE CheckCollapse(r)
      BY <1>1, <1>4, <3>1 DEF CheckCollapse, At, Request
    <3>2. CASE LockFunds(r)
      BY <1>1, <1>4, <3>2 DEF LockFunds, At, Request
    <3>3. CASE FindHolding(r)
      BY <1>1, <3>3 DEF FindHolding, Request
    <3>4. CASE LockHolding(r)
      BY <1>1, <1>4, <3>4 DEF LockHolding, At, Request
    <3> QED
      BY <1>5, <2>2, <3>1, <3>2, <3>3, <3>4
  <2> QED
    BY <2>1, <2>2
<1>6. ASSUME NEW s \in Requests,
             \/ CommitBuy(s) \/ CommitSell(s) \/ InsertTransaction(s)
             \/ AbortDeadlock(s) \/ FailTrade(s)
      PROVE  Fate
  BY <1>4, <1>6 DEF CommitBuy, CommitSell, InsertTransaction, AbortDeadlock, FailTrade
<1>7. ASSUME NEW s \in Requests, NEW kind \in {"BUY", "SELL"}, NEW u \in Users,
             NEW coin \in Coins, NEW amount \in Amounts,
             \/ ReadCoin(s, kind, u, coin, amount)
             \/ CountBalance(s, kind, u, coin, amount)
      PROVE  Fate
  <2>1. CASE s # r
    BY <1>1, <1>7, <2>1 DEF ReadCoin, CountBalance
  <2>2. CASE s = r /\ ReadCoin(s, kind, u, coin, amount)
    BY <1>1, <2>2 DEF ReadCoin
  <2>3. CASE s = r /\ CountBalance(s, kind, u, coin, amount)
    BY <1>1, <2>3 DEF CountBalance, NoRequest
  <2> QED
    BY <1>7, <2>1, <2>2, <2>3
<1>8. ASSUME NEW u \in Users,
             \/ OpenAccount(u) \/ RemoveUser(u)
             \/ \E amount \in Adjustments : UpdateUserFunds(u, amount)
      PROVE  Fate
  BY <1>2, <1>8 DEF OpenAccount, RemoveUser, UpdateUserFunds
<1>9. CASE UNCHANGED legacyVars
  BY <1>2, <1>9 DEF legacyVars
<1>10. Fate
  BY <1>2, <1>5, <1>6, <1>7, <1>8, <1>9 DEF LegacyNext, Progress
<1> QED
  BY <1>10

(* Every step keeps zero the mark of a collapse.                           *)
LEMMA ZeroStep ==
  LegacyInvariant /\ ZeroMeansCollapsed /\ [LegacyNext]_legacyVars => ZeroMeansCollapsed'
<1> SUFFICES ASSUME LegacyInvariant, ZeroMeansCollapsed, [LegacyNext]_legacyVars,
                    FirstRoundLives'
             PROVE  /\ \A c \in Coins : price'[c] = 0 => IsCoinCollapsed(c)'
                    /\ \A r \in Requests : ZeroPriced(req[r])'
  BY DEF ZeroMeansCollapsed
<1>1. /\ FirstRoundLives
      /\ \A c \in Coins : /\ IsCoinCollapsed(c) => IsCoinCollapsed(c)'
                          /\ price'[c] = 0 => price[c] = 0 \/ IsCoinCollapsed(c)'
  <2>1. CASE [Next]_vars
    BY <2>1, CollapseStays, OnlyCollapsesZero DEF LegacyInvariant
  <2>2. CASE UNCHANGED <<cycles, price>>
    BY <2>2 DEF FirstRoundLives, InStatus, IsCoinCollapsed
  <2> QED
    BY <2>1, <2>2, LifecycleMoves
<1>2. \A c \in Coins : price'[c] = 0 => IsCoinCollapsed(c)'
  BY <1>1 DEF ZeroMeansCollapsed
<1>3. \A c : IsCoinCollapsed(c)' <=> CollapsedIn(cycles', c)
  BY DEF IsCoinCollapsed, CollapsedIn, InStatus
<1>4. ASSUME NEW r \in Requests, req'[r].kind = "BUY", req'[r].price = 0,
             req'[r].stage \in {"priced", "cleared", "debiting", "storing"}
      PROVE  req'[r].stage = "priced" /\ CollapsedIn(cycles', req'[r].coin)
  <2>1. RequestOK(req[r]) /\ ZeroPriced(req[r])
    BY <1>1 DEF LegacyInvariant, RequestsOK, ZeroMeansCollapsed
  <2>2. CASE req'[r] = req[r]
    <3>1. req[r].stage = "priced" /\ IsCoinCollapsed(req[r].coin) /\ req[r].coin \in Coins
      BY <1>4, <2>1, <2>2 DEF ZeroPriced, RequestOK
    <3> QED
      BY <1>1, <1>3, <2>2, <3>1
  <2>3. CASE /\ req'[r].stage = "priced" /\ req'[r].coin \in Coins
             /\ req'[r].price = price[req'[r].coin] /\ UNCHANGED vars
    BY <1>2, <1>3, <1>4, <2>3 DEF vars
  <2>4. CASE /\ req[r].stage = "priced" /\ ~ IsCoinCollapsed(req[r].coin)
             /\ req'[r].price = req[r].price
    BY <1>4, <2>1, <2>4 DEF ZeroPriced, RequestOK
  <2>5. CASE /\ req[r].stage \in {"cleared", "debiting"}
             /\ req'[r].price = req[r].price /\ req'[r].kind = req[r].kind
    BY <1>4, <2>1, <2>5 DEF ZeroPriced
  <2> QED
    BY <1>4, <2>2, <2>3, <2>4, <2>5, RequestFates DEF LegacyInvariant
<1>5. \A r \in Requests : ZeroPriced(req[r])'
  BY <1>4 DEF ZeroPriced, IsCoinCollapsed, CollapsedIn, InStatus
<1> QED
  BY <1>2, <1>5

(* At first no coin is at zero.                                            *)
LEMMA ZeroInit == LegacyInit => ZeroMeansCollapsed
BY CycleAssumption DEF LegacyInit, Init, ZeroMeansCollapsed, ZeroPriced, NoRequest

(* Whatever a collapse races with, a purchase at a price of zero gets past *)
(* isCoinCollapsed only when a round is over: while the first one lives    *)
(* the check catches what the price read too late or too early.            *)
THEOREM NothingFreeInTheFirstRound == LegacySpec => []ZeroPriceAfterRoundOnly
<1>1. ZeroMeansCollapsed => ZeroPriceAfterRoundOnly
  BY DEF ZeroMeansCollapsed, ZeroPriced, FirstRoundLives, ZeroPriceAfterRoundOnly
<1> QED
  BY <1>1, ZeroInit, ZeroStep, LegacyInvariantHolds, PTL DEF LegacySpec

-----------------------------------------------------------------------------
(* Prices beside the trades.                                               *)

(* Neither a trade nor a removal touches cycles, prices or calls.          *)
LEMMA SoloBeside ==
  ASSUME Invariant, Solo, [LegacyNext]_legacyVars, [OpensAlone]_cycles
  PROVE  Solo'
<1>1. CASE [Next]_vars
  BY <1>1, SoloStep
<1>2. CASE UNCHANGED <<clock, cycles, price, call>>
  BY <1>2, SoloStays
<1> QED
  BY <1>1, <1>2, LifecycleMoves

(* As long as no cycle opens beside one that is SETTLING, live prices tell *)
(* exactly the deaths of the cycle that lives, however many reconcile and  *)
(* however users trade, come and go.                                       *)
THEOREM PricesTellDeath == LegacySpec /\ [][OpensAlone]_cycles => []PriceTellsDeath
<1>1. LegacyInit => Solo
  BY SoloInit DEF LegacyInit
<1>2. LegacyInvariant /\ Solo /\ [LegacyNext]_legacyVars /\ [OpensAlone]_cycles => Solo'
  BY SoloBeside DEF LegacyInvariant
<1>3. Solo => PriceTellsDeath
  BY DEF Solo
<1> QED
  BY <1>1, <1>2, <1>3, LegacyInvariantHolds, PTL DEF LegacySpec

(* Trades beside the rounds, and users who leave, disturb no cycle: one is *)
(* live at most, settlement is whole, and what is COMPLETED stays as it is *)
(* (removeUser deletes an account and no row of a round).                  *)
THEOREM LegacyLeavesRounds ==
  LegacySpec => [](SingleLiveCycle /\ SettledWhole) /\ HistoryIsFinal
<1>1. LegacyInvariant => SingleLiveCycle /\ SettledWhole
  BY DEF LegacyInvariant, Invariant
<1>2. LegacyInvariant /\ [LegacyNext]_legacyVars
      => [\A k \in DOMAIN cycles :
            cycles[k].status = "COMPLETED" => cycles'[k] = cycles[k]]_vars
  BY LifecycleMoves, TableGrows DEF InStatus, LegacyInvariant
<1> QED
  BY <1>1, <1>2, LegacyInvariantHolds, PTL DEF LegacySpec, HistoryIsFinal
=============================================================================
