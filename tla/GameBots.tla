------------------------------ MODULE GameBots ------------------------------
(***************************************************************************)
(* The roster bots (game/botService.js, game/botWorker.js): computer       *)
(* players that take part in a round through the same joins and trades as  *)
(* humans.                                                                 *)
(*                                                                         *)
(* Every server process runs a bot worker.  A tick reconciles, claims      *)
(* (cycle, tick id) in a table with a unique constraint, provisions the    *)
(* roster one bot after another, and lets each bot in turn join, look at   *)
(* the market and trade.  The tick reads the time once: its joins and      *)
(* trades carry that `now` however late they run.  No lock spans two of    *)
(* these transactions, so ticks of different processes interleave at each. *)
(* A process that dies, or an error that is no domain rejection, abandons  *)
(* the tick where it stands; its claim remains.                            *)
(*                                                                         *)
(* Prices do not move here but at collapses, so the price history a bot    *)
(* looks at is left open: any branch of its strategy may be the one taken. *)
(***************************************************************************)
EXTENDS GameRound

CONSTANTS
  Processes,     \* the server processes, callers of reconcileCycle
  Roster,        \* BOT_ROSTER: a sequence of [user, strategy]
  TickInterval,  \* GAME_BOT_TICK_INTERVAL_MS
  MaxActions,    \* GAME_BOT_MAX_ACTIONS_PER_TICK
  MaxTradeSize,  \* GAME_BOT_MAX_TRADE_SIZE, in pennies
  Cooldown       \* GAME_BOT_COOLDOWN_MS

ASSUME BotAssumption ==
  /\ Processes \subseteq Callers
  /\ Roster \in Seq([user : Users,
                     strategy : {"conservative", "momentum", "dip_buyer", "reckless"}])
  /\ Roster # <<>>
  /\ TickInterval \in Nat \ {0}
  /\ MaxActions \in Nat \ {0}
  /\ MaxTradeSize \in Nat \ {0}
  /\ Cooldown \in Nat

VARIABLES
  tick,       \* per process: the tick it is running, or Idle
  claims,     \* apocalypse_bot_ticks: per (cycle, tick id), the trades each
              \* bot made under it
  lastAction  \* apocalypse_bots.last_action_at, per roster position

botVars == <<clock, users, cycles, price, call, joining, tick, claims, lastAction>>

Bots == DOMAIN Roster
Order == [type : {"BUY", "SELL"}, coin : Coins, quantity : Nat]
NoOrder == [type |-> "HOLD"]
NoView == [cash |-> 0, holds |-> [c \in Coins |-> 0]]
NeverActed == [b \in Bots |-> None]

Idle ==
  [stage |-> "idle", cycle |-> 0, bot |-> 1, seen |-> NeverActed, taken |-> 0,
   view |-> NoView, order |-> NoOrder]

-----------------------------------------------------------------------------
(* The decision layer.                                                     *)

(* Per strategy: the share of cash it stakes, in percent, and the part of  *)
(* a holding it sells: all of it, half of it, or (0) never.                *)
Personality ==
  [conservative |-> [stake |-> 5, parts |-> 1],
   momentum |-> [stake |-> 10, parts |-> 2],
   dip_buyer |-> [stake |-> 15, parts |-> 1],
   reckless |-> [stake |-> 40, parts |-> 0]]

(* spendFor: the stake, capped by the trade size and by the cash itself.   *)
Spend(strategy, cash) ==
  Min({RoundDiv(cash * Personality[strategy].stake, 100), MaxTradeSize, cash})

(* boundedBuy: as many parts of a live coin as the stake surely pays for.  *)
Purchases(strategy, view) ==
  { [type |-> "BUY", coin |-> c,
     quantity |-> (Scale * Spend(strategy, view.cash)) \div price[c]] :
      c \in { d \in Catalogue : price[d] > 0 } }

(* boundedSell: a part of a holding, rounded down.                         *)
Sales(strategy, view) ==
  LET parts == Personality[strategy].parts
  IN  IF parts = 0 THEN {}
      ELSE { [type |-> "SELL", coin |-> c, quantity |-> view.holds[c] \div parts] :
               c \in Coins }

(* enforceMinTradeValue: a live coin is not traded below a penny.          *)
WorthPlacing(order) ==
  price[order.coin] > 0 => WorthTrading(Total(order.quantity, price[order.coin]))

(* decideBotAction and the two enforcements after it.                      *)
Decisions(k, strategy, view) ==
  { o \in Purchases(strategy, view) \cup Sales(strategy, view) :
      /\ o.quantity > 0
      /\ WorthPlacing(o)
      /\ o.type = "BUY" => ~ CollapsedInCycle(k, o.coin) }

-----------------------------------------------------------------------------
(* One tick.                                                               *)

Bot(c) == Roster[tick[c].bot]

TickId(c) == call[c].now \div TickInterval

Set(c, new) == tick' = [tick EXCEPT ![c] = new]

(* On to the next bot of the roster, or to the record after the last.      *)
Following(t, stage) ==
  IF t.bot < Len(Roster)
  THEN [t EXCEPT !.stage = stage, !.bot = @ + 1, !.view = NoView, !.order = NoOrder]
  ELSE [t EXCEPT !.stage = "recording", !.view = NoView, !.order = NoOrder]

(* The tick is over; its process may start another.                        *)
Leave(c) ==
  /\ Set(c, Idle)
  /\ call' = [call EXCEPT ![c] = [phase |-> "idle", now |-> 0]]
  /\ joining' = [joining EXCEPT ![c] = NoJoin]

(* runTick, one at a time per process: the tick reconciles first.          *)
BeginTick(c) ==
  /\ tick[c] = Idle
  /\ Reconcile(c)
  /\ Set(c, [Idle EXCEPT !.stage = "claiming"])
  /\ UNCHANGED <<joining, claims, lastAction>>

FaultyUnclaimed(k, id) == TRUE

(* INSERT ... ON CONFLICT (cycle_id, tick_id) DO NOTHING RETURNING: a row  *)
(* comes back only to the first.                                           *)
Unclaimed(k, id) == <<k, id>> \notin DOMAIN claims

(* The table with that row, nothing traded under it yet.                   *)
WithClaim(t) ==
  [s \in DOMAIN claims \cup {t} |-> IF s = t THEN [b \in Bots |-> 0] ELSE claims[s]]

(* The claim, or the early return: no live cycle any more, or a duplicate. *)
ClaimTick(c) ==
  /\ tick[c].stage = "claiming" /\ call[c].phase = "done"
  /\ \/ \E k \in DOMAIN cycles :
          /\ Live(k, call[c].now) /\ Unclaimed(k, TickId(c))
          /\ claims' = WithClaim(<<k, TickId(c)>>)
          /\ Set(c, [tick[c] EXCEPT !.stage = "provisioning", !.cycle = k])
          /\ UNCHANGED <<call, joining>>
     \/ /\ \A k \in DOMAIN cycles :
             Live(k, call[c].now) => ~ Unclaimed(k, TickId(c))
        /\ Leave(c)
        /\ UNCHANGED claims
  /\ UNCHANGED <<clock, users, cycles, price, lastAction>>

(* ensureBotsProvisioned, one bot of its loop: its user and identity exist *)
(* from now on, and its last action is read.                               *)
ProvisionBot(c) ==
  /\ tick[c].stage = "provisioning"
  /\ users' = users \cup {Bot(c).user}
  /\ LET read == [tick[c] EXCEPT !.seen[tick[c].bot] = lastAction[tick[c].bot]]
     IN  Set(c, IF tick[c].bot < Len(Roster) THEN [read EXCEPT !.bot = @ + 1]
                ELSE [read EXCEPT !.stage = "acting", !.bot = 1])
  /\ UNCHANGED <<clock, cycles, price, call, joining, claims, lastAction>>

(* The bot sits this tick out: the tick's actions are used up, or the bot  *)
(* acted, as far as was read at provisioning, less than a cooldown ago.    *)
Resting(t, now) ==
  \/ t.taken >= MaxActions
  \/ t.seen[t.bot] # None /\ now - t.seen[t.bot] < Cooldown

SkipBot(c) ==
  /\ tick[c].stage = "acting"
  /\ Resting(tick[c], call[c].now)
  /\ Set(c, Following(tick[c], "acting"))
  /\ UNCHANGED <<clock, users, cycles, price, call, joining, claims, lastAction>>

(* The bot's joinRound begins, with the tick's `now`.                      *)
StartJoin(c) ==
  /\ tick[c].stage = "acting"
  /\ ~ Resting(tick[c], call[c].now)
  /\ joining' = [joining EXCEPT ![c] = [user |-> Bot(c).user, attempt |-> 1]]
  /\ Goto(c, "freeze")
  /\ Set(c, [tick[c] EXCEPT !.stage = "joining"])
  /\ UNCHANGED <<clock, users, cycles, price, claims, lastAction>>

(* A pass of it.  A join returns the bot's cash and holdings in the cycle  *)
(* it joined, whichever that is; a join that gives up throws an error that *)
(* is no domain rejection, and only AbortTick is left.                     *)
FinishJoin(c) ==
  /\ tick[c].stage = "joining"
  /\ JoinActiveCycle(c)
  /\ \/ \E k \in DOMAIN cycles :
          LET p == cycles'[k].participants[Bot(c).user]
          IN  /\ Live(k, call[c].now)
              /\ Set(c, [tick[c] EXCEPT !.stage = "deciding",
                           !.view = [cash |-> p.cash, holds |-> p.holds]])
     \/ /\ \A k \in DOMAIN cycles : ~ Live(k, call[c].now)
        /\ UNCHANGED tick
  /\ UNCHANGED <<claims, lastAction>>

(* The market is read and the bot decides; it may also hold.               *)
DecideBotAction(c) ==
  /\ tick[c].stage = "deciding"
  /\ \/ \E o \in Decisions(tick[c].cycle, Bot(c).strategy, tick[c].view) :
          Set(c, [tick[c] EXCEPT !.stage = "trading", !.order = o, !.view = NoView])
     \/ Set(c, Following(tick[c], "acting"))
  /\ UNCHANGED <<clock, users, cycles, price, call, joining, claims, lastAction>>

FaultyPinned(c) == Max(DOMAIN cycles)

(* Trades name the cycle the tick claimed, not the one the bot joined.     *)
Pinned(c) == tick[c].cycle

(* The trade commits.                                                      *)
TradeBot(c) ==
  LET o == tick[c].order
      u == Bot(c).user
  IN  /\ tick[c].stage = "trading"
      /\ \/ /\ o.type = "BUY"
            /\ BuyRoundTrade(Pinned(c), u, o.coin, o.quantity, call[c].now)
         \/ /\ o.type = "SELL"
            /\ SellRoundTrade(Pinned(c), u, o.coin, o.quantity, call[c].now)
      /\ claims' = [claims EXCEPT ![<<tick[c].cycle, TickId(c)>>][tick[c].bot] = @ + 1]
      /\ Set(c, [tick[c] EXCEPT !.stage = "stamping", !.order = NoOrder])
      /\ UNCHANGED lastAction

(* A domain rejection is recorded and the next bot has its turn.           *)
RejectBot(c) ==
  LET o == tick[c].order
      u == Bot(c).user
  IN  /\ tick[c].stage = "trading"
      /\ IF o.type = "BUY"
         THEN ~ BuyAllowed(Pinned(c), u, o.coin, o.quantity, call[c].now)
         ELSE ~ SellAllowed(Pinned(c), u, o.coin, o.quantity, call[c].now)
      /\ Set(c, Following(tick[c], "acting"))
      /\ UNCHANGED <<clock, users, cycles, price, call, joining, claims, lastAction>>

(* Only then is the action stamped, with the tick's `now`, and counted.    *)
StampBot(c) ==
  /\ tick[c].stage = "stamping"
  /\ lastAction' = [lastAction EXCEPT ![tick[c].bot] = call[c].now]
  /\ Set(c, Following([tick[c] EXCEPT !.taken = @ + 1], "acting"))
  /\ UNCHANGED <<clock, users, cycles, price, call, joining, claims>>

(* The actions are written to the tick's row, and the tick returns.        *)
RecordTick(c) ==
  /\ tick[c].stage = "recording"
  /\ Leave(c)
  /\ UNCHANGED <<clock, users, cycles, price, claims, lastAction>>

(* A transaction of the tick throws, or its process dies and restarts.     *)
AbortTick(c) ==
  /\ tick[c] # Idle
  /\ Leave(c)
  /\ UNCHANGED <<clock, users, cycles, price, claims, lastAction>>

-----------------------------------------------------------------------------

BotStep(c) ==
  \/ BeginTick(c) \/ ClaimTick(c) \/ ProvisionBot(c)
  \/ SkipBot(c) \/ StartJoin(c) \/ FinishJoin(c)
  \/ DecideBotAction(c) \/ TradeBot(c) \/ RejectBot(c) \/ StampBot(c)
  \/ RecordTick(c) \/ AbortTick(c)

Humans == Users \ { Roster[b].user : b \in Bots }

(* The rest of the system: time, reconciliations, and human players, whose *)
(* accounts are not the roster's.                                          *)
OtherStep ==
  /\ \/ LifecycleStep(Callers \ Processes)
     \/ RoundStep(Callers \ Processes, Humans)
  /\ users' \ users \subseteq Humans
  /\ UNCHANGED <<tick, claims, lastAction>>

BotInit ==
  /\ RoundInit
  /\ tick = [c \in Processes |-> Idle]
  /\ claims = <<>>
  /\ lastAction = NeverActed

BotNext == OtherStep \/ \E c \in Processes : BotStep(c)

BotSpec == BotInit /\ [][BotNext]_botVars

-----------------------------------------------------------------------------
(* Properties.                                                             *)

(* The rows and calls stay typed under the ticks of every process; so a    *)
(* round never holds less than nothing, whoever trades in it and however   *)
(* late.                                                                   *)
BotTypeOK ==
  /\ RoundTypeOK
  /\ \A c \in Processes :
       /\ tick[c].stage \in {"idle", "claiming", "provisioning", "acting", "joining",
                             "deciding", "trading", "stamping", "recording"}
       /\ tick[c].bot \in Bots
       /\ tick[c].stage = "trading" => tick[c].order \in Order
  /\ \A t \in DOMAIN claims : claims[t] \in [Bots -> Nat]
  /\ lastAction \in [Bots -> Nat \cup {None}]

(* A tick id of a cycle is worth one turn of the roster over all processes *)
(* and all restarts: each bot trades at most once under it, and all of     *)
(* them together at most MaxActions times, whoever dies in between.        *)
OneTurnPerTick ==
  \A t \in DOMAIN claims :
    /\ \A b \in Bots : claims[t][b] <= 1
    /\ Cardinality({ b \in Bots : claims[t][b] > 0 }) <= MaxActions

(* A trade made under a tick is made in the cycle whose tick it was: no    *)
(* bot trades under a claim of a cycle that is over, and so the trades of  *)
(* a slow tick never reach into the cycle that followed.                   *)
TradesUnderLiveClaim ==
  [][\A t \in DOMAIN claims :
       claims'[t] # claims[t] =>
         /\ cycles[t[1]].status = "ACTIVE"
         /\ \A k \in DOMAIN cycles : k # t[1] => cycles'[k] = cycles[k]]_botVars
=============================================================================
