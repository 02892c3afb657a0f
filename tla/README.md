# A formal model of the Crypto Chaos game server

These modules model the server in this repository: a Node/PostgreSQL game in
which a market of coins runs in *apocalypse cycles*. During a cycle players buy
and sell coins with round cash; in its last 30% the coins collapse to £0 one by
one; at its end everybody is ranked by the cash they kept, the result is stored
for ever, and the next cycle begins at the restored prices. Several processes
(HTTP servers, each with a cycle worker, a bot worker and a price simulator)
share nothing but the database, and any of them may advance the game.

Paths below are relative to the repository (`src/` in PROJECT.json).

## The system

| component | state it keeps | operations |
|---|---|---|
| collapse schedule, `game/collapseScheduleService.js` | rows of `coin_collapse_schedule`: rank, time, executed_at | build from a seed, create once, execute what is due, restore baselines |
| lifecycle, `game/gameCycleService.js`, `gameCycleWorker.js` | `apocalypse_cycles`: window, ACTIVE / SETTLING / COMPLETED | `reconcileCycle`: freeze, settle, ensure an ACTIVE cycle |
| settlement, `game/gameSettlementService.js` | `apocalypse_results` | `freezeExpiredActiveCycle`, `settleSettlingCycle` |
| rounds, `game/gameRoundService.js` | participants, holdings, trade ledger | join, buy, sell, automatic participation, peaks, finalization |
| results, `game/gameResultsService.js` | none (reads, several statements each) | live leaderboard, results, recent boards |
| bots, `game/botService.js`, `botWorker.js`, `botConfig.js` | tick claims, last action per bot | `runBotTick` |
| simulator, `models/market-simulator.js` | `coins.current_price`; in memory: initial prices, market cycle, events | `start`, `stop`, `updateAllPrices` every 30 s |
| legacy trading, `models/transactions.model.js` and its controller | `users.funds`, `portfolios`, `transactions` | buy, sell, record |
| accounts, `models/users.model.js` and its controller | `users` | register, update, funds, remove |
| server, `server.js`, `app.js`, `db/connection.js` | listener, requests, timers, pool | start, shut down on a signal |
| rollups, `services/rollup-service.js` | OHLC buckets of closed intervals | compute, clean up |
| schema, `db/migrate.js`, `db/migrations` | the tables and their constraints | migrate, verify, seed |

How they interact:

- Everybody who reads or plays the game (HTTP state and leaderboard reads,
  joins, each price batch, each bot tick, the worker's timer) first calls
  `reconcileCycle`. It captures `now` once and runs up to three transactions in
  a loop, each under advisory lock 727001. Between them the lock is free.
- Round trades and joins are single transactions under the same lock. They
  compare the cycle's end with a `now` read before they waited for it.
- A price batch reconciles, reads the collapsed coins, and then writes in a
  transaction that locks every coin row but *not* the advisory lock. Creating
  and settling a cycle and every trade also touch coin rows, so against those
  the batch is atomic; the reading before it is not.
- A bot tick is a chain of such calls (reconcile, claim, provision, join, decide,
  trade, stamp, record) made with one `now`. Nothing is held between them.
- A leaderboard read is a chain of single statements, each seeing what is
  committed when it runs.
- Legacy trading reads prices and collapses outside its transactions and takes no
  advisory lock. Its SELECTs lock the account's row and the holding's FOR UPDATE;
  its INSERTs moreover share the keys of the user's and the coin's rows, through
  the foreign keys (`001:29-30,41-42`). Enrolment shares the keys of all users'
  rows in the same way (`009:185`), so it waits for a buy that is under way.
- `server.js` starts the workers, and `app.js` the simulator, in the process
  that also answers requests; a signal takes all of them down.

What is hard here: three-phase calls of many processes interleaving at every
transaction with different clocks; transactions that fail or whose process
dies; settlements resumed by someone else; cycles chained after downtime; a
check made before a lock and used after it; locks taken in opposite orders; a
restart that remembers the wrong price; rounding at a penny and at a
millisecond; a shutdown that overtakes the start. `PROJECT.json` lists each of
these hazards at its line with the properties that would catch it.

What makes each part correct, in a sentence: a *schedule* is fixed once, lies in
its window in rank order and is executed once; the *lifecycle* has one live
cycle, adjoining windows and never gets stuck; *settlement* is all or nothing
and final; in a *round* nothing is had for nothing, nobody goes below zero and
nothing moves after the freeze; a *board* is a whole table, never a part of one;
a bot *tick* is one turn, in its own cycle, whoever dies; the *simulator*
neither revives a dead coin nor loses a peak; *legacy trading* conserves money
and coins and overdraws nothing; the *server* drains before it drops its
database, begins no run of its game workers once it closes and always ends.

## The modules

| module | what it is |
|---|---|
| `CollapseSchedule` | what a schedule is, when each rank collapses, what is due, what executing it does: constant-level operators shared by the rest |
| `ScheduleBuilder` | `buildSchedule` as an algorithm: Fisher–Yates over any random source and the time loop |
| `RoundLifecycle` | the abstract promise: rounds open, close and are published one after the other over adjoining windows; and the weaker promise in which a round may open early |
| `GameCycle` | `reconcileCycle` and settlement with any number of callers |
| `GameRound` | `GameCycle` with joins and trades |
| `GameReads` | `GameRound` with a reader of leaderboards and results between any two transactions |
| `GameBots` | `GameRound` with the bot workers of several processes |
| `GameMarket` | `GameRound` with price simulators |
| `LegacyTrading` | `GameCycle` with accounts and the trades outside the rounds, statement by statement |
| `ServerProcess` | one server process: listener, connections, requests, timers, pool, signals |
| `BuilderProofs` | `ScheduleBuilder` |
| `GameCycleProofs` | `CollapseSchedule` and `GameCycle`: schedules, the invariant of the rows, the order of collapses and ranks, and the refinement of `RoundLifecycle` |
| `RoundProofs` | `GameRound`, on what `GameCycleProofs` establishes |
| `MarketProofs`, `BotProofs`, `ReadProofs` | `GameMarket`, `GameBots`, `GameReads`, each on what `RoundProofs` establishes |
| `LegacyProofs` | `LegacyTrading`: accounts, locks and balances |
| `ServerProofs` | `ServerProcess` |
| `MC*` | instances for TLC |

State and code. `cycles` is the table `apocalypse_cycles` in id order; each
element carries its dependent rows: `schedule` (one row per coin or `NoRow`),
`participants` (cash, peak, holdings, status per user) and `results`. `price` is
`coins.current_price`, `users` the registered ids, `clock` the time everybody
reads. `call[c]` is one caller's position in `reconcileCycle`'s loop and the
`now` it captured: `"freeze"`, `"settle"` and `"ensure"` are the points between
transactions, `"done"` a call that has returned a live cycle. Each transaction
is one action carrying everything it writes; `Fail` is a transaction that
throws, or a process that dies, between two of them.

- `GameRound`: `joining` says which join a call belongs to and which attempt.
- `GameReads`: `request` is the kind of read and the cycles it has yet to list.
- `GameBots`: `tick[p]` is where a process stands in `runBotTick`, the cycle it
  claimed, the bot whose turn it is, what it read of last actions at
  provisioning, and the order it decided on. `claims` is `apocalypse_bot_ticks`,
  counting the trades each bot made under a claim. A trade and its stamp are two
  steps, as they are two transactions.
- `GameMarket`: `sim[s]` is a simulator's stage within a batch, its initial
  prices and the collapsed coins it has read.
- `LegacyTrading`: `req[r]` is the statement a request has reached. A
  transaction's writes appear at COMMIT; which rows it has locked until then
  follows from its stage. `ledger` is the exact account of what was paid and
  traded, against which the rounded columns are compared. A ledger row inserted on
  its own and a phase of the lifecycle that enrols somebody wait for the user's row
  (`FundsFree`, `EnrolsUnlocked`). The keys of coins need no guard: nobody but a
  lifecycle transaction or a price batch locks a coin's row, and those are one
  action each.
- `ServerProcess`: an action is what the event loop runs between two awaits.
  `connections` are the clients' open connections: a listener that closes takes no
  new one, but one that is open goes on bringing requests. `timers` are the timers
  set, the forced exit's among them, `work` the worker runs in flight, `down[s]` where
  the handler of a signal stands.

`PROJECT.json`'s `map` gives the lines of every definition.

Abstractions. Time is in ticks; the collapse window is computed in the same
rounded arithmetic as the code but on ticks. Money is in pennies and quantities
in parts of `1/Scale`. The seeded shuffle is any permutation. A simulated price
moves by any of `Moves`, zero stays in place as a proportional drift does, and
the simulator's 20%..500% band and rounding to a penny are the code's. A bot's
strategy is kept as what it may order (the share of cash it stakes, the part of
a holding it sells, the coins eligible); which of these the price history and
the seeded stream pick, or none, is left open. The first cycle starts at the
aligned or unaligned present (`Aligned`). The history of the database starts
empty, or with one ACTIVE cycle from before schedules and automatic
participation existed (`LegacyCycle`). Overlapping batches of one process count
as two simulators. In `ServerProcess` delays are left out: a timer may fire
whenever it is set, and a run, request or query may hang for ever. Trade ledger
rows, price history and trade statistics are left out: nothing modelled reads
them.

The definitions named `Faulty...` are plausible bugs. No specification uses
them; each property is tested by swapping one in and seeing the property fail.

## What is checked

| run | question | bounds | distinct states |
|---|---|---|---|
| `schedule_builder` | does the algorithm build a legal, evenly spaced schedule? | 3 catalogue coins and a retired one, 30 windows of 1..33 ticks | 840 |
| `cycle_interleaved` | what holds of the rows, and of the rounds, however two callers interleave and fail? | 2 coins + 1 retired, 2 users, cycles of 2 ticks, clock to 3 | 398,848 |
| `cycle_fair` | does an expired cycle settle, a due collapse run, a registered user take part, the loop converge? | 3 callers, 2 coins, 1 user, cycles of 2, clock to 2 | 518,276 |
| `rounds` | with calls one at a time, does the lifecycle implement `RoundLifecycle`? are ranks right, is every board read a whole one, and are winners numbered as at settlement? | 1 coin, 2 users who trade in the first round, unaligned cycles of 1, clock to 2, cash to 3p | 733,562 |
| `bots` | is a tick one turn, in its own cycle, with nothing for nothing and nobody reset, however two workers race and die? | 2 processes, 2 bots, 1 coin, cycles of 2, clock to 2, ticks of 1 | 777,872 |
| `market` | do peaks, prices and dead coins survive the simulator's races and restarts? | 1 simulator, 1 worker, 1 player, 2 coins, 3 batches, clock to 1, cash to 7p | 850,634 |
| `legacy` | are money and coins conserved, nothing overdrawn, deadlocks broken, dead coins not bought? | 2 requests, 1 user, 2 coins, one whole cycle of 2, 3 movements | 1,096,305 |
| `server` | does the server drain first, begin no run once it closes and always end? | 2 signals, 2 coins, 2 connections, 2 requests and 2 runs of a worker in flight | 36,088 |

Property by property, what could have gone wrong and did not:

- `schedule_builder`: `BuildsASchedule` ties the algorithm to the set of
  schedules every other module draws from, `EvenlySpaced` its times to the
  rounding of the window.
- `cycle_interleaved`: `SingleLiveCycle`, `SettledWhole`, `LastCoinSurvives` and
  `CollapsesInRankOrder` of the rows; `ScheduleNeverRerolled` and `HistoryIsFinal`
  of every step. `ImplementsHurried` refines `RoundLifecycle`'s `HurriedSpec`:
  rounds open one at a time, each where the latest published one ended, close one
  at a time, and are each published once with everybody ranked 1..N by cash. That is
  what is left of `ImplementsLifecycle` when calls overlap (`cycle_stall`).
- `cycle_fair`: `DueCollapsesExecute` is about cycles created late. The call
  that creates such a cycle returns it with collapses due and unexecuted (the
  creating branch of `ensureActiveCycle` does not call the executor, although a
  comment at `models/market-simulator.js:304-306` counts on it); the property
  shows that they are executed by a later call all the same, even when other
  callers bring clocks that see nothing due. It and `ExpiredCycleSettles`,
  `RegisteredTakesPart` and `WorkerReturns` hold short of one
  state, `Stalled`: the code has a deadlock, which `cycle_stall` exhibits, and the
  properties say that it is the only thing that can keep the lifecycle from going
  on. `Stalled` needs a cycle without a schedule that is SETTLING, an ACTIVE cycle
  beside it and a price of zero; the theorem `StallIsForever` shows that it is no
  loophole, because no step of the lifecycle leaves it. (Beside it a price batch
  that had read the collapses before the last one can revive the coin, as in
  `market_revival`, and so undo by one fault what the other did.)
- `rounds`: `LiveBoardWhole` says that the live board, read after the
  reconciliation returned and possibly after the cycle was frozen, settled and
  replaced, lists all players or none. `RecentAgreesWithResults` compares the
  number a recent board computes at each read, among the winners alone, with the
  rank settlement stored, ties among the winners included.
- `bots`: `OneTurnPerTick` bounds the trades made under a claim across
  processes and crashes. `TradesUnderLiveClaim` says that no order reaches into
  a cycle whose tick its process never claimed, though the join just before may
  have landed in the next one. `NothingForFree` and `FrozenIsFrozen` hold of all
  trades. `EnrolledOnce` says that reconciliations, which enrol everybody over and
  over, and retried joins leave whoever is in with what they have traded for.
- `market`: `PeakCoversWealth` through batches, collapses and trades;
  `DeadNeverBought` though a stale batch may have revived the coin.
- `legacy`: `MoneyBalances` and `HoldingsBalance` keep the rounded columns
  within half a unit per movement of an exact ledger. `LegacyTypeOK` includes
  that neither is ever negative, which no CHECK guards. A buy and a sale of one
  holding lock in opposite orders. `RequestsNeverStuck` says that the database's
  detection of such a circle of two is enough: of the requests under way there is
  always one whose next lock is free or that stands in a circle (`Unblocked`).
  `OnlyLocksHoldUp` says that such a request can indeed go on: no check and no
  INSERT of a row that is already there holds it up. `ZeroPriceAfterRoundOnly`
  says where the collapse check does work; `legacy_free` shows where it does not.
  `PriceTellsDeath`, with calls one at a time, says that no collapse leaks into
  another cycle.
- `server`: `DrainedFirst`, though open connections bring further requests to a
  closing server, and `QuietOnceClosing` for a server that was listening;
  `OneEventPerCoin` for overlapping listings of the coins; `SignalEnds` for
  everything that may hang: the fallback timer is armed at the first signal and
  must outlive every other step of the shutdown.

Four runs are expected to fail and show where the code departs from its own
comments (`findings` in PROJECT.json has the quotations):

| run | property | what TLC finds |
|---|---|---|
| `cycle_stall` | `SettlementResumes` | the first cycle has no schedule. A and B, with `now` before its end, are past freeze and settle; the worker freezes it; A finds no ACTIVE row and inserts a second cycle over the same window, for `ensureActiveCycle` does not look for a SETTLING one (a fault by itself, see the findings); B recovers the successor and executes its first collapse, so a price is 0. From then on each settlement inserts a schedule with that price as a baseline, `CHECK (baseline_price > 0)` (`008:216`) refuses it, and the transaction rolls back. The successor is not frozen while a cycle is SETTLING, and only creating a cycle restores prices. |
| `market_revival` | `DeadStaysZero` | a collapse committed between `getCollapsedCoinIds` and `FOR UPDATE` is overwritten with a positive price |
| `market_restart` | `ZeroNeverRollsBack` | a simulator started while a coin is at £0 remembers zero and can never write a batch once the coin lives again |
| `legacy_free` | `NoFreeCoins` | settlement commits a COMPLETED cycle and prices of £0; until the next cycle's transaction a legacy buy finds no collapsed coin and pays nothing |

Because of the first, `ImplementsLifecycle` (with `Chained`, the adjoining windows
it demands) and `PriceTellsDeath` are not true of callers that overlap in just that
way, and `rounds` and `legacy` check them with one caller (which still fails,
restarts and falls behind). What is proved is stronger: they hold for any number of
overlapping callers in every behaviour in which no step opens a cycle beside one
that is SETTLING (`OpensAlone`), and `ImplementsHurried` holds in all.

Smaller departures met on the way, which no run is spent on:

- `game/gameResultsService.js:108-110` calls a failing settlement "the only way"
  there is no ACTIVE cycle; between a settlement and the creation of the next
  cycle there is none either, and `FindLiveCycle` answers 409 then too.
- `server.js:82-84` says that no timer survives a shutdown. `start()` of the
  simulator may still be awaiting when `stop()` runs, and then sets its interval
  afterwards (`StartPriceUpdates` after `HandleSignal`); a signal that arrives
  before the server listens stops workers that `Listen` then starts. The explicit
  exit ends them; `QuietOnceClosing` therefore speaks of a listening server.
- `server.js:82` and `:112` say that a shutdown stops accepting new HTTP work.
  `httpServer.close()` refuses new connections; one that is open brings further
  requests (`AcceptRequest`) until it closes (`Disconnect`), which from Node 19 on
  happens to idle ones at once.
- The first listing of coins in `start()` begins no coin event, because
  `isRunning` is set only afterwards; events begin with the second market cycle.
- One failed query in the market cycle's timeout is an unhandled rejection and
  ends the process (`CrashOnCoinEvents`).
- The recovery branch of the price interval is never reached: `updateAllPrices`
  handles its own errors.
- A bot's cooldown is not kept by overlapping ticks of two processes: each reads
  the last action at its provisioning and stamps it after the trade.

Bounds, all named. `MaxClock` ends time: with cycles of 2 ticks the runs see a
collapse in mid-cycle, the last at the end, an expiry, a settlement and a
successor that collapses its first coin; with cycles of 1 tick (`rounds`) also a
successor that is itself expired when it is created, and so two completed cycles
to list. `MaxCash` and `MaxHeld` stop trading beyond them and only keep the state
space finite. `LastTrade` ends the trading of `rounds` with its first round, which
both users can leave with more than they had, at equal cash or not; what follows
is further rounds and readers. `MaxBatches` counts the price batches begun: one to
start the band, one for a collapse to hit, one after a restart. `MaxMovements`
bounds a user's ledger rows and adjustments, those of requests under way included:
with three, a purchase can be followed by a purchase and a sale that deadlock.
`JoinAttempts` is 2 in `bots` where the code has 3: one retry and the giving up
both happen. `cycle_interleaved`, `bots` and `legacy` have two callers, processes
or requests, enough for one to be overtaken between two steps by another that goes
on repeating. That is not enough for everything, and nothing here argues that it
is: `Stalled` takes three calls, two of them with an old clock, so `cycle_fair`
has three callers, one coin that dies before the other and a first cycle that may
lack its schedule. The safety properties are proved for any number of callers; of
the liveness properties the run shows what three can do up to and through the
first rollover, and no more. `bots` has one coin, for no property of it compares
coins; two bots are needed for the limit on actions and the order of the roster.
`market` stops before a rollover; the lifecycle beside prices is covered by
`legacy` and, for the races with restarts across a rollover, by `market_restart`.

Symmetry is declared in `bots` alone, over the two processes: they are treated
alike (`Worker` matters only to fairness, which `BotSpec` has none of) and the
properties are safety properties. Elsewhere user ids are ordered and callers are
distinguished. Deadlock is checked everywhere but in `schedule_builder`, whose
algorithm ends, and in `server`, whose process exits.

Fairness. `FairSpec` of `GameCycle`: the worker's interval
(`gameCycleWorker.js`) keeps starting calls, so `Reconcile(Worker)` is weakly
fair; a phase may fail any number of times but not for ever, so the worker's
three phases are strongly fair. Nothing is asked of other callers, users or the
clock. `cycle_fair` stops the clock at `MaxClock`; what is due, has
expired or registered by then must still be dealt with. A phase that fails because
the schedule INSERT violates its CHECK while a coin's price is zero is not enabled,
so fairness asks nothing of it: in `Stalled` no settlement is enabled ever again,
and the fair behaviour `cycle_stall` finds is one in which the worker calls and
fails for ever. `ServerSpec` asks only that the fallback timer
set by `shutdown` fires once it is set and unless it is cleared (`WF` of `ForceExit`):
the event loop of a process that hangs on the database is idle, not blocked, and
should nothing keep the loop alive the process ends by itself.

## What is proved

With the TLA+ proof system, for every value of the constants: any finite set of
coins, any callers, users, durations and clocks, any number of simulators, bot
processes, requests or signals. Every safety property a passing run checks has a
theorem but `OnlyLocksHoldUp` (see "Only model-checked").

### The schedule builder (`BuilderProofs`)

`ScheduleIsBuilt` (`BuildsASchedule`) and `TimesAreEven` (`EvenlySpaced`), for every
catalogue, random source and window. The invariant is that of the two loops: the
array being shuffled is a bijection from places to coins at every turn
(`SwappedArranged`: an exchange of two places keeps it one), and the times pushed
are those of the first ranks. The rows read off it are then one of the `Schedules`
every other module draws from (`BuiltIsSchedule`). That times are even to the
rounding is a fact about rounded quotients: multiplied back, one is off by at most
half of the divisor.

### The lifecycle (`GameCycleProofs`)

| theorem | states |
|---|---|
| `TypeCorrect`, `OneLiveCycle`, `SettlementIsWhole` | `Spec => []TypeOK`, `[]SingleLiveCycle`, `[]SettledWhole` |
| `CompletedIsForever`, `ScheduleIsKept`, `LifecycleInAHurry` | `Spec => HistoryIsFinal`, `ScheduleNeverRerolled`, `ImplementsHurried` |
| `RankOrder`, `LastCoinAlive`, `RanksWithoutGap` | `Spec => []CollapsesInRankOrder`, `[]LastCoinSurvives`, `[]RanksGapless` |
| `OneAfterTheOther`, `LifecycleIsImplemented` | `Spec /\ [][OpensAlone]_cycles => [](Chained /\ NoOverlap /\ PriceTellsDeath)`, `ImplementsLifecycle` |
| `StallIsForever` | `Spec => [][Stalled => Stalled']_vars` |

`Invariant == TypeOK /\ SingleLiveCycle /\ SettledWhole` is inductive as a whole
only. A freeze keeps a single SETTLING cycle because it looks for one, a creation
a single ACTIVE one; settling produces ranked results for everybody because,
until then, the cycle had no finalized participant and no result; and that ranks
are numbers needs the final cash to be present exactly on finalized rows.
What it needs of schedules is that times lie in the window (`CollapseTimeInCycle`,
by bounds on the rounded division). There is a lemma per operator on one cycle's
rows, two on replacing and appending a row of the table (`ReplacedTable`,
`AppendedTable`), and `CycleSteps`: the five things a step can do to the table.

The properties of order are not inductive and `Invariant` does not imply them.
`Law` strengthens it cycle by cycle:

- `InOrder`: times ascend with the rank, and whatever is executed was executed
  before anything left over comes due. Without the second part a caller with an
  older clock could execute rank 1 after rank 2; with it, an older clock finds
  nothing due. `Executed` keeps it for *any* time it is given
  (`ExecutedInOrder`).
- `Numbered`: participant numbers are 1..N without gap or repetition, so that
  `Beats` has no ties. That the ranks then *are* 1..N (`RanksAreFair`) is a
  counting argument on any strict order (`PlacesInOrder`, used again for the lists
  and boards of the reads): a better player is beaten by a strict subset of those
  who beat a worse one, so ranks are injective into 1..N and exhaust it.
- `AliveAt` and `NowNotAhead`: no `now` is ahead of the clock, so nothing is
  executed ahead of it, and the row at the very end not before the freeze.

*The refinement.* That a round may open early is all that overlapping calls can
break. `LifecycleInAHurry` says so without any condition: whoever calls, fails and
overlaps, the cycles implement `HurriedSpec`. The full promise (`Chained`,
`NoOverlap`, `PriceTellsDeath`, `ImplementsLifecycle`) is false of some behaviours of
two callers (the trace of `cycle_stall` begins with one), so these theorems are about the
behaviours of *any* callers in which no step opens a cycle while one is SETTLING,
`[][OpensAlone]_cycles`. That is the condition the code lacks: the window in which
`ensureActiveCycle` looks for an ACTIVE cycle alone. Under it `Solo` is inductive
for any number of callers, each with its own clock: nothing is SETTLING where a
cycle is opened, hence windows adjoin, and prices are those of the one live
cycle. `RefineSteps` maps `RoundsOf(cycles)` step by step: a freeze is `Close`
(`FreezeCloses`), a settlement `Publish` (`SettlementPublishes`: finalization and
ranking make the standings the abstract one asks for), a creation `Open`
(`CreationOpens`) or, overlapping, `OpenHurriedly` (`CreationHurries`), and everything
else, recovery included, leaves the rounds alone.

*The deadlock.* `StallIsForever` goes through every step: with the first of the
cycles SETTLING and no schedule for it to be had, `Settleable` offers nothing but
that cycle, `ScheduleChoices` has no schedule to give while a price is zero, nothing
is frozen, nothing created, and recovery writes no price but zero.

### Rounds (`RoundProofs`)

`RoundTypeCorrect` (`RoundTypeOK`), `FinalTableByCash` (`RankedByCash`),
`NothingMinted` (`NothingForFree`), `NobodyStartsOver` (`EnrolledOnce`),
`FrozenForGood` (`FrozenIsFrozen`), `HistoryStaysFinal` (`HistoryIsFinal`) and
`RoundsInAHurry` (`ImplementsHurried`); `RoundsAreChained` (`Chained`) and
`RoundsAreImplemented` (`ImplementsLifecycle`) under `OpensAlone`. All for any callers.

`RoundCases` reduces a step of the composition to three: a step of the lifecycle,
a call sent round again or given up, or a *play*, a join or trade that replaces
participants of the one ACTIVE cycle. These three (`GameChange`) keep `Law`, and
`ChangeStep`, `ChangeGrows`, `ChangeKeeps` and `SoloChange` say of them what the
modules that compose `GameRound` with others need. Only `JoiningOK` (who joins is
a user) is added. Wealth is the community module's fold over the coins;
what is needed of it (a total is a number, a change of one coin changes the total
by as much, lower prices never raise it) is proved by taking a minimal subset of
the coins that contradicts it (`MinimalSubset`), which needs no induction schema.

### The reads (`ReadProofs`)

`LiveBoardsAreWhole` (`LiveBoardWhole`), `ResultsAreWhole` (`ResultsWhole`) and
`RecentBoardsAgree` (`RecentAgreesWithResults`), for any callers. A reader does
to the game only what any caller may do: `ReadersArePlayers` proves that every
behaviour with readers is one of `RoundSpec`, so what is proved of the rounds holds
beside them (`RoundsGoOnAsBefore`, which covers the properties of the `rounds` run
under the specification it checks). The invariant adds little, and that is the
point of these reads: the cycles a request has yet to list still exist, and where
it chose them COMPLETED they stay untouched (`RequestOK`, by `ChangeGrows`). The
number a board gives is then compared with the stored rank: both are places in the
same strict order of the table, and leaving out those who won nothing moves nobody
up, because whoever beats a winner is one (`RecentRanks`).

### The market (`MarketProofs`)

`MarketTypeCorrect` (`MarketTypeOK`), `PeakIsThePeak` (`PeakCoversWealth`),
`NoDeadCoinBought` (`DeadNeverBought`), and `MarketIsFair`: `NothingForFree`,
`EnrolledOnce`, `FrozenIsFrozen` and `HistoryIsFinal` though prices move under the
players' hands.
A batch either rolls back or rewrites
prices and lifts every peak in the same transaction (`RepricedTable`). The lifecycle
lifts no peak when it moves prices, so its steps need an argument of their own: a
collapse only lowers prices, and baselines are restored only when no cycle is
ACTIVE, for a cycle in which nobody holds anything yet. The runs have one simulator;
the theorems hold for any number of them racing.

### The bots (`BotProofs`)

`BotsTypeCorrect` (`BotTypeOK`), `OneTurnEach` (`OneTurnPerTick`),
`ClaimedCycleOnly` (`TradesUnderLiveClaim`), `BotsMintNothing`
(`NothingForFree`), `BotsEnrolOnce` (`EnrolledOnce`), `BotsLeaveFrozen`
(`FrozenIsFrozen`), `BotsLeaveHistory` (`HistoryIsFinal`, `RankedByCash`),
`BotsInAHurry` (`ImplementsHurried`) and, under `OpensAlone`, `BotsKeepTheRounds`
(`Chained`, `ImplementsLifecycle`), for any number of processes. Each step of a
tick is a `GameChange` as well (`BotCases`), which gives all but the second and
third. The invariant `BotsOK` says who holds a claim and what it knows: a claim
has at most one running tick, the one whose INSERT returned the row; no bot whose
turn is still to come (`Pending`) has traded under it, and as many have as that
tick has counted (`Honest`). A tick that dies leaves a claim nobody holds, and
nothing is ever traded under it again.

### Legacy trading (`LegacyProofs`)

`NeverOverdrawn` (`LegacyTypeOK`), `MoneyIsConserved` (`MoneyBalances`),
`HoldingsAreConserved` (`HoldingsBalance`), `SomeoneGoesOn` (`RequestsNeverStuck`),
`NothingFreeInTheFirstRound` (`ZeroPriceAfterRoundOnly`), `LegacyLeavesRounds`
(`SingleLiveCycle`, `SettledWhole`, `HistoryIsFinal`); under `OpensAlone`
`PricesTellDeath` (`PriceTellsDeath`).

That nothing is overdrawn rests on the locks, so the invariant is about them.
`RequestOK`: a request that holds the account's lock has an account that exists
and still covers the unrounded cost it checked; one that holds a holding's lock,
a row that still covers the amount. `Apart`: no two hold the same lock. Each
action that writes a row waits for its lock, so it leaves what the others rely on
(`Relies`). The balances take half a unit of rounding per movement
(`RoundDivNear`, `DriftAdds`), whatever the scale and the grain; an account that is
not open leaves no trace, so that it opens in balance.

`SomeoneGoesOn` holds for any number of requests, not only for the two of the run,
and shows that no circle of three or more can form. Suppose all wait. A buy that
writes its holding waits for a sale of that holding at most; then the row exists,
the buy will UPDATE it, and the two are a circle the database breaks. So no buy
is writing, hence no account is locked by one, hence no sale waits for an account,
hence no lock is held at all and the next request may go on. The step "the row
exists, so the buy has found it" is an invariant of its own, `FoundOK`: what
`updatePortfolioOnClient` read without a lock on the holding is still true when it
writes, because it holds the lock on the account and every other writer of the
portfolio needs that lock.

`ZeroPriceAfterRoundOnly` has an invariant of its own, `ZeroMeansCollapsed`: while
no cycle is COMPLETED, a coin at zero is collapsed in a live cycle and stays so,
and a purchase that carries a price of zero has not passed the check. It holds
for overlapping calls too, though a second cycle may then live beside the first.

### The server (`ServerProofs`)

`ServerTypesHold` (`ServerTypeOK`, in which a bot tick never overlaps another of
its own process), `RequestsDrainFirst` (`DrainedFirst`), `EventsNeverDouble`
(`OneEventPerCoin`), `ClosingIsQuiet` (`QuietOnceClosing`) and `FallbackStaysArmed`.
The inductive invariant adds three facts.

- `ShutdownOrder`: before the first signal the pool is open and the listener not
  closing; a shutdown that drains has closed its listener to new connections; a
  server that closes has cleared the timers of its game workers and keeps its pool
  until the last connection is gone; and the fallback timer is set from the first
  signal to the end of the process. Without the first, an open listener whose pool
  had already ended would break `DrainedFirst` at the first signal; without the
  third, an interval could still fire. The last is `FallbackStaysArmed`: all that
  `SignalEnds` needs besides that a timer that is set fires.
- `ClientsKnown`: a request comes on a connection, and a closed listener has none.
  Requests that keep coming while the server closes therefore come before the pool
  ends.
- `EventsKnown`: a coin whose event is pending is a coin the simulator knows,
  without which a listing could begin a second.

### Assumptions

`CoinsAssumption` (finitely many coins, the retired among them),
`CycleAssumption` (positive duration and baselines, finitely many users with
numeric ids), `BuilderAssumption` (the canonical order lists the catalogue, each
coin once), `RoundAssumption`, `ReadAssumption`, `MarketAssumption`, `BotAssumption` (its roster is
not empty, as `validateBotRoster` demands, `game/botConfig.js:53-55`),
`LegacyAssumption` (positive amounts, scale and grain) and `ServerAssumption`. TLC
evaluates each of them on the runs. No theorem limits the number of callers. The
only further hypothesis of a theorem is `[][OpensAlone]_cycles`, where it is named
above: a condition on the behaviour, which the trace of `cycle_stall` shows the code
can break.

### Only model-checked

- Liveness under fairness: `DueCollapsesExecute`, `ExpiredCycleSettles`,
  `RegisteredTakesPart`, `WorkerReturns`, `SignalEnds`.
- `OnlyLocksHoldUp`, which is about ENABLED. Its substance is proved without:
  that somebody's next lock is free (`SomeoneGoesOn`), that what a buy found stays
  true (`FoundOK`), and that the checks of those who hold a lock still pass
  (`RequestOK`).

Both kinds are out of the prover's reach. Everything else the runs check is proved.

## Not modelled

- *Price-history rollups* (`services/rollup-service.js`): a script outside the
  game on windows of `price_history`. What could go wrong is time arithmetic in
  SQL and rows committed late into a closed bucket; carrying `price_history`
  would multiply every state space here.
- *Volatility curve*, trends and the effects of market cycles and coin events on
  a price: bounded real functions that only choose among the moves left open.
- *Status and statistics reads*, coins and history endpoints, formatting: no
  state of their own.
- *Configuration* (`botConfig.js`, environment variables) is an assumption on the
  constants. Its check that a trade size has at most two decimals compares
  floating-point products and so rejects some that do, such as 1.1.
- *Authentication and profile updates*: nothing the properties are about.
- *Migrations, seeding, `verify-game-schema.js`*: the constraints the schema ends
  up with are what `TypeOK` and `SingleLiveCycle` state; getting there is not
  modelled. The TypeScript under `src/market` is unused.
- *Row locks inside a lifecycle transaction*, which is one action. A deadlock
  between collapses in rank order and a batch in table order aborts one of the two,
  which is `Fail` or `FailBatch`. So does one between a new schedule, which locks all
  coins before enrolment needs the keys of the users, and a legacy buy, which locks
  its user before its ledger row needs the key of the coin: `Fail` or `FailTrade`.
- *Two simulators at once*: `GameMarket` is written for any number, but with two
  the composition is beyond an exhaustive run.
