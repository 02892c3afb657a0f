SPECIFICATION ReadSpec
CONSTANTS
  Coins = {btc}
  Retired = {}
  Users = {1, 2}
  StartingCash = 1
  Baseline <- BaselineValue
  Duration = 1
  Aligned = FALSE
  Callers = {worker}
  Worker = worker
  MaxClock = 2
  LastTrade = 1
  Quantities = {5, 10}
  Scale = 8
  JoinAttempts = 3
  MaxCash = 3
  MaxHeld = 10
  Traders = {1, 2}
  Reader = worker
  MaxLimit = 2
  DefaultLimit = 1
  btc = btc
  worker = worker
INVARIANTS
  RankedByCash
  LiveBoardWhole
  ResultsWhole
  RecentAgreesWithResults
PROPERTIES
  ImplementsLifecycle
