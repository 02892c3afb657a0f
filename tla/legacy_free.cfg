SPECIFICATION LegacySpec
CONSTANTS
  Coins = {btc}
  Retired = {}
  Users = {1}
  StartingCash = 0
  Baseline <- BaselineValue
  Duration = 1
  Aligned = TRUE
  Callers = {worker}
  Worker = worker
  MaxClock = 1
  Requests = {r1}
  Amounts = {1}
  Scale = 1
  Grain = 1
  StartingFunds = 6
  Adjustments <- AdjustmentsValue
  MaxMovements = 3
  btc = btc
  worker = worker
  r1 = r1
PROPERTIES
  NoFreeCoins
