SPECIFICATION LegacySpec
CONSTANTS
  Coins = {btc, eth}
  Retired = {}
  Users = {1}
  StartingCash = 0
  Baseline <- BaselineValue
  Duration = 2
  Aligned = TRUE
  Callers = {worker}
  Worker = worker
  MaxClock = 2
  Requests = {r1, r2}
  Amounts = {1}
  Scale = 4
  Grain = 2
  StartingFunds = 4
  Adjustments <- AdjustmentsValue
  MaxMovements = 3
  btc = btc
  eth = eth
  worker = worker
  r1 = r1
  r2 = r2
INVARIANTS
  PriceTellsDeath
  LegacyTypeOK
  MoneyBalances
  HoldingsBalance
  RequestsNeverStuck
  OnlyLocksHoldUp
  ZeroPriceAfterRoundOnly
