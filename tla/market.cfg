SPECIFICATION MarketSpec
CONSTANTS
  Coins = {btc, eth}
  Retired = {}
  Users = {1}
  StartingCash = 5
  Baseline <- BaselineValue
  Duration = 2
  Aligned = TRUE
  Callers = {worker, simulator}
  Worker = worker
  Sims = {simulator}
  Moves <- MovesValue
  MaxBatches = 3
  MaxClock = 1
  Quantities = {2}
  Scale = 2
  JoinAttempts = 2
  MaxCash = 7
  MaxHeld = 100
  btc = btc
  eth = eth
  worker = worker
  simulator = simulator
INVARIANTS
  MarketTypeOK
  PeakCoversWealth
PROPERTIES
  DeadNeverBought
