SPECIFICATION MarketSpec
CONSTANTS
  Coins = {btc, eth}
  Retired = {}
  Users = {1}
  StartingCash = 5
  Baseline <- BaselineValue
  Duration = 2
  Aligned = TRUE
  Callers = {worker, simulator}
  Worker = worker
  Sims = {simulator}
  Moves <- MovesValue
  MaxBatches = 1
  MaxClock = 2
  Quantities = {}
  Scale = 2
  JoinAttempts = 3
  MaxCash = 7
  MaxHeld = 100
  btc = btc
  eth = eth
  worker = worker
  simulator = simulator
INVARIANTS
  ZeroNeverRollsBack
