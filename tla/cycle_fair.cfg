SPECIFICATION FairSpec
CONSTANTS
  Coins = {btc, eth}
  Retired = {}
  Users = {1}
  StartingCash = 10
  Baseline <- BaselineValue
  Duration = 2
  Aligned = TRUE
  Callers = {worker, reader, bot}
  Worker = worker
  MaxClock = 2
  btc = btc
  eth = eth
  worker = worker
  reader = reader
  bot = bot
PROPERTIES
  RegisteredTakesPart
  ExpiredCycleSettles
  DueCollapsesExecute
  WorkerReturns
