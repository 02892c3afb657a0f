SPECIFICATION Spec
CONSTANTS
  Coins = {btc, eth, luna}
  Retired = {luna}
  Users = {1, 2}
  StartingCash = 10
  Baseline <- BaselineValue
  Duration = 2
  Aligned = TRUE
  Callers = {worker, reader}
  Worker = worker
  MaxClock = 3
  btc = btc
  eth = eth
  luna = luna
  worker = worker
  reader = reader
INVARIANTS
  TypeOK
  SingleLiveCycle
  SettledWhole
  LastCoinSurvives
  CollapsesInRankOrder
PROPERTIES
  ScheduleNeverRerolled
  ImplementsHurried
  HistoryIsFinal
