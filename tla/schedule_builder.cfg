SPECIFICATION Spec
CONSTANTS
  btc = btc
  eth = eth
  ada = ada
  old = old
  Coins = {btc, eth, ada, old}
  Retired = {old}
  Starts = {0, 1, 7}
  Durations = {1, 2, 3, 4, 5, 6, 7, 10, 15, 33}
  Canonical <- CanonicalValue
CHECK_DEADLOCK FALSE
INVARIANTS
  BuildsASchedule
  EvenlySpaced
