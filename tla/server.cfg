SPECIFICATION ServerSpec
CONSTANTS
  Signals = {SIGTERM, SIGINT}
  Coins = {btc, eth}
  MaxRequests = 2
  MaxWork = 2
  SIGTERM = SIGTERM
  SIGINT = SIGINT
  btc = btc
  eth = eth
CHECK_DEADLOCK FALSE
INVARIANTS
  ServerTypeOK
  DrainedFirst
  OneEventPerCoin
PROPERTIES
  QuietOnceClosing
  SignalEnds
