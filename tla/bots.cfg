SPECIFICATION BotSpec
CONSTANTS
  Coins = {btc}
  Retired = {}
  Users = {1, 2}
  StartingCash = 5
  Baseline <- BaselineValue
  Duration = 2
  Aligned = TRUE
  Callers = {p1, p2}
  Worker = p1
  MaxClock = 2
  Quantities = {8}
  Scale = 8
  JoinAttempts = 2
  MaxCash = 5
  MaxHeld = 100
  Processes = {p1, p2}
  Roster <- RosterValue
  TickInterval = 1
  MaxActions = 1
  MaxTradeSize = 1
  Cooldown = 1
  btc = btc
  p1 = p1
  p2 = p2
INVARIANTS
  BotTypeOK
  OneTurnPerTick
PROPERTIES
  NothingForFree
  EnrolledOnce
  FrozenIsFrozen
  TradesUnderLiveClaim
SYMMETRY Symmetry
