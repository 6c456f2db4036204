CONSTANTS
  p1 = p1
  p2 = p2
  Pool = {p1, p2}
  Native = {p1, p2}
  Act <- MCActs
  Advice = {"EXIT", "ENTER"}
  Watchlist = {p1}
  Boot <- MCOwn
  Setting <- MCLive
  MaxQueue = 2
  MaxPerPool = 2
  MaxId = 1
  MaxPos = 3
  MaxEth = 1
  MaxCycles = 1
  MaxRestarts = 0

SPECIFICATION Spec
CHECK_DEADLOCK FALSE

PROPERTY NoReenterAfterExit
