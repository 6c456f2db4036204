CONSTANTS
  p1 = p1
  Pool = {p1}
  Native = {}
  Act <- MCActs
  Advice = {"HOLD", "EXIT", "ENTER"}
  Watchlist = {p1}
  Boot <- MCMixed
  Setting <- MCSettings
  MaxQueue = 2
  MaxPerPool = 2
  MaxId = 1
  MaxPos = 3
  MaxEth = 1
  MaxCycles = 2
  MaxRestarts = 1

SPECIFICATION Spec
CHECK_DEADLOCK FALSE

INVARIANT PositionCap
PROPERTY NoDoubleCount
PROPERTY ConsumedOnce
PROPERTY SafetyExitKept
