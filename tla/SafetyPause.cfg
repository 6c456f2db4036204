CONSTANTS
  Job = {j1}
  Modes = {"canary", "shadow"}
  MaxExec = 2
  DrawdownOn = TRUE
  Pools = 2
  MaxFaults = 3

SPECIFICATION FairSpec

INVARIANT TypeOK
INVARIANT LatchIsDurable
PROPERTY CarriedBreachPaused
PROPERTY RearmNeedsFailure
PROPERTY PauseLifts
