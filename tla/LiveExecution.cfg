CONSTANTS
  MaxToken = 3
  MaxOp = 2
  MaxFaults = 2
  V4 = {3}

SPECIFICATION FairSpec

INVARIANT TypeOK
INVARIANT NoDanglingPlan
INVARIANT ConfirmedEntryHeld
PROPERTY LiveNotDropped
PROPERTY TrackingConverges
