CONSTANTS
  MaxToken = 2
  MaxOp = 3
  MaxFaults = 0
  V4 = {1, 2}

SPECIFICATION Spec

PROPERTY V4LiveNotDropped
