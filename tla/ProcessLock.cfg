\* Three launches against no file, a stale one and a torn one.
CONSTANTS
    Launcher = {a, b, c}
    Old = Old
    Torn = Torn
    None = None
SPECIFICATION Spec
\* Every launch ends in the end.
CHECK_DEADLOCK FALSE
INVARIANTS TypeOK OverlapNeedsDisplacement SomeLaunchWins
