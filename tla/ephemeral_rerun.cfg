SPECIFICATION Spec
CONSTANTS
    Missing = Missing
    Torn = Torn
    None = None
    MaxKeys = 3
    MaxFaults = 4
    MaxOps = 2
INVARIANT FreshStartsWork
CHECK_DEADLOCK FALSE
