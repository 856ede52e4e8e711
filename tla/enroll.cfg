SPECIFICATION FairSpec
CONSTANTS
    Missing = Missing
    Torn = Torn
    None = None
    MaxKeys = 3
    MaxFaults = 4
    MaxOps = 2
INVARIANTS TypeOK IdentityIsUsable NoSelfConflict
PROPERTY EventuallyEnrolled
CHECK_DEADLOCK FALSE
