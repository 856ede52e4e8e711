SPECIFICATION Spec
CONSTANTS
    Missing = Missing
    Torn = Torn
    None = None
    h1 = h1
    h2 = h2
    Hosts = {h1, h2}
    NameSets = {{h1}}
    MaxTime = 3
    MaxCAs = 2
    CaLife = 2
    TTLs = {0}
    DefaultTTL = 1
INVARIANTS TypeOK TrustIsDeclared StoreConsistent LeafWithinIssuer IdentityWorks
PROPERTIES FirstUseIsForGood NoSilentReenroll
CHECK_DEADLOCK FALSE
