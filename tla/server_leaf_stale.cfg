SPECIFICATION Spec
CONSTANTS
    Missing = Missing
    Torn = Torn
    None = None
    h1 = h1
    h2 = h2
    Hosts = {h1, h2}
    NameSets = {{h1}, {h1, h2}}
    MaxTime = 4
    MaxCAs = 2
    CaLife = 3
    TTLs = {0, 1}
    DefaultTTL = 2
INVARIANT ServerLeafIsNamed
CHECK_DEADLOCK FALSE
