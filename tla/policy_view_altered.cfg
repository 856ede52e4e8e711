SPECIFICATION Spec
CONSTANTS
    node = node
    web = web
    spaced = spaced
    addr = addr
    empty = empty
    role = role
    arole = arole
    other = other
    pp_role = pp_role
    dotted_role = dotted_role
    pp_auth_role = pp_auth_role
    dotted_other = dotted_other
    bogus = bogus
    v1 = v1
    raw = raw
    None = None
    Text = {node, web, spaced, addr, empty}
    Trim <- MCTrim
    IPText = {addr}
    Blank = empty
    Certname = node
    Host = node
    Keys = {pp_role, dotted_role, pp_auth_role, dotted_other, bogus}
    OIDs = {role, arole, other}
    Puppet = {role, arole}
    Auth = {arole}
    OidOf <- MCOidOf
    NameFor <- MCNameFor
    Vals = {v1, raw}
    Json <- MCJson
    FlagSets <- MCFlagSets
    OperatorAlts = {{}, {spaced}, {addr, empty}}
INVARIANT PolicyViewIsExact
CHECK_DEADLOCK FALSE
