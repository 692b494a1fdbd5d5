CONSTANTS
    c1 = c1
    c2 = c2
    r1 = r1
    NoName = NoName
    Caller = {c1}
    Request = {r1}
    Leaf = {"a", "b"}
    Group = {"g", "h"}
    Configs <- MCConfigs
    Additions <- MCAdditions
    MaxCalls = 2
    MaxPools = 2
SPECIFICATION Spec
INVARIANT
    AcceptedDrained
CHECK_DEADLOCK FALSE
