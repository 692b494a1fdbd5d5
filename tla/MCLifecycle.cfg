CONSTANTS
    c1 = c1
    c2 = c2
    r1 = r1
    NoName = NoName
    Caller = {c1, c2}
    Request = {r1}
    Leaf = {"a", "b"}
    Group = {"g", "h"}
    Configs <- MCConfigs
    Additions <- MCAdditions
    MaxCalls = 3
    MaxPools = 4
SYMMETRY CallerSymmetry
SPECIFICATION Spec
INVARIANTS
    RefsServed NothingLeftRunning SampledAlive DrainsFirst NoCircularWait
CHECK_DEADLOCK FALSE
