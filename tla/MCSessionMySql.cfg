SPECIFICATION Spec
CONSTANTS
    Drivers <- OnlyMySql
    Ops <- QueryOnly
    Keys <- Texts
    CacheLimit = 1
    MaxWrites = 1
    BatchRows = 2
    MaxOps = 2
    MaxLeases = 1
INVARIANT FailureRolledBack
CHECK_DEADLOCK FALSE
