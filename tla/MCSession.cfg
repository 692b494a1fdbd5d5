SPECIFICATION Spec
CONSTANTS
    Drivers <- All
    Ops <- AllOps
    Keys <- Texts
    CacheLimit = 1
    MaxWrites = 2
    BatchRows = 2
    MaxOps = 2
    MaxLeases = 1
INVARIANTS CleanPool BatchAtomic TransactionOutcome PreparedConsistent
CHECK_DEADLOCK FALSE
