SPECIFICATION MCSpec
CONSTANTS
    Parts = {"breaker", "rate", "cursor", "page"}
    c1 = c1
    c2 = c2
    Caller = {c1, c2}
    Impatient = {c1}
    Strict = {c1}
    Entries <- MCEntries
    Threshold = 2
    MaxAttempts = 2
    Thread = {t1, t2, t3}
    Fingerprint = {1, 2}
    Part = 2
    Burst = 2
    Rate = 1
    FpCap = 1
    MaxTime = 4
    Limits = {0, 2}
    MaxInt = 7
    Tables = {0, 3, 7}
INVARIANTS
    ProbeOwned
    RateBound
    CursorBudget
    PageDelivered
PROPERTIES
    Recovers
    BudgetsNeverOpen
CHECK_DEADLOCK FALSE
