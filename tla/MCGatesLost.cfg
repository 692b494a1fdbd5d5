SPECIFICATION MCSpec
CONSTANTS
    Parts = {"breaker"}
    c1 = c1
    c2 = c2
    Caller = {c1, c2}
    Impatient = {}
    Strict = {}
    Entries <- PlainEntries
    Threshold = 1
    MaxAttempts = 1
    Thread = {t1, t2, t3}
    Fingerprint = {1, 2}
    Part = 2
    Burst = 2
    Rate = 1
    FpCap = 1
    MaxTime = 4
    Limits = {0, 2}
    MaxInt = 7
    Tables = {0, 3, 7}
PROPERTY AlwaysRecovers
CHECK_DEADLOCK FALSE
