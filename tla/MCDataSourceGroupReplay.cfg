CONSTANTS
    a = a
    b = b
    Request = {a, b}
    Write = {a, b}
    Calls <- MCCalls
    Primary = "primary"
    Replicas <- MCReplicas
    Failover <- MCFailover
    Shadow = "shadow"
    MaxQueue = 1
    Ttl = TRUE
    Interceptors = TRUE
    Fallback = TRUE
    Window = TRUE
    CacheOn = TRUE
    ReplicaOnly = TRUE
    MaxAttempts = 2
    RetryWrites = FALSE
SPECIFICATION Spec
INVARIANT
    KeptUntilRecovery
