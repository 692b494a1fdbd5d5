CONSTANTS
    Read = {q}
    Write = {w}
    Stoppable = {q}
    NativeOnly = {}
    Conn = {c}
    Attempts = 2
    RetryWrites = FALSE
    Timeout = TRUE
    None = None
SPECIFICATION FairSpec
INVARIANTS CompletesOnce BorrowedWhileRunning CancelsOwnConnection
PROPERTIES StoppedReuse Answered ComesBack
CHECK_DEADLOCK FALSE
