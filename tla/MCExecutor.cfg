SPECIFICATION MCSpec
CONSTANTS
    p1 = p1
    p2 = p2
    f1 = f1
    d1 = d1
    w1 = w1
    w2 = w2
    Plain = {p1, p2}
    Follow = {f1}
    Timed = {d1}
    Worker = {w1, w2}
    Limit = 1
    Horizon = 1
    Pieces <- MCPieces
    MaxPieces = 4
INVARIANTS
    NamedBindsPositional
    PageClauseBinds
    MaskAgrees
PROPERTIES
    TaskRuns
    ShutdownReturns
    ImplementsService
CHECK_DEADLOCK FALSE
