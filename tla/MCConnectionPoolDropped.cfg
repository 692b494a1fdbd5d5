CONSTANTS
    t1 = t1
    t2 = t2
    r1 = r1
    r2 = r2
    Thread = {t1, t2}
    Request = {r1, r2}
    Cancellable = {t1, r1}
    Closer = closer
    MinConn = 1
    MaxConn = 1
    Casts <- HandoffCast
SPECIFICATION CastSpec
PROPERTY WaiterAnswered
