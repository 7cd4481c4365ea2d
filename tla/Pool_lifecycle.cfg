CONSTANTS
    Task = {t1, t2}
    Member = {m1, m2, m3, m4}
    Closer = {k1}
    Minimum = 1
    Maximum = 2
    AcquireTimeout = TRUE
    CallsReject = TRUE
    MaxDestroy = 1
    None = None

SPECIFICATION PoolSpec
INVARIANTS
    Exclusive
    NoLeakedClient
PROPERTIES
    TasksSettle
    CloseSettles

\* a pool that is closed may stay closed
CHECK_DEADLOCK FALSE
