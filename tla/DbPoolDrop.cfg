SPECIFICATION Spec
CONSTANTS
    NPools = 2
    PoolSize = 1
    Real = {r1, r2, r3}
    Conns = {c1, c2}
    MaxStmts = 1
    Careful = FALSE
    Nobody = Nobody
INVARIANT FreeIsIdle
CHECK_DEADLOCK FALSE
