SPECIFICATION FairSpec
CONSTANTS
    NPools = 2
    PoolSize = 1
    Real = {r1, r2, r3}
    Conns = {c1, c2}
    MaxStmts = 2
    Careful = TRUE
    Nobody = Nobody
INVARIANTS PoolSound RefsBalance OwnResult
PROPERTIES ErrorReported TeardownEnds
CHECK_DEADLOCK FALSE
