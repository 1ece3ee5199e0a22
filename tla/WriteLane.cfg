SPECIFICATION LaneSpec
CONSTANTS
    w1 = w1
    w2 = w2
    w3 = w3
    A = A
    B = B
    Tails = {t1}
    Calls = {w1, w2, w3, d1}
    Nested = {d1}
    Atomic = {d1}
    PoolSize = 2
    Writes = {w1, w2, w3}
    Chores = {c1}
    VaultOf <- TwoVaults
    Concurrency = 1
    MaxWaiters = 2
INVARIANTS Accounted WithinLane OneCommitPerVault
PROPERTIES Served Compensated
CHECK_DEADLOCK FALSE
