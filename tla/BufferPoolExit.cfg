SPECIFICATION Spec
CONSTANTS
    AppThreads = {a1, a2}
    PoolThreads = {p1, p2}
    NumBuffers = 2
    MaxFills = 1
CHECK_DEADLOCK FALSE
INVARIANT NoStrandedBuffer
