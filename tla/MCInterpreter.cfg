CONSTANTS
    f = f
    Programs <- MCPrograms
    MaxRetries = 2
    MaxItems = 2
SPECIFICATION Spec
CHECK_DEADLOCK FALSE
INVARIANTS
    RequestsKept
    ParallelKept
    HopsKept
    LatencyKept
    ReturnIsLast
    LeftForAReason
PROPERTIES
    RunEnds
