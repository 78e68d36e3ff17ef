CONSTANTS
    c1 = c1
    c2 = c2
    c3 = c3
    k1 = k1
    Caller = {c1, c2, c3}
    Key = {k1}
    Workload <- MCWorkload
    Ttl = 1
    Timeout = 1
    Retries = 1
    MaxTime = 2
SPECIFICATION HttpSpec
CHECK_DEADLOCK FALSE
INVARIANTS
    HttpTypeOK
    PlainMutationOnce
    RetriesBounded
    HitIsFresh
    CountersAddUp
PROPERTIES
    CallsReturn
