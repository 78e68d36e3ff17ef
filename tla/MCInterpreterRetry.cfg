CONSTANTS
    f = f
    Programs <- RetryPrograms
    MaxRetries = 2
    MaxItems = 2
SPECIFICATION Spec
CHECK_DEADLOCK FALSE
INVARIANTS
    RequestsKeptAlways
