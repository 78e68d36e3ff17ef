CONSTANTS
    x = x
    y = y
    p = p
    q = q
    r = r
    none = none
    Var <- MCVar
    NoVar = none
    Param = {x}
    Text = {p, q, r}
    Rendering <- MCRendering
    Sources <- MCSources
SPECIFICATION OptSpec
CHECK_DEADLOCK FALSE
INVARIANTS
    OptTypeOK
    EffectsSerialized
    ProducersRunEarlier
    NothingObservableDropped
    NoUnobservedRequest
    DedupKeepsInputs
    NoDuplicateRequest
    MutationsSurvive
PROPERTIES
    OptTerminates
