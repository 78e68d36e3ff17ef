CONSTANTS
    x = x
    y = y
    p = p
    q = q
    r = r
    none = none
    Var <- MCVar
    NoVar = none
    Param = {x}
    Text = {p, q, r}
    Rendering <- MCRendering
    Sources <- Alike
SPECIFICATION OptSpec
CHECK_DEADLOCK FALSE
INVARIANTS
    ReusedIsIdentical
