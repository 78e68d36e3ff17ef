CONSTANTS
    x = x
    y = y
    z = z
    p = p
    q = q
    r = r
    w = w
    none = none
    Var <- MCVar
    NoVar = none
    Param = {x}
    Text = {p, q, r, w}
    Rendering <- MCRendering
    Sources <- MCSources
SPECIFICATION Spec
CHECK_DEADLOCK FALSE
INVARIANTS
    EffectGate
    DataGate
    MutationsMatch
PROPERTIES
    ImplementsStraight
    BodyEnds
