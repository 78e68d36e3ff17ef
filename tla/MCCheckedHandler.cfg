SPECIFICATION CheckedSpec
CONSTANTS
    Programs <- FlowRoutes
    ErrorNames <- MCErrorNames
    MaxAttempts = 5
    Depth = 2
INVARIANTS
    BareHandlersAnswer
CHECK_DEADLOCK FALSE
