SPECIFICATION MCSpec
CONSTANTS
    Conns = {c1, c2}
    NoConn = NoConn
    Value = Value
    Exception = Exception
    Abandoned = Abandoned
    Terminates = TRUE
    Heartbeats = TRUE
    MaxCalls = 2
    MaxFailures = 0
SYMMETRY ConnSymmetry
INVARIANTS
    ReasonExplainsState
    DisconnectStopsAttempts
PROPERTIES
    ImplementsLifecycle
CHECK_DEADLOCK FALSE
