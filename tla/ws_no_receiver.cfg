SPECIFICATION MCSpec
CONSTANTS
    Conns = {c1, c2}
    NoConn = NoConn
    Value = Value
    Exception = Exception
    Abandoned = Abandoned
    Terminates = TRUE
    Heartbeats = TRUE
    MaxCalls = 3
    MaxFailures = 0
SYMMETRY ConnSymmetry
INVARIANTS
    ConnectedIsReceiving
CHECK_DEADLOCK FALSE
