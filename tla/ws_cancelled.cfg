SPECIFICATION MCSpec
CONSTANTS
    Conns = {c1, c2}
    NoConn = NoConn
    Value = Value
    Exception = Exception
    Abandoned = Abandoned
    Terminates = FALSE
    Heartbeats = FALSE
    MaxCalls = 3
    MaxFailures = 0
PROPERTIES
    EstablishedByClaimant
CHECK_DEADLOCK FALSE
