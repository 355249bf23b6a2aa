SPECIFICATION MCBoundedSpec
CONSTANTS
    Conns = {c1, c2, c3}
    NoConn = NoConn
    Value = Value
    Exception = Exception
    Abandoned = Abandoned
    Terminates = FALSE
    Heartbeats = TRUE
    MaxCalls = 2
    MaxFailures = 1
SYMMETRY ConnSymmetry
INVARIANTS
    ReasonExplainsState
    RetryOnlyAfterLoss
    RefusalHasReason
    PendingResultIsServed
    ConnectedHoldsItsThreads
    NoHeartbeatLeaked
PROPERTIES
    ImplementsLifecycle
CHECK_DEADLOCK FALSE
