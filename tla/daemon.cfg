SPECIFICATION FairSpec
CONSTANT
    CrashLimit = 3
INVARIANTS
    TypeOK
    LimitIsFinal
    NoBackendLeft
PROPERTIES
    EmptyOnlyBeforeRegistration
    CrashIsAnswered
    ReportIsHeard
    StopReturns
