SPECIFICATION MCSpec
CONSTANTS
    None = None
    MaxQueue = 2
    MaxRequests = 1
    MaxLosses = 2
    MaxMessages = 2
    MaxEvents = 3
INVARIANTS
    TypeOK
    LoginNotForgotten
    ResentOncePerRepair
    HiddenAtWorkMeansLoggedIn
PROPERTIES
    LoginReachesBackend
    ErrorClosesWindow
CHECK_DEADLOCK FALSE
