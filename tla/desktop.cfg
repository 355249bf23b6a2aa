SPECIFICATION MCSpec
CONSTANTS
    MaxElements = 4
    MaxDanmakuInGui = 2
    Client = {"none", "user"}
INVARIANTS
    TypeOK
    DocumentShowsState
    PlaysTransition
PROPERTIES
    ActivityEndsWithLive
    WindowsCloseWhenIdle
    QuitEnds
CHECK_DEADLOCK FALSE
