CONSTANTS
    Documents = {"monitor", "box"}
    MaxContext = 2
    MaxId = 2
    MaxSheets = 2
    MaxObjects = 3
    OwnVersions = {1, 2}
SPECIFICATION MCSpec
INVARIANTS
    TypeOK
    LayeredUnlessAliased
    
PROPERTIES
    CalledInTurn
CHECK_DEADLOCK FALSE
