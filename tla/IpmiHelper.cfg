SPECIFICATION Spec
CONSTANTS
    Configs <- AllConfigs
    Commands <- AllCommands
    DevTimeout = 1
INVARIANTS
    TypeOK
    StartedFully
    StopAllClean
    LockAgrees
    NodeReported
PROPERTIES
    StopLeavesFeatures
