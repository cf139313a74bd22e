SPECIFICATION Spec
CONSTANTS
    Configs <- AllConfigs
    Commands <- AllCommands
    DevTimeout = 1
INVARIANTS
    InterfaceReported
