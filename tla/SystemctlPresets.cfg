SPECIFICATION Spec
CONSTANTS
    Bases = {"a", "b", "c", "d", "t"}
    Instances = {"1"}
    Images <- AllImages
    PresetNames = {1, 2}
    Requests <- PresetOnly
    MaxDepth = 6
    MaxCmds = 2
INVARIANTS
    PresetExact
    MachineIdMeansPopulated
    AcyclicAlsoTerminates
PROPERTIES
    Idempotent
CHECK_DEADLOCK FALSE
