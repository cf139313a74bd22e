SPECIFICATION Spec
CONSTANTS
    Cpus = {0, 1, 2, 11}
    Memory = 1015
    Factor = 90
    MaxChanges = 4
INVARIANTS TypeOK StartedFully StartAborts StopAborts WithinFactor
CHECK_DEADLOCK FALSE
