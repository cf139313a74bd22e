SPECIFICATION Spec
CONSTANTS
    p1 = p1
    p2 = p2
    Procs <- Invokers
    Width = 3
    Regs <- Table
    Volatile <- HardwareBits
    Calls <- Invocations
INVARIANTS
    TypeOK
PROPERTIES
    StoreExact
    SpareBitsStand
    FieldsOfHeading
SYMMETRY Swapped
