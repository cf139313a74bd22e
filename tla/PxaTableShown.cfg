SPECIFICATION TableSpec
CONSTANTS
    p1 = p1
    Procs = {p1}
    Width = 32
    Regs <- Table
    Volatile <- NoHardware
    Calls <- Invocations
CONSTRAINT BeforeAnyStore
PROPERTY FrameBuffersShown
