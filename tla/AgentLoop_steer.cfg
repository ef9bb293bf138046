SPECIFICATION Spec
CONSTANTS
    Tools <- MCTools
    Ops <- SteerOps
    UnknownOp = UnknownOp
    MaxIterations = 2
    MaxBatch = 2
    MaxSteers = 2
    UseMoa = FALSE
    NumFallbacks = 1
INVARIANTS
    WireAnswered
    SteerFIFO
    NoOrphanOutput
    TurnConnection
PROPERTIES
    InterruptEndsRun
