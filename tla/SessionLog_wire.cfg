SPECIFICATION LogSpec
CONSTANTS
    None = None
    MaxTurns = 1
    MaxSteps = 2
    MaxBatch = 2
    ProtectLastN = 1
    Pictured = {}
    Breaks = {}
INVARIANT
    CompleteWireStays
CHECK_DEADLOCK FALSE
