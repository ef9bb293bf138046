SPECIFICATION LogSpec
CONSTANTS
    None = None
    MaxTurns = 4
    MaxSteps = 1
    MaxBatch = 0
    ProtectLastN = 3
    Pictured = {}
    Breaks = {"fold"}
INVARIANT
    FoldedOrSent
CHECK_DEADLOCK FALSE
