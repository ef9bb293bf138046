SPECIFICATION FairSpec
CONSTANTS
    Tools <- MCTools
    Ops <- ApprovalOps
    UnknownOp = UnknownOp
    MaxIterations = 1
    MaxBatch = 2
    MaxSteers = 0
    UseMoa = TRUE
    NumFallbacks = 1
INVARIANTS
    TypeOK
    NoUnapprovedRun
PROPERTIES
    NoRunAfterInterrupt
    Terminates
