SPECIFICATION FairSpec
CONSTANTS
    Slots = {r1, r2}
    NoRun = NoRun
    MaxQueue = 2
    MaxSteers = 1
    GoalMaxTurns = 0
    GoalMaxParse = 2
    GoalMaxTransport = 2
INVARIANTS
    TypeOK
    StopReaches
PROPERTIES
    OwnershipKept
    QueueDrains
