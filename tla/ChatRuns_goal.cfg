SPECIFICATION Spec
CONSTANTS
    Slots = {r1, r2}
    NoRun = NoRun
    MaxQueue = 0
    MaxSteers = 1
    GoalMaxTurns = 2
    GoalMaxParse = 2
    GoalMaxTransport = 2
INVARIANTS
    GoalBackstop
PROPERTIES
    InterruptedRunSilent
SYMMETRY SlotSymmetry
