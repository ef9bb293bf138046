SPECIFICATION Spec
CONSTANTS
    Views = {v1}
    Sessions = {s1, s2}
    Entries = {e1, e2}
    NoEntry = NoEntry
    Idle = Idle
    MaxPerSession = 1
    MaxPending = 2
INVARIANTS
    TypeOK
    SentOnce
    SentOffDisk
PROPERTIES
    LeavesByName
    KeepsLedger
SYMMETRY MCSymmetry
