CONSTANTS
    b1 = b1
    b2 = b2
    f1 = f1
    s1 = s1
    s2 = s2
    Cmds = {b1, b2, f1}
    Sessions = {s1, s2}
    Keys = {k1, k2}
    Saves = {w1}
    Unload = Unload
    NoWork = NoWork
    Owner <- MCOwner
    Background <- MCBackground
    MaxSessionProcesses = 1
    MaxGlobalProcesses = 1
    MaxSessionForeground = 1
    MaxGlobalForeground = 1
    MaxRetainedProcesses = 1
SPECIFICATION FairSpec
INVARIANTS TypeOK Reachable QuotaHeld
PROPERTIES ReportedFinal ChildrenEnd CallsSettle
CHECK_DEADLOCK FALSE
