SPECIFICATION Spec
CONSTANTS
    Procs = {a, b}
    Profiles = {d, q}
    Default = d
    None = none
    MaxOps = 4
    MaxCrashes = 1
    MaxReceipts = 2
INVARIANTS
    TypeOK
    TerminalConsented
    BundlesWhole
    StoresFollow
PROPERTIES
    SecretKept
CHECK_DEADLOCK FALSE
