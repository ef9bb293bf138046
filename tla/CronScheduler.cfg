SPECIFICATION Spec
CONSTANTS
    Ids = {a}
    Tickers = {t}
    Others = {o}
    Hidden = h
    Scopes = {s, z, h}
    FirstScopes = {s}
    Sees <- MCSees
    None = none
    Period = 1
    UsedKinds <- MCKinds
    MaxTime = 3
    MaxGen = 1
    MaxOps = 1
    MaxRuns = 1
INVARIANTS
    TypeOK
    GuardExact
    ChainScoped
PROPERTIES
    DueRuns
CHECK_DEADLOCK FALSE
