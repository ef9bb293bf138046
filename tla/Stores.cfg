SPECIFICATION StoresSpec
CONSTANTS
    None = None
    Junk = Junk
    NoText = NoText
    k1 = k1
    m1 = m1
    n1 = n1
    p1 = p1
    q1 = q1
    x = x
    xf = xf
    xs = xs
    y = y
    z = z
    j1 = j1
    j2 = j2
INVARIANT
    StoresHold
PROPERTIES
    StoresStep
    StoresSettle
CHECK_DEADLOCK FALSE
