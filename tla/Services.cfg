SPECIFICATION ServicesSpec
CONSTANTS
    None = None
    NoText = NoText
    Custom = Custom
    x = x
    y = y
    z = z
    v1 = v1
    v2 = v2
    f = f
    g = g
INVARIANT
    ServicesHold
PROPERTY
    ServicesSettle
CHECK_DEADLOCK FALSE
