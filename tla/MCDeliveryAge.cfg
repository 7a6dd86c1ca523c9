SPECIFICATION Spec
CONSTANTS
    d1 = d1
    d2 = d2
    s1 = s1
    s2 = s2
    p1 = p1
    p2 = p2
    DOs <- OneDO
    Colo <- OneColo
    Sessions <- OneSession
    Home <- AtD1
    Procs <- TwoProcs
    Ops <- ReadOps
    Indexed = FALSE
    OneAtATime = FALSE
    Mishaps <- PutFails
    EdgeTTL = 1
    LocalTTL = 1
    Lag = 0
    MaxSpan = 1
    MaxClock = 4
    MaxVersion = 2
CHECK_DEADLOCK FALSE
SYMMETRY MCSymmetry
PROPERTY BoundedStaleness
