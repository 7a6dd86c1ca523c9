SPECIFICATION Spec
CONSTANTS
    d1 = d1
    d2 = d2
    s1 = s1
    s2 = s2
    p1 = p1
    p2 = p2
    DOs <- TwoDOs
    Colo <- OneColo
    Sessions <- TwoSessions
    Home <- Apart
    Procs <- TwoProcs
    Ops <- AllOps
    Indexed = TRUE
    OneAtATime = TRUE
    Mishaps <- ManyMishaps
    EdgeTTL = 1
    LocalTTL = 1
    Lag = 1
    MaxSpan = 0
    MaxClock = 0
    MaxVersion = 2
CHECK_DEADLOCK FALSE
SYMMETRY MCSymmetry
 
PROPERTY ReadYourWrites
