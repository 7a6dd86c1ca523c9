SPECIFICATION Spec
CONSTANTS
    a = a
    b = b
    p1 = p1
    p2 = p2
    Members <- MCMembers
    Procs <- TwoProcs
    Ops <- BlockOps
    GrantTTL = 1
    SeenRetention = 2
    MaxSpan = 1
    MaxClock = 0
    MayFail = FALSE
CHECK_DEADLOCK FALSE
INVARIANT BlockEndsTheMatch
