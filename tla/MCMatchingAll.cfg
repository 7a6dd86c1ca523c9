SPECIFICATION Spec
CONSTANTS
    a = a
    b = b
    p1 = p1
    p2 = p2
    Members <- MCMembers
    Procs <- TwoProcs
    Ops <- AllOps
    GrantTTL = 1
    SeenRetention = 2
    MaxSpan = 1
    MaxClock = 0
    MayFail = TRUE
CHECK_DEADLOCK FALSE
SYMMETRY MCSymmetry
INVARIANTS MutualLikesMatch MatchIsEarned OneRowBothNotified
PROPERTIES CourtshipSpec ClosedStaysClosed
