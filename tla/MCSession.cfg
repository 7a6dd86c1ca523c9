SPECIFICATION MCSpec
CONSTANTS
    c1 = c1
    c2 = c2
    p1 = p1
    p2 = p2
    k1 = k1
    k2 = k2
    s1 = s1
    s2 = s2
    u1 = u1
    u2 = u2
    Conns <- MCConns
    Procs <- MCProcs
    Keys <- MCKeys
    Subs <- MCSubs
    MaxChallenges = 4
    Capacity = 3
    Interval = 2
    MaxNow = 10
    MaxTried = 8
    MaxBuckets = 2
    Flights <- MCProcs
    Created = 1
    MaxAge = 2
    MaxFuture = 1
    Retention = 4
    Lagging = FALSE
    StoreFails = TRUE
    CopySpan = 1
    LastTick = 9
    MaxRuns = 3
    Sizes <- MCSizes
    SpreadLimit = 100000
    Workers <- MCProcs
    Users <- MCUsers
    Hashes = {1, 2, 3}
    Signatures <- MCSignatures
    ListLimit = 2
CHECK_DEADLOCK FALSE
SYMMETRY MCSymmetry
INVARIANTS Remembered  AlarmIsSet RateBound  WholeOrLostAtTheEdge OnlyUploadersDelete OwnListed
