SPECIFICATION MCSpec
CONSTANTS
    p1 = p1
    p2 = p2
    Procs <- TwoProcs
    Ops <- AllOps
    MayFail = TRUE
    Calls <- TwoProcs
    Candidates <- Three
    Cell <- MCCell
    Rank <- MCRank
    Filters <- MCFilters
    Page = 2
    GrantLife = 1
    SeenLife = 1
    CallSpan = 0
    Movers <- Two
    LastTime = 3
    MaxCalls = 3
    Callers <- TwoProcs
    Services <- TwoServices
    OneDeck = TRUE
    MaxLikes = 2
    MaxServed = 2
    Batch = 2
    Day = 3
    ServiceSpan = 1
    LastSecond = 6
    MaxServices = 6
CHECK_DEADLOCK FALSE
SYMMETRY MCSymmetry
INVARIANTS ListedIsEntitled IndexAgrees LikeCap    
PROPERTY TombstoneHolds
