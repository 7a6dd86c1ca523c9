SPECIFICATION Spec
CONSTANTS
    a = a
    b = b
    p1 = p1
    p2 = p2
    Members <- MCMembers
    Procs <- OneProc
    Ops <- AllOps
    GrantTTL = 1
    SeenRetention = 0
    MaxSpan = 0
    MaxClock = 2
    MayFail = FALSE
CHECK_DEADLOCK FALSE
  
PROPERTY UnmatchTakesHold
