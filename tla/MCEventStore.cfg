SPECIFICATION MCSpec
CONSTANTS
    p1 = p1
    p2 = p2
    v1 = v1
    v2 = v2
    page1 = page1
    page2 = page2
    note = note
    deletion = deletion
    alice = alice
    bob = bob
    profile = profile
    page = page
    none = none
    Events <- AllEvents
    Procs <- TwoProcs
    Author <- MCAuthor
    Stamp <- MCStamp
    Place <- MCPlace
    Nowhere = none
    Undefined <- Pages
    Deletes <- MCDeletes
    Large <- Notes
    Protected <- Profiles
    Chunk = 1
    MayFail = TRUE
    MaxRequests = 4
    genuine = genuine
    forged = forged
    spam = spam
    b1 = b1
    o1 = o1
    o2 = o2
    Messages <- MCMessages
    Id <- MCId
    Forged <- MCForged
    Denied <- MCDenied
    Bootstrap <- MCBootstrap
    Others <- MCOthers
    Slots = 1
CHECK_DEADLOCK FALSE
SYMMETRY MCSymmetry
INVARIANTS SavedIsKept  RefusedWasStored RowsAgree LatestOnly SlotsHold DroppedIsOnItsWay
