SPECIFICATION MCSpec
CONSTANTS
    q1 = q1
    q2 = q2
    dm = dm
    Calls <- MCCalls
    Role <- MCRole
    Advertised <- MCAdvertised
    Secret <- MCSecret
    KeysFit = TRUE
    Garbled = {}
    Screened <- MCScreened
    Faulty = {}
    Bulky = {}
    Letters <- MCLetters
    Events <- FourEvents
    Requests <- MCRequests
    TagNames <- Tags3
    DirectTags <- Direct
    Weight <- Weights
    MaxIds = 4
    MaxLimit = 2
    ChunkSize = 2
    MaxComplexity = 5
    GlobalMax = 3
    MaxRows = 2
    old = old
    new = new
    Visits <- MCVisits
    OldEvents <- MCOld
    NewEvents <- MCNew
    EarlyNames <- Early
    LateNames <- Late
    TagsOf <- MCTagsOf
    Wordy <- MCNew
    RowsAtOnce = 2
INVARIANTS NothingMissed PagesComplete ToldOrLost MailWasWelcome SixIsComplete
