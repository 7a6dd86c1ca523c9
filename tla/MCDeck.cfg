SPECIFICATION DeckSpec
CONSTANTS
    c1 = c1
    Calls <- One
    Candidates <- Both
    Cell <- MCCell
    Rank <- MCCell
    Filters <- MCFilters
    Page = 2
    GrantLife = 1
    SeenLife = 1
    CallSpan = 0
    Movers = {}
    LastTime = 1
    MaxCalls = 1
CHECK_DEADLOCK FALSE
INVARIANT EndIsEnd
