SPECIFICATION WrapSpec
CONSTANTS
    Sizes <- ShortSizes
    SpreadLimit = 100000
CHECK_DEADLOCK FALSE
INVARIANT ShortIsPadded
