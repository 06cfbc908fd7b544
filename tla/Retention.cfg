SPECIFICATION FairSpec
CONSTANTS
    Durables = {d1, d2}
    Hooked = {d2}
    Keep = 2
    MaxReplays = 2
INVARIANTS
    RanOnce
    LetterKeepsRow
PROPERTIES
    Drains
CHECK_DEADLOCK FALSE
