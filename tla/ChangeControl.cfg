CONSTANTS
    Persons = {ann, bob}
    Slots = {t1, t2}
    Nobody = nobody
    Purger = purger
    Diffs = {d1, d2}
    Tracked = {1, 2, 4}
    Rowless = TRUE
    MaxProposals = 2
    MaxCommands = 4
    MaxEdits = 1
SPECIFICATION Spec
SYMMETRY Symmetry
INVARIANTS OriginFollows OneOpinionOpen SomeoneGoesOn
PROPERTIES AppliedAsReviewed VerdictStands
CHECK_DEADLOCK FALSE
