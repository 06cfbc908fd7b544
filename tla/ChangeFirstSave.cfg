CONSTANTS
    Persons = {ann, bob}
    Slots = {t1, t2}
    Nobody = nobody
    Purger = purger
    Diffs = {d1, d2}
    Tracked = {1, 3}
    Rowless = TRUE
    MaxProposals = 2
    MaxCommands = 3
    MaxEdits = 1
SPECIFICATION Spec
SYMMETRY Symmetry
PROPERTY FirstSaveAsReviewed
CHECK_DEADLOCK FALSE
