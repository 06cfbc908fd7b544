SPECIFICATION FairSpec
CONSTANTS
    Events = {e1}
    Senders = {s1, s2}
    Nobody = Nobody
    MaxAttempts = 2
    Window = 2
    Ladder <- MCLadder
    Lease = 0
    Batch = 2
    MaxReplays = 1
    MaxFaults = 1
INVARIANTS
    TypeOK
    OneLadder
PROPERTIES
    EndedStays
    FaultTakesAWindow
    EveryAttemptEnds
CHECK_DEADLOCK FALSE
