SPECIFICATION Spec
CONSTANTS
    Procs = {p1, p2}
    Reqs = {r1, r2}
    Faults = TRUE
    Kinds = {"host", "group"}
    TTL = 1
    Timeout = 1
    MaxVersion = 2
    MaxGen = 1
    MaxClock = 2
SYMMETRY ReqSymmetry
INVARIANTS
    TypeOK
    ClosedNotBelieved
    HostFresh
PROPERTIES
    StaleForOneLifetime
CHECK_DEADLOCK FALSE
