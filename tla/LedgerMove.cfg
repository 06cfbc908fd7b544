SPECIFICATION FairSpec
CONSTANTS
    b1 = b1
    b2 = b2
    s1 = s1
    s2 = s2
    BareWorkers = {b1, b2}
    ScopedWorkers = {s1}
    None = None
    Defers = TRUE
INVARIANT TypeOK
INVARIANT HandledOnceUnderBothNames
INVARIANT DebtNotMoved
PROPERTY MarkKept
PROPERTY NothingLeftBare
PROPERTY BootOpensUnlessOwed
