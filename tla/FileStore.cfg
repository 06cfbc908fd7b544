SPECIFICATION FairSpec
CONSTANTS
    Removers = {m1, m2}
    Records = {r1}
    Keeper = Keeper
    Ticks = {t1, t2}
    Crews = {{m1, m2, r1, Keeper}, {m1, r1, Keeper, t1}, {m1, t1, t2}}
    None = None
INVARIANTS
    RowsNameBytes
    ErasedUnlessOvertaken
PROPERTIES
    RemovalAllowed
    OrphansGo
