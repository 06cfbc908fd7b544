SPECIFICATION Spec
CONSTANTS
    Removers = {m1, m2}
    Records = {r1}
    Keeper = Keeper
    Ticks = {t1, t2}
    Crews = {{m1, r1, Keeper, t1}}
    None = None
INVARIANT ErasedWhole
