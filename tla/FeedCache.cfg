SPECIFICATION Spec
CONSTANTS
    Calls = {c1}
    PublicTasks = {p1, p2}
    ForYouTasks = {f1}
    FreshTtl <- ShortFresh
    StaleTtl <- ShortStale
    LockTtl = 1
    MaxProduce = 1
    Faults = {"set", "lock", "produce"}
    c1 = c1
    p1 = p1
    p2 = p2
    f1 = f1
SYMMETRY Permuted
INVARIANTS
    StaleBounded
    OverlapOnlyWhenSlow
PROPERTIES
    Renewed
