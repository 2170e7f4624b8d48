SPECIFICATION Spec
CONSTANTS
    Calls = {c1, c2, c3}
    Presets <- MCPresets
    InitialBalance = 10
    DailyFree = 20
    MaxDay = 2
    TopUps = {10}
    Free = Free
    c1 = c1
    c2 = c2
    c3 = c3
SYMMETRY Permuted
INVARIANTS
    QuotaKept
    QuotaAccounted
    
    OverdraftBounded
CHECK_DEADLOCK FALSE
