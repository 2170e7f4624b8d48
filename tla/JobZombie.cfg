SPECIFICATION Spec
CONSTANTS
    Jobs = {j1}
    Charged = {j1}
    Workers = {w1,w2}
    Cancels = {c1,c2}
    MaxAttempts = 1
    MaxStalls = 1
    MaxCrashes = 1
    Faults = {"lostLock", "ambiguousAdd"}
    None = None
    j1 = j1
    w1 = w1
    w2 = w2
    c1 = c1
    c2 = c2
SYMMETRY PermutedWorkers
INVARIANTS
    TypeOK
    CancelRefundOnce
    CancelledIsRefunded
CHECK_DEADLOCK FALSE
