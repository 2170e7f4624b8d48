SPECIFICATION Spec
CONSTANTS
    Jobs = {j1}
    Charged = {j1}
    Workers = {w1}
    Cancels = {c1}
    MaxAttempts = 3
    MaxStalls = 1
    MaxCrashes = 0
    Faults = {}
    None = None
    j1 = j1
    w1 = w1
    c1 = c1
INVARIANTS
    CancelledIsNotCompleted
CHECK_DEADLOCK FALSE
