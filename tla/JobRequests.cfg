SPECIFICATION FairSpec
CONSTANTS
    Jobs = {j1, j2}
    Charged = {j1}
    Workers = {w1}
    Cancels = {c1}
    MaxAttempts = 2
    MaxStalls = 1
    MaxCrashes = 0
    Faults = {}
    None = None
    j1 = j1
    j2 = j2
    w1 = w1
    c1 = c1
INVARIANTS
    CompletedIsDelivered
    
    
PROPERTIES
    ProcessingEnds
CHECK_DEADLOCK FALSE
