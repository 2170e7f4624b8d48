SPECIFICATION FairSpec
CONSTANTS
    Jobs = {j1}
    Charged = {j1}
    Workers = {w1}
    Cancels = {c1}
    MaxAttempts = 2
    MaxStalls = 1
    MaxCrashes = 2
    Faults = {"apiCrash", "workerCrash", "dbError"}
    None = None
    j1 = j1
    w1 = w1
    c1 = c1
INVARIANTS
    FailRefundOnce
    CancelledIsRefunded
    
PROPERTIES
    QueueDrains
    CompletedIsNotReworked
CHECK_DEADLOCK FALSE
