SPECIFICATION Spec
CONSTANTS
    Runs = {r1, r2}
    VastEnabled = TRUE
    Plans <- AllPlans
    MaxRetries <- TwoRetries
    Threshold = 2
    Window = 1
    Cooldown = 1
    HalfOpen = 2
    MaxTime = 4
    r1 = r1
    r2 = r2
SYMMETRY Permuted

    
PROPERTIES
    ClosesAfterSuccesses
CHECK_DEADLOCK FALSE
