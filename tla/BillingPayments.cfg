SPECIFICATION FairSpec
CONSTANTS
    Users = {u1}
    Orders = {o1, o2}
    Calls = {c1, c2}
    Requests = {q1}
    Owner <- OneOwner
    Provider <- BothGateways
    Days <- DayPackages
    Credits <- MCCredits
    Price = 2
    MaxTime = 4
    None = None
    u1 = u1
    o1 = o1
    o2 = o2
    c1 = c1
    c2 = c2
    q1 = q1
INVARIANTS
    CreditedOnce
    PaidIsCredited
    ProDaysPaidFor
PROPERTIES
    Settles
    PaymentsEnd
CHECK_DEADLOCK FALSE
