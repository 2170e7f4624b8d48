SPECIFICATION AccountSpec
CONSTANTS
    Logins = {l1, l2}
    Refreshes = {q1}
    Forgots = {f1, f2}
    Resets = {r1, r2}
    Changes = {g1}
    Links = {k1, k2}
    Passwords = {p1, p2}
    Identities = {own, other, taken}
    Mail <- MCMail
    Elsewhere = {taken}
    MaxCalls = 4
    None = None
    own = own
    other = other
    taken = taken
    p1 = p1
    p2 = p2
    l1 = l1
    l2 = l2
    q1 = q1
    f1 = f1
    f2 = f2
    r1 = r1
    r2 = r2
    g1 = g1
    k1 = k1
    k2 = k2
SYMMETRY Permuted
INVARIANTS
    OnlyLinkedGoogleOpens
PROPERTIES
    CreatedOnce
    GoogleIsFinal
    
    RevokedStaysRevoked
CHECK_DEADLOCK FALSE
