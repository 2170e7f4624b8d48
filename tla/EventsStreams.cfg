SPECIFICATION FairStreamSpec
CONSTANTS
    Connections = {k1, k2, k3}
    Writers = {worker}
    MaxVersion = 1
    None = None
    k1 = k1
    k2 = k2
    k3 = k3
    worker = worker
INVARIANTS
    NotDeaf
PROPERTIES
    ServedGetEvents
CHECK_DEADLOCK FALSE
