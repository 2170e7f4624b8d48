SPECIFICATION FairSpec
CONSTANTS
    Calls = {c1, c2}
    Ops = {"create", "update", "remove", "like", "unlike", "comment", "uncomment", "event", "crash", "cron"}
    Users = {u1}
    Liked = {u1}
    Commented = {m1}
    m1 = m1
    Viewers = {v1, v2}
    Topics = {}
    MaxWork = 3
    Cron = Cron
    None = None
    c1 = c1
    c2 = c2
    u1 = u1
    v1 = v1
    v2 = v2
INVARIANTS
    CountersMatchRows
    ViewsAccounted
PROPERTIES
    ItemCatchesUp
CHECK_DEADLOCK FALSE
