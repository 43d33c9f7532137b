SPECIFICATION Spec
CONSTANTS
    None = None
    p1 = p1
    p2 = p2
    t1 = t1
    t2 = t2
    k1 = k1
    k2 = k2
    k3 = k3
    k4 = k4
    k5 = k5
    k6 = k6
    Procs = {p1, p2}
    First = p1
    Threads = {t1, t2}
    Keys = {k1}
    Ttls = {None}
    Kinds = {"get", "set"}
    MaxCacheEntries = 1
    EvictEvery = 1
    MaxOps = 6
    Weight <- Weights
    MaxFailures = 0
    MaxTime = 0
PROPERTY EveryoneEnters
CHECK_DEADLOCK FALSE
