SPECIFICATION MCSpec
CONSTANTS
    s1 = s1
    l1 = l1
    l2 = l2
    c1 = c1
    p1 = p1
    k1 = k1
    None = None
    Servers = {s1}
    Loaders = {l1, l2}
    Calls = {c1}
    Probes = {p1}
    Closers = {k1}
    MaxClients = 2
    MaxPages = 2
    MaxIds = 5
INVARIANTS
    OwnAnswer
    PoolHandsOutUsable
    ProbeCleansUp
PROPERTIES
    CallsEnd
    ProbesEnd
CHECK_DEADLOCK FALSE
