\* The only agent is deleted and another one created while calls are queued.
SPECIFICATION Spec
CONSTANTS
    t1 = t1
    t2 = t2
    t3 = t3
    a1 = a1
    a2 = a2
    s1 = s1
    Turn <- MCTurn
    Agent <- MCAgent
    InitialAgents <- MCInitialAgents
    Session <- MCSession
    SessionOf <- MCSessionOf
    Pin <- NoPin
    Routing <- NoPin
    Unrouted = Unrouted
    NoAgent = NoAgent
    GlobalConcurrency = 0
    BusyPolicy = "queue"
    MaxRegistryChanges = 2
    MaxOutbound = 0
INVARIANTS
    OneTurnPerSession
CHECK_DEADLOCK FALSE
