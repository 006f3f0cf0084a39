\* Two changes of the registry; two permits, so both queues are used.
SPECIFICATION FairSpec
CONSTANTS
    t1 = t1
    t2 = t2
    t3 = t3
    a1 = a1
    a2 = a2
    s1 = s1
    Turn <- MCTurn
    Agent <- MCAgent
    InitialAgents <- MCInitialAgents
    Session <- MCSession
    SessionOf <- MCSessionOf
    Pin <- MCPin
    Routing <- MCRouting
    Unrouted = Unrouted
    NoAgent = NoAgent
    GlobalConcurrency = 2
    BusyPolicy = "queue"
    MaxRegistryChanges = 2
    MaxOutbound = 1
INVARIANTS
    TypeOK
    LaneExclusion
    OneTurnPerStableSession
    NoLostWaiter
    CounterExact
    ArrivalOrder
    HistoryContiguous
PROPERTIES
    EveryTurnEnds
CHECK_DEADLOCK FALSE
