\* Events and token wired, one crash.
SPECIFICATION FairSpec
CONSTANTS
    timed = timed
    untimed = untimed
    auto = auto
    Request <- MCRequest
    Timed <- MCTimed
    AutoApproved <- MCAutoApproved
    HasEvents = TRUE
    HasToken = TRUE
    MaxCrashes = 1
INVARIANTS
    TypeOK
    RunsOnlyApproved
    VerdictIsFinal
    EntryHasOwner
    WaiterIsListed
    SnapshotCurrent
PROPERTIES
    CrashIsAudited
    AnsweredCallsEnd
CHECK_DEADLOCK FALSE
