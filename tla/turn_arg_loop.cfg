\* Two unregistered calls and the tool list re-sent between them.
SPECIFICATION FairSpec
CONSTANTS
    Call = {u, v}
    Registered = {}
    YieldCall = {}
    MaxBatch = 1
    MaxToolIterations = 3
    MaxRetries = 0
    UnknownToolThreshold = 2
    ArgLoopThreshold = 2
    StopRecoveryAttempts = 1
    LengthRecoveryAttempts = 1
    MaxCompressionSelfHeals = 1
    ChainLength = 1
    InRegistry = {0}
    HasRegistry = FALSE
    FailoverCycle = FALSE
    CompressThenRetry = TRUE
    SoftIterationCap = FALSE
    ParallelTools = FALSE
    Reason = {"auth"}
INVARIANTS
    ArgLoopIsInARow
CHECK_DEADLOCK FALSE
