\* Every error budget of the turn at once: a three-model chain that wraps and
\* holds an unregistered entry, retries, silent retries, self-heals, recoveries.
SPECIFICATION FairSpec
CONSTANTS
    Call = {a}
    Registered = {a}
    YieldCall = {}
    MaxBatch = 1
    MaxToolIterations = 3
    MaxRetries = 1
    UnknownToolThreshold = 1
    ArgLoopThreshold = 2
    StopRecoveryAttempts = 1
    LengthRecoveryAttempts = 1
    MaxCompressionSelfHeals = 1
    ChainLength = 3
    InRegistry = {0, 2}
    HasRegistry = TRUE
    FailoverCycle = TRUE
    CompressThenRetry = TRUE
    SoftIterationCap = FALSE
    ParallelTools = FALSE
    Reason = {"transient", "context_overflow", "rate_limit", "auth"}
INVARIANTS
    TypeOK
    AttemptBudget
PROPERTIES
    Termination
CHECK_DEADLOCK FALSE
