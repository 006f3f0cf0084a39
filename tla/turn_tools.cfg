\* Tool rounds, recoveries and aborts: parallel batches over a tool that works,
\* fails or calls itself unregistered, and a yielding one; one model, no retries.
SPECIFICATION FairSpec
CONSTANTS
    Call = {a, y}
    Registered = {a, y}
    YieldCall = {y}
    MaxBatch = 2
    MaxToolIterations = 2
    MaxRetries = 0
    UnknownToolThreshold = 1
    ArgLoopThreshold = 3
    StopRecoveryAttempts = 1
    LengthRecoveryAttempts = 1
    MaxCompressionSelfHeals = 1
    ChainLength = 1
    InRegistry = {0}
    HasRegistry = FALSE
    FailoverCycle = FALSE
    CompressThenRetry = TRUE
    SoftIterationCap = TRUE
    ParallelTools = TRUE
    Reason = {"auth", "context_overflow"}
INVARIANTS
    Lockstep
    NoDanglingCalls
    NoUndetectedLoop
PROPERTIES
    AbortStopsTools
    ImplementsAgentTurn
CHECK_DEADLOCK FALSE
