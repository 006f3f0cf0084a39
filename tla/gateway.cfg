\* Two jobs, so that the save of one can carry the other along; two runs, of which
\* prune() keeps one when they are of the same job.
SPECIFICATION Spec
CONSTANTS
    Jobs = {j1, j2}
    Schedules = {hourly, daily}
    Callers = {t1}
    Clients = {c1}
    None = None
    Never = Never
    Unsure = Unsure
    Timer = Timer
    MaxPerJob = 1
    MaxRuns = 2
    MaxEdits = 2
    MaxFaults = 1
    PerConnection = 1
    MaxBoots = 2
INVARIANTS
    AckedIsInForce
    RunLogTells
    AnswersArrive
PROPERTIES
    NoFireOnceStoodDown
    ShutdownEnds
CHECK_DEADLOCK FALSE
