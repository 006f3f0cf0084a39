SPECIFICATION Spec
CONSTANTS
    MaxTurns = 2
    MaxCancels = 1
    MaxSpawns = 2
    MaxTools = 1
    MaxReplies = 1
    MaxFaults = 0
INVARIANT CancelOnce
CHECK_DEADLOCK FALSE
