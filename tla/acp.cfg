SPECIFICATION Spec
CONSTANTS
    MaxTurns = 2
    MaxCancels = 2
    MaxSpawns = 2
    MaxTools = 2
    MaxReplies = 2
    MaxFaults = 1
INVARIANTS
    TurnIsFaithful
PROPERTIES
    CancelNotLost
    TurnsEnd
CHECK_DEADLOCK FALSE
