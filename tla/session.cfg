SPECIFICATION Spec
CONSTANTS
    MaxTurns = 3
    KeepTail = 2
    MaxAutoFires = 1
    MaxLength = 4
    MaxCrashes = 1
    MaxClears = 1
INVARIANTS
    RequestKeepsRounds
    DeliveredIsRecorded
    NoAmnesia
CHECK_DEADLOCK FALSE
