SPECIFICATION Spec
CONSTANTS
    MaxTurns = 2
    KeepTail = 2
    MaxAutoFires = 1
    MaxLength = 4
    MaxCrashes = 1
    MaxClears = 0
INVARIANT
    RequestAcceptable
CHECK_DEADLOCK FALSE
