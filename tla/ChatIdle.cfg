SPECIFICATION Spec
CONSTANTS
    Modes <- FreeOnly
    LowPower = FALSE
    MaxEvents = 3
INVARIANT MicTimesOut
CHECK_DEADLOCK FALSE
