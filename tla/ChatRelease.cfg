SPECIFICATION Spec
CONSTANTS
    Modes <- HoldOnly
    LowPower = FALSE
    MaxEvents = 3
INVARIANT ReleaseEndsListening
CHECK_DEADLOCK FALSE
