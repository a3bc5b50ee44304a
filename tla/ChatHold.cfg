SPECIFICATION Spec
CONSTANTS
    Modes <- HoldOnly
    LowPower = FALSE
    MaxEvents = 6
INVARIANT MicNeedsTrigger
CHECK_DEADLOCK FALSE
