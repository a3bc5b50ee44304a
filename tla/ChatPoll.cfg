SPECIFICATION Spec
CONSTANTS
    Modes <- OneshotOnly
    LowPower = FALSE
    MaxEvents = 3
INVARIANT ListenRecords
CHECK_DEADLOCK FALSE
