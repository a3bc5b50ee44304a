SPECIFICATION Spec
CONSTANTS
    Modes <- AllModes
    LowPower = TRUE
    MaxEvents = 4
INVARIANT TypeOK
 
INVARIANT ListenRecordsUnlessLost
CHECK_DEADLOCK FALSE
