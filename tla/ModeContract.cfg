SPECIFICATION Spec
CONSTANTS
    Threads = {t1}
    Builds <- SameDevices
    LowPower = TRUE
    WriteMayFail = TRUE
INVARIANT TypeOK
INVARIANT Coherent
INVARIANT OneModeOpen
PROPERTY RebootLandsInDurableMode
PROPERTY ChatSwitchNeverRefused
