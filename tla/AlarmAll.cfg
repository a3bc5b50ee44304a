SPECIFICATION Spec
CONSTANTS
    a1 = a1
    a2 = a2
    Alarms = {a1, a2}
    AlarmMax = 2
    JobIds <- MCJobIds
    MaxSnooze = 1
    QueueMax = 2
    MaxTime = 2
    MaxInputs = 2
    MaxFires = 3
INVARIANT TypeOK
INVARIANT JobsOwned
INVARIANT NothingForgotten
INVARIANT OverIsOver
PROPERTY FallsSilent
CHECK_DEADLOCK FALSE
