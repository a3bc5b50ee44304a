SPECIFICATION Spec
CONSTANTS
    Callers = {c1, c2}
    TimerTask = tt
    MaxJobs = 2
    Names <- OneName
    Exprs <- Rare
    Wrap = 2
    MaxTime = 6
    MaxCalls = 3
SYMMETRY CallerSymmetry
INVARIANT TypeOK
INVARIANT TimesBelong
INVARIANT TableIntact
INVARIANT WaitingJobArmsTimer
INVARIANT TimerCoversJobs
CHECK_DEADLOCK FALSE
