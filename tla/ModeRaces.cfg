SPECIFICATION Spec
CONSTANTS
    Threads = {t1, t2}
    Builds <- GapBuild
    LowPower = TRUE
    WriteMayFail = FALSE
SYMMETRY ThreadSymmetry
VIEW RaceView
INVARIANT ActiveEnabled
INVARIANT KvNeverTransient
INVARIANT Coherent
