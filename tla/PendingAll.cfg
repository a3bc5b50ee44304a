SPECIFICATION Spec
CONSTANTS
    Callers = {c1, c2}
    L1 = L1
    L2 = L2
    R1 = R1
    Queries = {L1, L2, R1}
    ActionOf <- TwoActions
    None = None
    PendingMax = 2
INVARIANT TypeOK
INVARIANT SlotsOwned
INVARIANT NoLostWakeup
INVARIANT OwnAnswer
PROPERTY ImplementsMailbox
PROPERTY CallsReturn
