SPECIFICATION Spec
CONSTANTS
    Agent = Agent
    App = App
    Threads = {Agent, App}
    None = None
    CallsOf <- AgentAndApp
    QueueMax = 2
    Capacity <- Two
    MaxCalls = 3
INVARIANT TypeOK
INVARIANT SpeakerFollows
INVARIANT WaitCovered
INVARIANT ListStopNotMissed
INVARIANT IndexInList
PROPERTY ListStopReturns
CHECK_DEADLOCK FALSE
