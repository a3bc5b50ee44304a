SPECIFICATION Spec
CONSTANTS
    Ui = Ui
    Mcp = Mcp
    Worker = Worker
    s1 = s1
    s2 = s2
    None = None
    Threads = {Ui, Mcp}
    CallsOf <- UiAndMcp
    Songs = {s1, s2}
    PlaylistMax = 2
    Stored <- Files
    MaxRest = 1
    MaxInputs = 2
INVARIANT TypeOK
INVARIANT NoLostRequest
 
INVARIANT FileFollows
PROPERTY RequestTaken
CHECK_DEADLOCK FALSE
