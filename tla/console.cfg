CONSTANTS
    Name = {1}
    Host = {"h1", "h2"}
    NoHost = "none"
    MaxOps = 2
    MaxCommands = 1
    MaxEdits = 1
SPECIFICATION ConsoleSpec
INVARIANTS LeaseIsReachable CompletionIsOwn NoConnectionLeft
PROPERTIES StoredIsProved RunningEnds
CHECK_DEADLOCK FALSE
