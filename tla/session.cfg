CONSTANTS
    Ping = {p1}
    MaxPending = 2
    MaxCursors = 1
    MaxOdd = 1
SPECIFICATION SessionSpec
INVARIANTS Correlated SuccessIsWhole DriverReleases
PROPERTIES SessionCallsReturn
CHECK_DEADLOCK FALSE
