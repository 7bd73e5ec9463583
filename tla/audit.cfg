CONSTANTS
    p1 = p1  p2 = p2  e1 = e1  e2 = e2  e3 = e3
    Process = {p1, p2}
    Event = {e1, e2}
    Recovered = Recovered
    NoEvent = NoEvent
    RetentionDays = 2
    SegmentCap = 2
    LastDay = 3
    MaxFaults = 1
    MaxCrashes = 2
SPECIFICATION Spec
SYMMETRY Interchangeable
INVARIANTS AckedRetained OnlyNewestTorn
CHECK_DEADLOCK FALSE
