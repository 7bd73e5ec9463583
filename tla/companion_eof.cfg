CONSTANTS
    c1 = c1  c2 = c2  c3 = c3
    Call = {c1, c2}
    Down = Down
    MaxOwners = 1
    MaxConns = 2
SPECIFICATION SourceSpec
SYMMETRY Calls
INVARIANT LastPageServed
CHECK_DEADLOCK FALSE
