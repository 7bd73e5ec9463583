CONSTANTS
    l1 = l1  q1 = q1  q2 = q2  q3 = q3  own = own
    Lease = {l1}
    Reader = {q1, q2, q3}
    Binding = {own}
    Size = {1}
    Capacity = 1
    TTL = 1
    NoLease = NoLease
    NoReaderYet = NoReaderYet
    MaxTime = 1
    MaxRestarts = 1
SPECIFICATION ServiceSpec
SYMMETRY Handlers
INVARIANTS QuotaExact ReadersSeeData  ShutdownFrees
CHECK_DEADLOCK FALSE
