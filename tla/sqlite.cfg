CONSTANTS
    admitA = admitA  admitB = admitB  admitA2 = admitA2
    deleteA = deleteA  list = list
    p1 = p1  p2 = p2  a = a  b = b  a2 = a2  c = c
    Caller = {admitA, admitB, deleteA, list}
    Record = {a, b, a2, c}
    Admitting = {admitA, admitB}
    Lister = {list}
    Process = {p1, p2}
    NoCaller = NoCaller
    TokenOf <- MCTokenOf
    RecordOf <- MCRecordOf
    ProcessOf <- MCProcessOf
    MaxRows = 2
    Retries = 2
    MaxFaults = 1
SPECIFICATION FairSpec
PROPERTIES KeepsPromise CallsReturn
CHECK_DEADLOCK FALSE
