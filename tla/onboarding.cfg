CONSTANTS
    Call = {c1, c2}
    Nobody = Nobody
    MaxFaults = 3
    MaxCrashes = 1
    MaxDeletes = 1
SPECIFICATION FairSpec
INVARIANTS SavedIsWhole 
PROPERTIES  CommitsReturn
CHECK_DEADLOCK FALSE
