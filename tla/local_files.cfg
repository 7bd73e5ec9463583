CONSTANTS
    Opener = {p1, p2}
    MaxCrashes = 1
    MaxOpenFaults = 1
    Command <- MCCommand
    NoVault = NoVault
    MaxVaultFaults = 2
    MaxKills = 2
    MaxBeside = 1
    Recorder = {r1, r2}
    MaxRecords = 2
    MaxAge = 1
    MaxReferences = 4
    LastTick = 2
    MaxMishaps = 1
SPECIFICATION MCSpec
INVARIANTS OpenIsVerified CredentialSurvives ProfileHasVault StaysBounded
 
CHECK_DEADLOCK FALSE
