CONSTANTS
    p1 = p1  r1 = r1  r2 = r2  home = home  away = away
    Request = {r1, r2}
    Process = {p1}
    ProcessOf <- OneServer
    Target = {home, away}
    FirstTarget = home
    NoTarget = NoTarget
    NoRow = NoRow
    MaxRows = 1
    MaxOverlaps = 1
    MaxFaults = 2
    MaxCrashes = 1
    MaxEdits = 1
    JobSurvivesClose = FALSE
SPECIFICATION FairSpec
INVARIANTS OwnedFiles PublishedIsSound
PROPERTIES RecoveryDropsClean EventuallyClean
CHECK_DEADLOCK FALSE
