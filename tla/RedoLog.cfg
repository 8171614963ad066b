SPECIFICATION Spec
CONSTANTS
    Threads = {t1, t2}
    Blocks = {1, 2, 3}
    Size <- Nested
    Packed <- FirstPacked
    LastPeriod = 2
    MaxCrashes = 1
    Hazards <- IoFaults
    Null = Null
INVARIANTS
    BlocksApart
    AckedWhole
    ScanComplete
PROPERTIES
    LoggedInTime
CHECK_DEADLOCK FALSE
