SPECIFICATION Spec
CONSTANTS
    Threads = {t1}
    Blocks = {1, 2}
    Size <- Nested
    Packed <- NoneMC
    LastPeriod = 1
    MaxCrashes = 1
    Hazards <- NoHazards
    Null = Null
INVARIANTS
    ScanSound
CHECK_DEADLOCK FALSE
