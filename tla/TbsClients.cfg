SPECIFICATION Spec
CONSTANTS
    PageLimit = 6
    FilePages = 4
    MaxFiles = 1
    Grow = 2
    NotFree = NotFree
    Hazards <- Refree
INVARIANTS
    ChainSound
    Capacity
PROPERTIES
    PagesAccounted
CHECK_DEADLOCK FALSE
