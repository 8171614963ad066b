SPECIFICATION FairSpec
CONSTANTS
    PageLimit = 3
    FilePages = 2
    MaxFiles = 0
    Grow = 1
    NotFree = NotFree
    Hazards <- IoFaults
INVARIANTS
    GrantFresh
    GrantsDurable
    FilesPrecedePages
PROPERTIES
    AllocatorSpec
    CallsReturn
CHECK_DEADLOCK FALSE
