SPECIFICATION Spec
CONSTANTS
    PageNos = {p1, p2, p3}
    Size = 2
    Parts = 1
    Values <- TwoValues
    Hazards <- NoFaults
    Null = Null
INVARIANTS
    LastReused
CHECK_DEADLOCK FALSE
