SPECIFICATION Spec
CONSTANTS
    PageNos = {p1, p2, p3}
    Size = 2
    Parts = 2
    Values <- TwoValues
    Hazards <- AllFaults
    Null = Null
SYMMETRY PageSymmetry
INVARIANTS
    ListSound
PROPERTIES
    FlushAllSaves
    StoreSpec
CHECK_DEADLOCK FALSE
