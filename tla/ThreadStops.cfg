SPECIFICATION FairSpec
CONSTANTS
    MaxStarts = 4
INVARIANTS
    StopMeansStopped
PROPERTIES
    StopReturns
CHECK_DEADLOCK FALSE
