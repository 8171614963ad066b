SPECIFICATION Spec
CONSTANTS
    MaxStarts = 2
INVARIANTS
    EndsWhenAsked
CHECK_DEADLOCK FALSE
