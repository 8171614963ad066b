SPECIFICATION FairSpec
CONSTANTS
    MaxPush = 6
    Null = Null
INVARIANTS
    TypeOK
    PointersLive
    SizeFollows
PROPERTIES
    PipeSpec
    AllPopped
