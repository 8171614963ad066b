SPECIFICATION FairSpec
CONSTANTS
    CertRecords = 2
    MaxConns = 2
    UpMax = 1
    DnMax = 1
    Sizes = {2}
    Firsts = {FALSE, TRUE}
    Trusts = {1}
    Keys = {1, 2}
    SndMax = 1
INVARIANTS
    SessionsAgree
    ToldOfThis
PROPERTIES
    StreamsSpec
    Served
CHECK_DEADLOCK FALSE
