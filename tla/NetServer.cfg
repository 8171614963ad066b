SPECIFICATION FairSpec
CONSTANTS
    c1 = c1
    c2 = c2
    Conns = {c1, c2}
    INT32_MAX = 8
    SIZE_MAX_FD = {3, 4}
    FirstFd = 5
    Scripts <- Dialogs
    Size <- Units
    SndMax = 1
    AppCalls = 1
    AppMay <- Acts
INVARIANTS
    OneEach
    NoStaleKey
PROPERTIES
    StreamSpec
    MessagesHandled
    DeadClosed
CHECK_DEADLOCK FALSE
