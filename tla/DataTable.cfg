SPECIFICATION StoreSpec
CONSTANTS
    Tags = {t1, t2}
    Keys = {1, 2, 3, 4, 5, 6}
    Vals = {1, 2}
    Size <- SizeDef
    PageSize = 8
    Reserve = 1
    ReuseMin = 4
    NumPages = 5
    Puts <- PutsDef
    Batches <- BatchesDef
    Loads <- LoadsDef
    MaxCalls = 3
    Capacity = 5
    Entries <- EntriesDef
    IndexPages <- IndexPagesDef
    Faults = {1, 2, 3, 4, 5, 6, 7, 8, 9, 10, 11, 12, 13, 14, 15, 16, 17, 18, 19, 20,
              21, 22, 23, 24, 25, 26, 27, 28, 29, 30, 31, 32, 33, 34, 35, 36, 37, 38}
    Histories <- HistoriesDef
    MaxOps = 3
    Contents = {1, 2, 3}
    Parts <- PartsDef
    Grow = 3
    MaxPages = 6
    Files <- FilesDef
    Breaks = {1, 2, 3, 4, 5, 6}
    MaxWrites = 3
INVARIANTS
    TypeOK
    ChainSound
    DiskSound
    PagesAccounted
    TreeSound
    DictionarySound
PROPERTIES
    RecordsSpec
    TreeKeepsMap
    DictionaryKept
CHECK_DEADLOCK FALSE
SYMMETRY TagsSymmetry
