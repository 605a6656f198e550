SPECIFICATION CoreSpec
CONSTANTS
    HeapUnits = 15
    NormalNodeCnt = 4
    RootUnits = 2
    Word = 128
    Requests = {8, 20, 36, 125}
    MaxMigrations = 0
INVARIANTS
    TreeOrdered
    PinuseExact
    NoAdjacentFree
