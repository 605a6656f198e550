\* A list for one size, trees of two nodes, requests of two, three and five
\* units, and one that wraps around.
CONSTANTS
    HeapUnits = 8
    NormalNodeCnt = 4
    RootUnits = 2
    Word = 96
    Requests = {8, 20, 36, 93}
    MaxMigrations = 1
SPECIFICATION Spec
INVARIANTS
    Tiling
    KfcSound
    FootSound
    PayloadFits
    KfcComplete
    AllocExact
PROPERTY
    BlockHeapSpec
