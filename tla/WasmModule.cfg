CONSTANTS
    Binaries <- MCBinaries
    Instances = {1, 2, 3}
    Main = 1
    U32 = 8
    UINT16_MAX = 3
    NULL = NULL
SPECIFICATION Spec
INVARIANTS
    BlocksExact
    IndicesValid
    InstanceExact
