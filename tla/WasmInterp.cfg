SPECIFICATION Spec
CONSTANTS
    Modules <- MCModules
    FastOffsets = 2
    WasmStackCells = 54
    FrameHeader = 2
    BlockCells = 1
    CacheSize = 2
    ConflictSize = 2
    StackSlots = 3
INVARIANTS StackAgrees WithinFrame BlockAddrExact OutsAreaFits
CHECK_DEADLOCK FALSE
