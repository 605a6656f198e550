CONSTANTS
    Threads = {1}
    Existing <- MCStdio
    Preopens = {}
    HostFds = {0, 1, 2, 3, 4, 5, 6}
    StdHost = {0, 1}
    Objects = {1, 2, 3, 4, 5}
    MaxSize = 4
    MaxCalls = 10
    FdCalls = {}
    RightsCalls = {}
    NULL = NULL
    CRASHED = CRASHED
    Inside = {"D", "A", "F", "N", "up", "abs", "self", "loop"}
    NewFile = "N"
    Outside = "O"
    Names = {"x", "y", "z"}
    DirNodes <- MCDirs
    LinkNodes <- MCLinks
    Target <- MCTarget
    FileSystem <- MCFileSystem
    Swaps <- MCSwaps
    MaxSwaps = 0
    Requests = {}
    MAX_FDS = 3
    MAX_PATHS = 2
    MAX_EXPANSIONS = 3
SPECIFICATION Spec
INVARIANT FreeSlot
CHECK_DEADLOCK FALSE
