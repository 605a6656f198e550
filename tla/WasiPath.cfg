CONSTANTS
    Threads = {1, 2}
    Existing <- MCExisting
    Preopens = {2}
    HostFds = {0, 1, 2, 3, 4, 5, 6}
    StdHost = {0, 1}
    Objects = {1, 2, 3, 4, 5}
    MaxSize = 16
    MaxCalls = 2
    FdCalls = {"fd_read", "sock_accept"}
    RightsCalls = {{}, {"PATH_OPEN"}}
    NULL = NULL
    CRASHED = CRASHED
    Inside = {"D", "A", "F", "N", "up", "abs", "self", "loop"}
    NewFile = "N"
    Outside = "O"
    Names = {"x", "y", "z"}
    DirNodes <- MCDirs
    LinkNodes <- MCLinks
    Target <- MCTarget
    FileSystem <- MCFileSystem
    Swaps <- MCSwaps
    MaxSwaps = 1
    Requests <- MCRequests
    MAX_FDS = 3
    MAX_PATHS = 2
    MAX_EXPANSIONS = 3
SPECIFICATION Spec
INVARIANTS
    RefsExact
    HostExact
    Confined
PROPERTIES
    RightsShrink
    CallsEnd
CHECK_DEADLOCK FALSE
