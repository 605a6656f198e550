CONSTANTS
    PageSize = 8
    MaxPages = 8
    OsPage = 4
    KB = 2
    Align = 2
    HeapSizeMax = 16
    Modules <- MCModules
    Instances = {1, 2, 3}
    Main = 1
    MaxDepth = 2
    Incs = {0, 1, 2, 5, 63}
    NULL = NULL
SPECIFICATION Spec
INVARIANT HeapBaseAdjusted
