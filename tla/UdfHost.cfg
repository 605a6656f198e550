CONSTANTS
    Ids = {0, 1, 2, 3, 4, 5, 6, 7, 8, 9, 10}
    MaxCnt = 3
    Rooms = {0, 1, 2, 3, 4}
    GuestRoom = 2
SPECIFICATION Spec
CHECK_DEADLOCK FALSE
INVARIANTS
    Nested
    Released
    CrashFree
