SPECIFICATION Spec
CONSTANTS
    MaxThreads = 2
    MaxCalls = 2
    MaxEnv = 2
    MaxAux = 2
    NULL = NULL
INVARIANTS
    AuxExact
    Reclaimed
    JoinWaits
PROPERTY
    Settles
CHECK_DEADLOCK FALSE
