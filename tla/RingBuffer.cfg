CONSTANTS
    BUFF_MAX_LEN = 4
    Bytes = {0, 1}
    ClearLen = 1
    TmpLen = 3
SPECIFICATION Spec
INVARIANTS
    Fifo
PROPERTY
    QueueSteps
