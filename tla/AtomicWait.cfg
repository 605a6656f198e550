CONSTANTS
    Threads = {t1, t2, t3}
    Addrs = {a1}
    Infos = {w1}
    Values = {0, 1}
    Counts = {1, 1000}
    ALL = 1000
SPECIFICATION Spec
CHECK_DEADLOCK FALSE
INVARIANTS
    WaiterFindable
    NoLostWakeup
PROPERTY
    FiniteCallsReturn
