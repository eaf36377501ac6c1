SPECIFICATION Spec
CONSTANTS
    CPU = {p1}
    Bsp = p1
    Timer = {t1, t2, t3, t4, t5}
    Delay = {1, 2, 3}
    MaxTick = 4
    NSlots = 5
    InitCap = 8
    MinHeap = 8
    NULL = NULL
SYMMETRY TimerSymmetry
CHECK_DEADLOCK FALSE
INVARIANT NoTimerLost
PROPERTY ImplementsTimerQueue
