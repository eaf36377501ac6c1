SPECIFICATION Spec
CONSTANTS
    w1 = w1
    w2 = w2
    w3 = w3
    reaper = reaper
    kernel = kernel
    idle1 = idle1
    idle2 = idle2
    c1 = c1
    c2 = c2
    NULL = NULL
    CPU = {c1, c2}
    Bsp = c1
    Worker = {w1, w2, w3}
    Main = w1
    Reaper = reaper
    KernelTask = kernel
    IdleOf <- IdleSmp
    NPrio = 3
    PrioOf <- PrioNormal
    Ops = {"sleep", "spawn"}
    EagerTimers = FALSE
    Queue <- MCQueue
    Task <- MCTask
INVARIANTS YieldNotEnqueued
