SPECIFICATION Spec
CONSTANTS
    dev = dev
    cache = cache
    buddy = buddy
    c1 = c1
    c2 = c2
    NoLock = NoLock
    CPU = {c1, c2}
    Lock = {dev, cache}
    Mutex = {m}
    Nests <- UniformNests
    CallSites <- UniformSites
    MaxDepth = 4
SYMMETRY SymmetryMC
INVARIANTS MutualExclusion PreemptionRestored NoSelfDeadlock
