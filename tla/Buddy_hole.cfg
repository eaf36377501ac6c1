SPECIFICATION Spec
CONSTANTS
    NPages = 11
    HighOrder = 2
    order2size <- order2sizeMC
    MemMap <- MemMapHole
    BootFree = 0
INVARIANTS NoPageLost FailsOnlyWhenFull
PROPERTY ImplementsPageAlloc
