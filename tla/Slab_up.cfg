SPECIFICATION Spec
CONSTANTS
    c1 = c1
    c2 = c2
    CPU = {p1}
    Cache = {c1, c2}
    Slab = {s1, s2, s3}
    NPages = 2
    PageUnits = 2
    ObjSize <- TwoSizes
    Keep <- KeepOne
    NULL = NULL
SYMMETRY SlabSymmetry
INVARIANTS ObjectsExact ListsMatchUse PagesConserved FreeFindsSlab
