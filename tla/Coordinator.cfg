SPECIFICATION FairSpec
CONSTANTS
    o1 = o1
    o2 = o2
    o3 = o3
    o4 = o4
    Ops <- MCOps4
INVARIANTS
    TurnsAreKept
PROPERTIES
    NobodyStarves
    ImplementsOrder
