SPECIFICATION Spec
CONSTANTS
    MaxId = 2
    MaxBorn = 3
    MaxWindows = 2
    MaxFaults = 1
    MaxCrashes = 1
    Inputs = 1
INVARIANTS
    FreedIdsLeaveNothing
    ClaimIsHonest
PROPERTIES
    LivingMemoryIsKept
