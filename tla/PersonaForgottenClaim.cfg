SPECIFICATION Spec
CONSTANTS
    MaxId = 2
    MaxBorn = 3
    MaxWindows = 2
    MaxFaults = 0
    MaxCrashes = 0
    Inputs = 1
INVARIANTS
    NoOrphanedMemory
