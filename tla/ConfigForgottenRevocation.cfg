SPECIFICATION Spec
CONSTANTS
    w1 = w1
    w2 = w2
    w3 = w3
    t1 = t1
    Writers <- MCWriters
    Tools <- MCNoTools
    Changes <- ChangesPermission
    MaxFaults = 1
    MaxCrashes = 0
INVARIANTS
    ClosedIsOnDiskOrRetried
