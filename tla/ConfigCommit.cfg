SPECIFICATION Spec
CONSTANTS
    w1 = w1
    w2 = w2
    w3 = w3
    t1 = t1
    Writers <- MCWriters
    Tools <- MCTools
    Changes <- ChangesMixed
    MaxFaults = 1
    MaxCrashes = 1
INVARIANTS
    FileMatchesMemory
    NewestChangeLasts
    CaptureIsPermitted
PROPERTIES
    ClosedIsNotReopened
