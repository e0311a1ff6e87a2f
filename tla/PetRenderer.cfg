SPECIFICATION Spec
CONSTANTS
    Capacity = 1
    MaxOrders = 4
    MaxFaults = 2
INVARIANTS
    SurfaceIsReleasedFirst
    ModelHasRenderer
    NewestFrameIsShown
    InputIsSeen
PROPERTY
    PetSettles
