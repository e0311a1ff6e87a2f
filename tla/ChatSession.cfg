SPECIFICATION Spec
CONSTANTS
    Limits <- MCLimits
    Sizes <- MCSizes
    TraceSizes <- MCTraceSizes
    PerMessage = 1
    ImageTokens = 2
    MissingImageTokens = 1
    MarkerSize = 1
    MaxText = 2
    MaxImages = 1
    MaxTraces = 1
    MaxTurns = 3
INVARIANTS
    BudgetsHold
    ReplyKeepsItsPlace
    RequestIsAnswerable
    InterruptionIsOwed
    SnapshotRestores
PROPERTIES
    RefusedCallsChangeNothing
