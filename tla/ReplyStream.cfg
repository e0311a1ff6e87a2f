SPECIFICATION Spec
CONSTANTS
    Capacity = 1
    MaxRetries = 1
    MaxCalls = 2
    MaxChunks = 1
INVARIANTS
    ReplyIsFaithful
    TraceTellsTheTruth
PROPERTIES
    RevocationIsHonoured
    EveryReplyEnds
