SPECIFICATION Spec
CONSTANTS
    A = A
    B = B
    c1 = c1
    c2 = c2
    c3 = c3
    c4 = c4
    Personas <- MCPersonas
    FirstPersona = A
    Calls <- MCCalls4
    Offers <- OffersReplies
    MaxConfig = 0
    MaxFaults = 1
    MaxDeltas = 1
    Utterances <- MCUtterances
    FirstDocs <- DocsInvalid
INVARIANTS
    AnswersAreWanted
    SilenceHolds
    SessionsAreDurable
    AcknowledgedDeletionLasts
