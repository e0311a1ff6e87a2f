SPECIFICATION FairSpec
CONSTANTS
    A = A
    B = B
    c1 = c1
    c2 = c2
    c3 = c3
    c4 = c4
    Personas <- MCPersonas
    FirstPersona = A
    Calls <- MCCalls4
    Offers <- OffersSwitches
    MaxConfig = 2
    MaxFaults = 1
    MaxDeltas = 0
    Utterances <- MCUtterances
    FirstDocs <- DocsUnread
INVARIANTS
    ConversationsStayApart
    SwitchesSettle
    ActiveRequestOwnsResponse
PROPERTIES
    DocumentsArePreserved
    TranscriptIsFresh
    EveryCallReturns
