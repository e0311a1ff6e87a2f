SPECIFICATION Spec
CONSTANTS
    A = A
    B = B
    c1 = c1
    c2 = c2
    c3 = c3
    c4 = c4
    Personas <- MCPersonas
    FirstPersona = A
    Calls <- MCCalls2
    Offers <- OffersSwitchAndDelete
    MaxConfig = 1
    MaxFaults = 0
    MaxDeltas = 0
    Utterances <- MCUtterances
    FirstDocs <- DocsStored
INVARIANTS
    AcknowledgedDeletionLasts
