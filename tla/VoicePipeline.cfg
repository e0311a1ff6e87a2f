CONSTANTS
    Settings <- Voices
    MaxUtterances = 2
    MaxPresses = 1
    MaxIncidents = 1
SPECIFICATION Spec
INVARIANTS
    VoiceWorkHasOwner
    MicrophoneServesTheUser
    RequestHasReader
    UtterancesEndOnce
PROPERTY EverythingEnds
