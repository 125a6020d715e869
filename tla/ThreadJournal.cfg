CONSTANTS
    Processes = {p, q}
    MaxTurns = 2
    MaxRequests = 2
    MaxEvents = 2
    MaxOpens = 2
SYMMETRY Symmetric
SPECIFICATION Spec
INVARIANTS
    UnfinishedIsDriven
    VerifiedIsWhole
PROPERTIES
    RevisesWhatWasSeen
    ImplementsTranscript
CHECK_DEADLOCK FALSE
