CONSTANTS
    t1 = t1
    t2 = t2
    Requests <- MCRequests
    Ids <- MCIds
    Texts <- MCTexts
    TextBytes <- MCTextBytes
    MaxPending = 2
    MaxTurnBytes = 3
    Capacity = 1
SPECIFICATION FairSpec
INVARIANTS
    TypeOK
    AppliedIsCommitted
    NotAppliedIsNotCommitted
    JournalIsPrefixOfAccepted
    SuccessLosesNothing
PROPERTIES
    EveryRequestIsAnswered
ACTION_CONSTRAINT MCInOrder
CHECK_DEADLOCK FALSE
