CONSTANTS
    Messages = {m1, m2}
    Accounts = {a, b}
    None = None
    PersistQueue = TRUE
    MaxMessages = 2
    MaxGeneration = 2
    MaxTrouble = 1
    MaxInterrupts = 2
SPECIFICATION Spec
SYMMETRY MCSymmetry
ACTION_CONSTRAINT MCBound
INVARIANTS
    NothingSentUnasked
    OneDispatchAtATime
    MessagesStayWithTheirAccount
    OutboxIsDurable
    SendNowIsDriven
CHECK_DEADLOCK FALSE
