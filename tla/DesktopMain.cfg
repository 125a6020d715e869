CONSTANTS
    Accounts = {a}
    None = None
    NoContext = None
    MaxFailures = 3
    Finishes = {TRUE, FALSE}
    MaxClients = 2
    MaxStopCalls = 2
    MaxProxies = 2
    MaxGeneration = 4
SPECIFICATION FairSpec
INVARIANTS
    TypeOK
    OneChildEach
    SupervisionGoesOn
    FailureCountsOnce
    TokenIsCurrent
    NothingOutlivesQuit
PROPERTIES
    QuitCompletes
CHECK_DEADLOCK FALSE
