CONSTANTS
    Accounts = {a, b}
    StoreWorks = {w1}
    Prompts = {p}
    Commands = {c}
    Handlers = {h1}
    Stubborn = {p}
    None = None
    MaxGeneration = 4
SPECIFICATION FairSpec
INVARIANTS
    TypeOK
    WritesStayHome
    NoPublicationAfterReset
PROPERTIES
    StoreChangesOnlyWhenDrained
    SwitchSettles
CHECK_DEADLOCK FALSE
