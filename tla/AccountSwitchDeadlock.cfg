CONSTANTS
    Accounts = {a, b}
    StoreWorks = {}
    Prompts = {}
    Commands = {c}
    Handlers = {h1}
    Stubborn = {}
    None = None
    MaxGeneration = 4
SPECIFICATION FairSpec
PROPERTIES
    SwitchAlwaysSettles
CHECK_DEADLOCK FALSE
