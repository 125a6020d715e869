CONSTANTS
    Managers = {m1, m2}
    Workers = {m1}
    Accounts = {a, b}
    None = None
    Faults = {"save", "slow save"}
    MaxTokens = 3
    MaxGeneration = 3
SPECIFICATION Spec
SYMMETRY MCSymmetry
INVARIANTS
    TypeOK
    NoTokenReuse
    KeyringIsUsable
    CachedBearerIsHome
PROPERTIES
    GenerationNamesIdentity
CHECK_DEADLOCK FALSE
