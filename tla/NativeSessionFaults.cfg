CONSTANTS
    Managers = {m1, m2}
    Workers = {}
    Accounts = {a, b}
    None = None
    Faults = {"lock", "load", "save", "delete", "slow save", "slow save error", "slow delete"}
    MaxTokens = 2
    MaxGeneration = 3
SPECIFICATION Spec
SYMMETRY MCSymmetry
PROPERTIES
    CredentialNotClobbered
CHECK_DEADLOCK FALSE
