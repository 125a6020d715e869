CONSTANTS
    Managers = {m1, m2}
    Workers = {m1}
    Accounts = {a, b}
    None = None
    Faults = {}
    MaxTokens = 4
    MaxGeneration = 4
SPECIFICATION Spec
SYMMETRY MCSymmetry
INVARIANTS
    PeerBearerStaysAway
CHECK_DEADLOCK FALSE
