CONSTANTS
    Free = {read}
    Asked = {write}
    Refused = {bad}
    Grantable = {write}
    MaxTurns = 2
    MaxSteps = 2
    MaxBatch = 2
    MaxWork = 4
    MaxFaults = 1
SPECIFICATION Spec
INVARIANTS
    RequestsAnswerCalls
    RestartKeepsContext
    UnfinishedTurnIsMarked
CHECK_DEADLOCK FALSE
