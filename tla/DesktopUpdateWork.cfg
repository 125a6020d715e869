CONSTANTS
    Terminals = {}
    Commands = {"update"}
    MaxVersion = 2
    MaxBusy = 3
SPECIFICATION FairSpec
PROPERTIES
    NoWorkForcedClosed
CHECK_DEADLOCK FALSE
