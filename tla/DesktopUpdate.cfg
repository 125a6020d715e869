CONSTANTS
    Terminals = {"tui"}
    Commands = {}
    MaxVersion = 3
    MaxBusy = 1
SPECIFICATION FairSpec
INVARIANTS
    HelperIsAlone
    PayloadStays
PROPERTIES
    OnlyOrphansDowngrade
    DesktopComesBack
CHECK_DEADLOCK FALSE
