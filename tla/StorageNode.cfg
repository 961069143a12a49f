\* Two handlers, failures of the outside services, no crash.
CONSTANTS
    a1 = a1
    a2 = a2
    w1 = w1
    w2 = w2
    Account <- OneAccount
    Worker <- TwoWorkers
    MaxNonce = 3
    MaxBlock = 3
    MaxCrash = 0
    MayDrop = TRUE
    MaxFail = 1
    MinRollupSize = 1
    MinGcRound = 2
SPECIFICATION Spec
SYMMETRY Symmetry
CHECK_DEADLOCK FALSE
INVARIANTS
    ReplayedOnce
    GcWindow
    SlotsDistinct
PROPERTIES
    ArchiveLogSpec
