\* A mutation too small for a rollup of its own, and none after it.
CONSTANTS
    a1 = a1
    a2 = a2
    w1 = w1
    w2 = w2
    Account <- OneAccount
    Worker <- TwoWorkers
    MaxNonce = 2
    MaxBlock = 2
    MaxCrash = 0
    MayDrop = FALSE
    MaxFail = 1
    MinRollupSize = 3
    MinGcRound = 1
SPECIFICATION LiveSpec
CHECK_DEADLOCK FALSE
PROPERTIES
    EventuallyArchived
