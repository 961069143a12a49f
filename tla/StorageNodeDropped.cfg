\* A lost updateRollupSteps transaction is never sent again.
CONSTANTS
    a1 = a1
    a2 = a2
    w1 = w1
    w2 = w2
    Account <- OneAccount
    Worker <- TwoWorkers
    MaxNonce = 1
    MaxBlock = 2
    MaxCrash = 0
    MayDrop = TRUE
    MaxFail = 1
    MinRollupSize = 1
    MinGcRound = 1
SPECIFICATION LiveSpec
CHECK_DEADLOCK FALSE
PROPERTIES
    EventuallyPublished
