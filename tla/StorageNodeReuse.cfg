\* A crash gives a block and order out twice, and the archive loses a mutation.
CONSTANTS
    a1 = a1
    a2 = a2
    w1 = w1
    w2 = w2
    Account <- OneAccount
    Worker <- TwoWorkers
    MaxNonce = 2
    MaxBlock = 2
    MaxCrash = 1
    MayDrop = TRUE
    MaxFail = 1
    MinRollupSize = 1
    MinGcRound = 1
SPECIFICATION LiveSpec
CHECK_DEADLOCK FALSE
PROPERTIES
    ArchiveLogSpec
