\* A mutation written behind the scan of its block is never rolled up.
CONSTANTS
    a1 = a1
    a2 = a2
    w1 = w1
    w2 = w2
    Account <- OneAccount
    Worker <- TwoWorkers
    MaxNonce = 2
    MaxBlock = 2
    MaxCrash = 0
    MayDrop = TRUE
    MaxFail = 0
    MinRollupSize = 1
    MinGcRound = 1
SPECIFICATION Spec
CHECK_DEADLOCK FALSE
INVARIANTS
    AckedRolledUp
