\* Every mutation acknowledged in time is found from the contract in the end,
\* through failures and a crash, where every round is large enough and no
\* transaction is dropped.
CONSTANTS
    a1 = a1
    a2 = a2
    w1 = w1
    w2 = w2
    Account <- OneAccount
    Worker <- TwoWorkers
    MaxNonce = 2
    MaxBlock = 2
    MaxCrash = 1
    MayDrop = FALSE
    MaxFail = 1
    MinRollupSize = 1
    MinGcRound = 1
SPECIFICATION LiveSpec
CHECK_DEADLOCK FALSE
PROPERTIES
    EventuallyPublished
