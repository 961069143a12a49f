\* Crashes and restarts and failures of the outside services.
CONSTANTS
    a1 = a1
    a2 = a2
    w1 = w1
    w2 = w2
    Account <- OneAccount
    Worker <- TwoWorkers
    MaxNonce = 2
    MaxBlock = 3
    MaxCrash = 2
    MayDrop = TRUE
    MaxFail = 1
    MinRollupSize = 1
    MinGcRound = 1
SPECIFICATION Spec
SYMMETRY Symmetry
CHECK_DEADLOCK FALSE
INVARIANTS
    TypeOK
    RollupRecordsTile
    FilesLinked
    AckedKept
    AppliedOnce
    GcNormalCase
    GcFollowsRollups
    GcWindow
PROPERTIES
    PublishedKept
