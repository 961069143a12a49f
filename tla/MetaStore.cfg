\* Every sequence of calls by two accounts.
CONSTANTS
    x = x
    y = y
    ZeroAddress = ZeroAddress
    ZeroTx = ZeroTx
    Address <- TwoAddresses
    IndexNodes = {i1}
    NoIndexNodes = NoIndexNodes
    ArTx = {t1}
    Description = {d1}
    Name = {c1}
    MaxCall = 5
SPECIFICATION Spec
SYMMETRY Symmetry
CHECK_DEADLOCK FALSE
INVARIANTS
    TypeOK
    LogTellsOwners
    LogJustified
    ForkWaits
PROPERTIES
    OrphansStay
