SPECIFICATION Spec
CONSTANTS
  a1 = a1
  a2 = a2
  c1 = c1
  c2 = c2
  m1 = m1
  Processor = {processor}
  Account <- TwoAccounts
  Client <- TwoClients
  MintDb <- OneMint
  Named <- OneMint
  Name = {"book"}
  Path = {}
  CountWidth = 3
  Sends = {"AddCollection"}
  SendsPairs = {}
  MaxBatch = 1
  MaxIds = 2
  MaxEvents = 3
  MaxFlush = 0
  MaxCrash = 0
SYMMETRY Symmetry
INVARIANTS LogTellsStore
CHECK_DEADLOCK FALSE
