SPECIFICATION Spec
CONSTANTS
  a1 = a1
  a2 = a2
  c1 = c1
  c2 = c2
  m1 = m1
  Processor = {processor}
  Account <- TwoAccounts
  Client <- OneClient
  MintDb <- OneMint
  Named <- OneMint
  Name = {"book"}
  Path = {}
  CountWidth = 3
  Sends = {"AddDocument"}
  SendsPairs = {}
  MaxBatch = 2
  MaxIds = 2
  MaxEvents = 7
  MaxFlush = 1
  MaxCrash = 1
SYMMETRY Symmetry
PROPERTIES OwnersDecide
CHECK_DEADLOCK FALSE
