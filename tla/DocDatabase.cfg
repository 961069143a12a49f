SPECIFICATION SpecAfterTwo
CONSTANTS
  a1 = a1
  a2 = a2
  c1 = c1
  c2 = c2
  m1 = m1
  Processor = {processor}
  Account <- TwoAccounts
  Client <- TwoClients
  MintDb <- OneMint
  Named <- MintAndThird
  Name = {"book"}
  Path = {}
  CountWidth = 3
  Sends = {"CreateDocumentDb", "CreateEventDb", "DeleteEventDb", "AddCollection", "AddIndex", "AddDocument", "UpdateDocument", "DeleteDocument", "MintDocumentDb", "MintCollection"}
  SendsPairs = {"DeleteDocument"}
  MaxBatch = 2
  MaxIds = 2
  MaxEvents = 5
  MaxFlush = 1
  MaxCrash = 1
SYMMETRY Symmetry
INVARIANTS TypeOK IdsOnce DatabasesListed 
PROPERTIES SteadyOwnersDecide
CHECK_DEADLOCK FALSE
