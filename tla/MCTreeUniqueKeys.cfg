SPECIFICATION SpecNodes
CONSTANTS
  Uses = {"table"}
  Clients <- QueueClient
  InitMax = 1
  MaxPages = 1
  TreeClients <- ReinsertingClient
  TreePages = 1
  NULL = NULL
  FAULT = FAULT
INVARIANT
  UniqueKeys
