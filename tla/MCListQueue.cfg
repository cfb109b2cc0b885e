SPECIFICATION SpecNodes
CONSTANTS
  Uses = {"list"}
  Clients <- QueueClient
  InitMax = 8
  MaxPages = 1
  TreeClients <- ReinsertingClient
  TreePages = 1
  NULL = NULL
  FAULT = FAULT
PROPERTY
  WalkEnds
CHECK_DEADLOCK FALSE
