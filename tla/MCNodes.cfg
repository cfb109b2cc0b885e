SPECIFICATION SpecNodes
CONSTANTS
  Uses = {"list", "table"}
  Clients <- AllLists
  InitMax = 2
  MaxPages = 3
  TreeClients <- AllTrees
  TreePages = 3
  NULL = NULL
  FAULT = FAULT
INVARIANTS
  ListSafe
  TreeSafe
  IteratorsInOrder
  
  
PROPERTIES
  ZeroedSlotsSuffice
  StackWalkEnds
CHECK_DEADLOCK FALSE
