SPECIFICATION SpecWalk
CONSTANTS
  Clients <- AllClients
  HashOf <- MCHashOf
  TABLE_MIN = 4
  UNSET = UNSET
  TOMBSTONE = TOMBSTONE
  NOT_FOUND = NOT_FOUND
INVARIANTS
  TableSafe
  ProbePathsUnbroken
  TableIsDictionary
  LoopSeesKeys
PROPERTIES
  LoopEnds
