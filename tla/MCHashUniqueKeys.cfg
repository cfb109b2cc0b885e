SPECIFICATION SpecWalk
CONSTANTS
  Clients <- ReinsertingClient
  HashOf <- MCHashOf
  TABLE_MIN = 4
  UNSET = UNSET
  TOMBSTONE = TOMBSTONE
  NOT_FOUND = NOT_FOUND
INVARIANT
  UniqueKeys
