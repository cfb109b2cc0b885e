SPECIFICATION SpecMC
CONSTANTS
  InitMax = 2
  MaxPages = 2
  Data = {d}
  NULL = NULL
  Clients <- OneEach
  Modulus = 32
  PoolSlots = 5
  ArenaSize = 2
  ArenaRequests = {1, 3, 5}
  ArenaPages = 2
  Reach = 6
  BumpSize = 5
  BumpRequests = {1, 3, 30}
  MaxHeld = 4
  ZERO = ZERO
  JUNK = JUNK
  ListMax = 2
  ListPages = 3
  MaxItems = 4
  MaxAstray = 4
INVARIANT FListBegins
CHECK_DEADLOCK FALSE
