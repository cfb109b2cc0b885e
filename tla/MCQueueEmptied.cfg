SPECIFICATION Spec
CONSTANTS
  Clients <- QueueClient
  SizeMod = 256
  PastDamage = TRUE
  JUNK = JUNK
  NULL = NULL
  FAULT = FAULT
INVARIANT
  FirstInFirstOut
