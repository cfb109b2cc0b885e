SPECIFICATION Spec
CONSTANTS
  Clients <- KeepingClient
  SizeMod = 256
  PastDamage = TRUE
  JUNK = JUNK
  NULL = NULL
  FAULT = FAULT
INVARIANT
  FirstInFirstOut
