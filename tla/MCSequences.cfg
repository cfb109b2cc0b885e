SPECIFICATION SpecMC
CONSTANTS
  Clients <- AllClients
  SizeMod = 256
  PastDamage = FALSE
  TextClients <- AllTexts
  NUL = NUL
  JUNK = JUNK
  NULL = NULL
  FAULT = FAULT
INVARIANTS
  BlocksSafe
  SoundIsSequence
  StringSafe
PROPERTIES
  ShapeKept
  MiddleKeepsOrder
  RangesArrive
  CallsReturn
  RoomIsMade
CHECK_DEADLOCK FALSE
