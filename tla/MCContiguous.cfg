SPECIFICATION SpecAny
CONSTANTS
  Values = {x, y}
  SEQUENTIAL_INIT = 1
  SEQUENTIAL_GROWTH = 2
  MaxCapacity = 8
  MaxRange = 2
  HeapElements <- ThreeElements
  Orders <- BothOrders
  SizeMod = 256
  MaxElements = 7
  MaxPushed = 3
  BufferSize = 4
  BufferValues <- SignedValues
  MaxLen = 4
  MaxStep = 3
  MaxBeyond = 2
  JUNK = JUNK
  NULL = NULL
  FAULT = FAULT
INVARIANTS
  HeapOrdered
  ReordersRight
  ReadersAnswer
  LoopsSeeAll
PROPERTIES
  VectorIsSequence
  RoomKeepsArray
  HeapAbsSpec
  SpansKeepElements
CHECK_DEADLOCK FALSE
