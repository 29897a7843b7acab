CONSTANTS
  Stack <- MCStack
  Globals <- MCGlobals
  Heap <- MCHeap
  MaxBlocks = 4
  MaxBytes = 4
  WORDBITS = 64
  LowBits = 6
  BYTE = 3
  StaticSizes = {0, 1}
  HeapSizes = {2, 4}
  Bases = {11, 13}
  HeapBases = {7, 20}
SPECIFICATION Spec
INVARIANT FreeReturns
CHECK_DEADLOCK FALSE
