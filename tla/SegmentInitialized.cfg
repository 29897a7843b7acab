CONSTANTS
  Stack <- MCStack
  Globals <- MCGlobals
  Heap <- MCHeap
  MaxBlocks = 2
  Bases = {1, 4, 8}
  MaxBytes = 7
  LONG_BLOCK = 2
  HEAP_SEGMENT = 6
  BYTE = 3
  HEAP_START = 12
  StaticSizes = {0, 2, 3, 5}
  HeapSizes = {1, 2, 7}
  SafeLocations <- MCSafeLocations
SPECIFICATION Spec
INVARIANT InitializedAnswers
CHECK_DEADLOCK FALSE
