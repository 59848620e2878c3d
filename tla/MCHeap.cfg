SPECIFICATION Spec
CONSTANTS
  HEADER = 12
  heap_spaces <- ThreeSpaces
  HeapEnd = 16
  Requests = {1, 12, 30}
INVARIANTS
  TypeOK
  ListsWellFormed
  FreeSizeExact
  Coalesced
  BlocksLargeEnough
PROPERTY ImplementsHeapBlocks
