SPECIFICATION Spec
CONSTANTS
  Cards <- MCCards
  Paths <- MCPaths
  BLOCK_SIZE = 2
  FatEntries = 4
  Entries = 3
  MaxFaults = 1
  MaxSwaps = 1
INVARIANTS
  LookupsExact
  BlocksOfTheFile
