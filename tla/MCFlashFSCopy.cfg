SPECIFICATION Spec
CONSTANTS
  n1 = n1
  n2 = n2
  long = long
  FILE_ENTRY_COUNT = 3
  ERASE_SIZE = 2
  SIZE_MOD = 65536
  FileNames = {n1, n2}
  BadNames = {}
  Truncated <- NoBadNames
  Values = {"v"}
  Lengths = {2, 3}
  MaxFaults = 0
SYMMETRY Symmetry
INVARIANT CopyMakesACopy
CHECK_DEADLOCK FALSE
