SPECIFICATION Spec
CONSTANTS
  BITS = 2
  Own <- MCOwn
  Addresses <- MCAddresses
  Bytes <- MCBytes
  MaxLength = 2
  Timeout = 2
INVARIANTS
  ReturnTellsHowFar
  BusLeftFree
