SPECIFICATION RadioSpec
CONSTANTS
  Polls = 2
  FifoDepth = 2
  MaxTransmits = 3
  MaxInits = 2
  MaxFaults = 2
INVARIANTS
  SentInItsCall
  ListensAgain
