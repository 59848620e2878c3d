SPECIFICATION Spec
CONSTANTS
  ETH_IRQ_QUEUE_SIZE = 2
  ETH_USER_QUEUE_SIZE = 2
  MaxAnswers = 3
  MaxSends = 1
  ETH_NDP_TABLE_SIZE = 2
  d = d
  e = e
  f = f
  m = m
  n = n
  pg = pg
  pl = pl
  GlobalHosts = {d, e}
  LocalHosts = {f}
  GlobalPrefixes = {pg}
  LocalPrefixes = {pl}
  MACs = {m, n}
  Unspecified = Unspecified
  NoMAC = NoMAC
  NoAddress = NoAddress
  MaxOptions = 1
  Senders <- Seen
CONSTRAINT NotMasked
INVARIANTS
  TypeOK
  NothingLost
  NeighboursKnown
PROPERTIES
  SentInOrder
  WellAddressed
