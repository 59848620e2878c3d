SPECIFICATION FairSpec
CONSTANTS
  UART_LOG_BUFFER_SIZE = 7
  Counts = {0, 1, 2}
  Values = {0, 1}
  MaxMessages = 4
INVARIANTS
  TypeOK
  SentAsLogged
PROPERTIES
  EverythingSent
