SPECIFICATION ShellSpec
CONSTANTS
  Size = 4
  SHELL_RX_BUFFER_LENGTH = 4
  COMMAND_LINE_LENGTH = 3
  MAX_SHELL_COMMAND_PARAMETERS = 1
  Letters <- MCLetters
  MaxAhead = 1
  Items <- MCCommands
  Blank = Blank
CONSTRAINT Intact
INVARIANTS
  HistoryTypeOK
  NoDuplicates
PROPERTIES
  ImplementsTerminal
  ImplementsRecencyList
VIEW HistoryView
