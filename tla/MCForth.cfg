SPECIFICATION Spec
CONSTANTS
  Bits = 3
  Names = {"w"}
  Numbers = {0}
  Plain = {"dup", "i", "exit", "unloop"}
  Structure = {"if", "else", "then", "begin", "while", "repeat", "until", "again",
               "do", "loop", "+loop", "leave", "case", "of", "rangeof", "endof", "endcase"}
  Texts = {2, 3}
  Cell = 4
  FVM_CONDITIONS_STACK_LENGTH = 3
  LEAVES = 2
  Stacks <- MCStacks
  CallStacks <- MCCallStacks
  StackLength = 6
  MaxWords = 2
  MaxTyped = 6
  MaxFirst = 2
  MaxPlain = 1
INVARIANTS
  JumpsFollowStructure
  NeverAstray
  LoopsBalanced
PROPERTIES
  StackComments
