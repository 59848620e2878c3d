SPECIFICATION Spec
CONSTANTS
  EEPROM_PAGE_NUM = 4
  EEPROM_PAGE_SIZE = 64
  HEADER = 32
  UINT_MOD = 4096
  a = a
  b = b
  c = c
  Names = {a, b, c}
  SectionSizes = {32, 33}
SYMMETRY Symmetry
INVARIANTS
  TypeOK
  Tiled
  FoundWhereCreated
  Coalesced
PROPERTY DataSafe
