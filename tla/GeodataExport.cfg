SPECIFICATION ExportSpec
CONSTANTS
  a = a
  b = b
  c = c
  Exports <- MCExports
  MaxAttempts = 2
  None = None
  Old = Old
SYMMETRY Symmetry
INVARIANTS
  PairIsOfOneBuild
  AllOrNothing
PROPERTIES
  NothingIsOverwritten
CHECK_DEADLOCK FALSE
