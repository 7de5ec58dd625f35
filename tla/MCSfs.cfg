SPECIFICATION Spec
SYMMETRY MCSymmetry
CHECK_DEADLOCK FALSE
CONSTANTS
  f1 = f1
  f2 = f2
  d1 = d1
  d2 = d2
  File = {f1, f2}
  Desc = {d1, d2}
  NoFile = NoFile
  Block <- MCBlock
  NDirect = 1
  NEntry = 2
  BlkSize = 2
  MaxFileSize = 8
  Len <- MCLen
  Position <- MCPosition
INVARIANTS
  FreeMapExact
  NoSharedBlock
  BlocksFit
  PanicCause
PROPERTIES
  ImplementsFileLengths
