CONSTANTS
  x = x
  y = y
  cr = cr
  lf = lf
  nul = nul
  Byte <- MCByte
  Nul = nul
  CR = cr
  LF = lf
  InitSize = 4
  Prepend = 1
  ExpandFactor = 2
  TmpSize = 4
  Chunks <- SmallChunks
  MaxBytes = 12
  MaxUnread = 6
SPECIFICATION Spec
INVARIANTS
  TypeOK
  Layout
  BoundedSize
PROPERTY ByteStreamSpec
CHECK_DEADLOCK FALSE
