CONSTANTS
  x = x
  y = y
  cr = cr
  lf = lf
  nul = nul
  Byte <- MCByte
  Nul = nul
  CR = cr
  LF = lf
  InitSize = 4
  Prepend = 1
  ExpandFactor = 2
  TmpSize = 4
  Chunks <- LargeChunks
  MaxBytes = 12
  MaxUnread = 12
SPECIFICATION Spec
INVARIANTS
  Layout
CHECK_DEADLOCK FALSE
