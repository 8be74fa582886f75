CONSTANTS
  t1 = t1
  t2 = t2
  nul = nul
  Threads = {t1, t2}
  Byte <- MCByte
  Nul = nul
  CR = nul
  LF = nul
  InitSize = 3
  Prepend = 1
  ExpandFactor = 2
  TmpSize = 2
  Arrivals = {2, 3}
  MaxSent = 6
SYMMETRY MCSymmetry
SPECIFICATION OverflowSpec
INVARIANTS
  BuffersApart
CHECK_DEADLOCK FALSE
