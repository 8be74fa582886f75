CONSTANTS
  t1 = t1
  t2 = t2
  none = none
  Thread = {t1, t2}
  NoThread = none
  Fd <- MCFd
  NoFd = none
  Callers = {t1, t2}
  Capacity <- MCCapacity
  Unit <- MCUnit
  Kilo = 4
  SizeRange = 256
  MaxCalls = 2
SYMMETRY ThreadSymmetry
SPECIFICATION ProcessSpec
INVARIANTS
  OneLoopPerThread
  ReportsLeadToChannels
  HoldsItsOwn
  NoDescriptorLeak
  DefaultLoggerWrites
  SizeAsMeant
CHECK_DEADLOCK FALSE
