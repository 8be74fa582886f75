CONSTANTS
  t1 = t1
  t2 = t2
  Callers = {t1, t2}
  Capacity <- MCCapacity
  Unit <- MCUnit
  Kilo = 4
  SizeRange = 256
  MaxCalls = 2
SPECIFICATION LoggerSpec
INVARIANTS
  GIsGigabytes
CHECK_DEADLOCK FALSE
