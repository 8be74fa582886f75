CONSTANTS
  TicksPerMs = 2
  StartTimes <- MCStartTimes
  MaxTime = 8
  MaxTimers = 3
  Delays <- MCDelays
  Intervals <- MCIntervals
  Timestamps <- MCTimestamps
SPECIFICATION SafeSpec
INVARIANTS
  EachHeldOnce
  AddTimerAssertion
PROPERTIES
  EarliestFirst
  AlarmClockSpec
CHECK_DEADLOCK FALSE
