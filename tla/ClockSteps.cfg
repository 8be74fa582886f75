CONSTANTS
  p1 = p1
  loop = loop
  Posters = {p1}
  Loop = loop
  MaxTasks = 1
  MaxCounter = 1
  TicksPerMs = 2
  StartTimes = {1}
  MaxTime = 5
  MaxTimers = 2
  Delays <- MCDelays
  Intervals = {1}
  Timestamps = {}
  TimeoutBits = 3
  Steps <- MCSteps
  MaxSteps = 1
SPECIFICATION StepsSpec
INVARIANTS
  LateByTheStep
PROPERTIES
  IntervalsKept
  TimerFires
  TasksRun
