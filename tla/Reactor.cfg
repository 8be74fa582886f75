CONSTANTS
  p1 = p1
  p2 = p2
  loop = loop
  wake = wake
  c1 = c1
  none = none
  Posters <- MCPosters
  Loop = loop
  MaxTasks = 2
  MaxCounter = 2
  Channel = {wake, c1}
  NoChannel = none
  CallbacksOf <- MCCallbacksOf
  Readiness <- MCReadiness
  Refusable = {c1}
  InitListSize = 1
  Wake = wake
  UserKinds <- MCUserKinds
  MaxInline = 1
SPECIFICATION ReactorSpec
INVARIANTS
  TypeOK
  NoLostWakeup
  WakeReadNeverSpins
  PopFindsTask
  InOrderOnce
  WakeHeard
PROPERTIES
  ExecutorSpec
  TasksSpec
  SignalReturns
