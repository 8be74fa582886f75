CONSTANTS
  c1 = c1
  c2 = c2
  none = none
  Channel = {c1, c2}
  NoChannel = none
  CallbacksOf <- MCCallbacksOf
  Readiness <- MCReadiness
  Refusable = {c1}
  InitListSize = 1
SPECIFICATION Spec
INVARIANTS
  TypeOK
  InterestCurrent
  ReportedIsRegistered
  DispatchedIsAlive
PROPERTY ReadServed
