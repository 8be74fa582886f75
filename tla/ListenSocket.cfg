CONSTANTS
  none = none
  Fd <- MCFd
  NoFd = none
  MaxBacklog = 2
  MaxClients = 3
SPECIFICATION Spec
INVARIANTS
  ClosesOnlyItsOwn
  NoReserveLeak
PROPERTIES
  ReserveKept
  ConnectionsTaken
