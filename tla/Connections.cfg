CONSTANTS
  c1 = c1
  c2 = c2
  x1 = x1
  x2 = x2
  Connection = {c1, c2}
  Channel = {x1, x2}
  NoObject = NoObject
  Fd = {3, 4, 5}
  NoFd = NoFd
SPECIFICATION Spec
SYMMETRY Symmetry
INVARIANTS
  PointersLead
  HeardUnlessOutlived
