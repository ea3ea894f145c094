SPECIFICATION Spec
CONSTANTS
  Proc = {p1, p2}
  InitProc = p1
  Idle = idle
  Limits = {7, 8}
  NPages = 1
  PerTable = 1
CHECK_DEADLOCK FALSE
INVARIANTS
  FramesConserved
  TlbCoherent
PROPERTIES
  ImplementsPrivateMemory
