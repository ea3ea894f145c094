SPECIFICATION Spec
CONSTANTS
  Proc = {p1, p2, p3}
  InitProc = p1
  Idle = idle
  NoProc = nobody
  Mutex = {m}
  Sem = {e, f}
  SemInit <- BufferCounts
  nEmpty = e
  mutex = m
  nFull = f
  MaxCount = 1
  MaxDelay = 1
CHECK_DEADLOCK FALSE
SYMMETRY Children
INVARIANTS
  TypeOK
  NoPanic
  InterruptDiscipline
  OneHome
  NoLostWakeup
  MutualExclusion
PROPERTIES
  NoOvertaking
  ImplementsSteps
