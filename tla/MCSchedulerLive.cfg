SPECIFICATION FairSpec
CONSTANTS
  Proc = {p1, p2, p3}
  InitProc = p1
  Idle = idle
  NoProc = nobody
  Mutex = {m}
  Sem = {}
  SemInit <- BufferCounts
  nEmpty = none
  mutex = m
  nFull = none
  MaxCount = 1
  MaxDelay = 0
PROPERTIES
  ReadyRuns
  ReaperQueueDrains
  ImplementsMultitasking
  WaiterIsServed
