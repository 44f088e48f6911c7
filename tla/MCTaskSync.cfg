SPECIFICATION AnySpec
CONSTANTS
  i0 = i0
  m0 = m0
  m1 = m1
  t1 = t1
  t2 = t2
  p0 = p0
  p1 = p1
  a = a
  b = b
  Task = {i0, m0, t1, t2}
  NoTask = NoTask
  InitProc = ini
  Proc = {ini, p0}
  NoProc = NoProc
  ProcOf <- ProcOfOne
  Main <- MainOfOne
  Obj = {a, b}
  NoObj = NoObj
  OwnerOf <- OwnerOfOne
  MaxTime = 0
  MaxCount = 1
SYMMETRY Symmetric
INVARIANTS
  TypeOK
  ReadyQueueExact
  BlockedOnce
  SemaphoreExact
  DeadNeverRun
  ShutdownOnlyAtEnd
  DisciplinedLocks
