SPECIFICATION AnySpec
CONSTANTS
  i0 = i0
  m0 = m0
  m1 = m1
  t1 = t1
  t2 = t2
  p0 = p0
  p1 = p1
  a = a
  b = b
  Task = {i0, m0, t1, m1}
  NoTask = NoTask
  InitProc = ini
  Proc = {ini, p0, p1}
  NoProc = NoProc
  ProcOf <- ProcOfTwo
  Main <- MainOfTwo
  Obj = {a}
  NoObj = NoObj
  OwnerOf <- OwnerOfTwo
  MaxTime = 0
  MaxCount = 0
INVARIANT
  NoStaleWaiter
