SPECIFICATION MCSpec
CONSTANTS
  i0 = i0
  m0 = m0
  t1 = t1
  t2 = t2
  t3 = t3
  pr = pr
  Threads = 3
  Rounds = 2
  Tests = 1
  Task = {i0, m0, t1, t2, t3}
  NoTask = NoTask
  InitProc = ini
  Proc = {ini, pr}
  NoProc = NoProc
  ProcOf <- ProcOfAll
  Main <- MainOfAll
  Obj = {0, 1, 2}
  NoObj = NoObj
  OwnerOf <- OwnerOfAll
  MaxTime = 1
  MaxCount = 2
  Programs = {"phil_din_mutex", "barrier_condvar", "condsync_condvar", "condsync_sem", "sync_sem",
    "mpsc_sem", "adder_mutex_blocking", "adder_mutex_spin"}
  Worker <- ThreeWorkers
  BARRIERS = 1
  ROUND = 1
  BUFFER_SIZE = 1
INVARIANTS AllTypesOK  EisenbergExclusion GuardHolds
PROPERTY ProgramsEnd
