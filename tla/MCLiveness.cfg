SPECIFICATION MCSpec
CONSTANTS
  i0 = i0
  m0 = m0
  t1 = t1
  p0 = p0
  ini = ini
  o0 = o0
  NoTask = NoTask
  NoProc = NoProc
  NoObj = NoObj
  NoThread = NoThread
PROPERTIES
  ReadyGetsCpu SleeperWakes  PipeProgress  
  OrphansAreReaped
CHECK_DEADLOCK FALSE
