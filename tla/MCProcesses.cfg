SPECIFICATION MCSpec
CONSTANTS
  Parts = {"tree", "signals"}
  MaxPid = 3
  MaxTask = 4
  MaxTid = 3
  Holds <- AllHolds
  Sig = {9, 10, 12, 18, 19}
  Thread = {t0, t1}
  Main = t0
  NoThread = NoThread
  InitAction <- Default
  Action <- Exclusive
  Mask <- UsrMask
  Progress = 1
INVARIANTS
  ProcessesTypeOK IdsExact  
PROPERTIES TreeSpec StoppedStays
CHECK_DEADLOCK FALSE
