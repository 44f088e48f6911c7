SPECIFICATION MCSpec
CONSTANTS
  Parts = {"tree"}
  MaxPid = 3
  MaxTask = 4
  MaxTid = 2
  Holds <- ReadHolds
  Sig = {9, 10, 12, 18, 19}
  Thread = {t0, t1}
  Main = t0
  NoThread = NoThread
  InitAction <- Default
  Action <- Exclusive
  Mask <- UsrMask
  Progress = 1
INVARIANT LastReference
CHECK_DEADLOCK FALSE
