SPECIFICATION Spec
CONSTANTS
  p = p
  c = c
  m = m
  n = n
  u = u
  Thread = {m, n}
  NoThread = NoThread
  Proc = {p, c}
  First = p
  ProcOf <- ProcOfPair
  Main <- MainOf
  Byte = {0}
  Zero = 0
  RING_BUFFER_SIZE = 1
  Lens = {0, 1}
  MaxFd = 2
CHECK_DEADLOCK FALSE
INVARIANT
  NoPanic
