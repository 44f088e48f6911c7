SPECIFICATION Spec
CONSTANTS
  p = p
  c = c
  m = m
  n = n
  u = u
  Thread = {m, u, n}
  NoThread = NoThread
  Proc = {p, c}
  First = p
  ProcOf <- ProcOfThree
  Main <- MainOf
  Byte = {0, 1}
  Zero = 0
  RING_BUFFER_SIZE = 2
  Lens = {0, 3}
  MaxFd = 2
CHECK_DEADLOCK FALSE
INVARIANT
  TypeOK
PROPERTY
  FifoSpec
