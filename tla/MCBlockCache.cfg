SPECIFICATION Spec
CONSTANTS
  Block = {b1, b2, b3}
  Value = {v1, v2}
  Addr = {a1, a2, a3}
  BLOCK_CACHE_SIZE = 2
  MaxDepth = 3
SYMMETRY Symmetric
INVARIANTS
  TypeOK
  NeverRunsOut
PROPERTIES
  BufferedSpec
  SyncComplete
