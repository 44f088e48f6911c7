SPECIFICATION MCSpec
CONSTANTS
  Radix = 2
  FrameBegin = 1
  FrameEnd = 28
  Proc = {1, 2}
  First = 1
  Kernel = 0
  Elf <- TwoElves
  MaxTid = 2
  MaxStack = 3
  Value = {1}
  MaxOps = 6
  MaxStores = 1
  UBITS = 7
  VA_WIDTH = 5
  PAGE_SIZE_BITS = 2
  MaxLen = 9
  Table <- UserTable
  Reached <- UserReached
  Text <- UserText
INVARIANTS MemoryTypeOK SpacesExact HeapExact AccessExact
PROPERTIES MemorySpec HeapSpec
CHECK_DEADLOCK FALSE
