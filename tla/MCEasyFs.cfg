SPECIFICATION Spec
CONSTANTS
  BLOCK_SZ = 2
  INODE_DIRECT_COUNT = 1
  InodeBits = 3
  DataBits = 20
  DataBlocks = 16
  Name = {5, 6}
  Flags <- SomeFlags
  Slices <- SomeWrites
  Lens <- SomeReads
  MaxFd = 2
  MaxOffset = 14
  MaxOps = 5
INVARIANTS TypeOK DiskExact
PROPERTY StoreSpec
CHECK_DEADLOCK FALSE
