CONSTANTS
  WordSize = 64
  MemSize = 16
  DataSize = 4
  Byte = {0, 1}
  Dwords <- MCDwords
  Sizes = {0, 3, 8}
  MessageSizes = {2}
  StoreAddrs = {8}
  StackPtrs = {8}
  MaxHandle = 4
  FreeArgs = {0, 4, 8}
SPECIFICATION Spec
INVARIANT TypeOK
INVARIANT BlocksDisjoint
INVARIANT BlocksInHeap
INVARIANT BlocksOwned
PROPERTY DeadHandlesStayDead
PROPERTY LiveDataKept
PROPERTY UsedBytesKept
PROPERTY ImplementsHeapSpec
CHECK_DEADLOCK FALSE
