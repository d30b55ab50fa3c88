CONSTANTS
  WordSize = 64
  MemSize = 16
  DataSize = 4
  Byte = {0, 1}
  Dwords <- MCDwords
  Sizes = {4, 60}
  MessageSizes = {2}
  StoreAddrs = {4, 8}
  StackPtrs = {8}
  MaxHandle = 3
  FreeArgs = {0, 4, 6, 8}
SPECIFICATION Spec
INVARIANT NoBlockAtNull
CHECK_DEADLOCK FALSE
