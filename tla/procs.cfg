CONSTANTS
  Procs <- MCProcNames
  Main = "main"
  ProcAddress <- MCAddress
  MemTop = 40
  ReturnMark = 999
  Sources <- AllSources
  Orderly <- OrderlySources
SPECIFICATION Spec
INVARIANTS TypeOK StackBalanced ParamsNamed LocalsKept ReturnSlotsIntact NeverFaults
PROPERTY CalleeRestores
CHECK_DEADLOCK FALSE
