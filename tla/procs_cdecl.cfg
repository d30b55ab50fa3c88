CONSTANTS
  Procs <- MCProcNames
  Main = "main"
  ProcAddress <- MCAddress
  MemTop = 26
  ReturnMark = 999
  Sources <- CSources
  Orderly <- CSources
SPECIFICATION Spec
INVARIANT StackBalanced
CHECK_DEADLOCK FALSE
