CONSTANTS
  Procs <- MCProcNames
  Main = "main"
  ProcAddress <- MCAddress
  MemTop = 40
  ReturnMark = 999
  Sources <- NoArgSources
  Orderly <- NoArgSources
SPECIFICATION Spec
PROPERTY InvokeRuns
CHECK_DEADLOCK FALSE
