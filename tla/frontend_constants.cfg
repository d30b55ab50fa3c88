CONSTANTS
  Procedures <- MCProcedures
  Sources <- LoopPrograms
  Scraps = {}
  MaxDepth = 3
  WhileLimit = 4
SPECIFICATION Spec
INVARIANT ConstantsAgree
CHECK_DEADLOCK FALSE
