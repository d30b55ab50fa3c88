CONSTANTS
  Procedures <- MCProcedures
  Sources <- MCSources
  Scraps <- MCScraps
  MaxDepth = 3
  WhileLimit = 4
SPECIFICATION Spec
INVARIANT DataAsWritten
INVARIANT MembersApart
PROPERTY TranslationEnds
CHECK_DEADLOCK FALSE
