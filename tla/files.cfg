SPECIFICATION Spec
CONSTANTS
  Names = {"f", "denied", "nowhere"}
  Denied = {"denied"}
  Nowhere = {"nowhere"}
  Capacity = 2
  WordSize = 4
  Modes = {"r+", "w+", "a"}
  Accesses = {"read", "both"}
  Counts = {0, 1, 2, 3}
  Texts <- MCTexts
  Lows = {0, 1, 3}
  Highs = {0, 3}
  MaxOpens = 2
  MaxOffset = 4
INVARIANTS TypeOK HandlesMatchHost LastErrorTells KnowledgeHolds
PROPERTY HandlesStayDead
CHECK_DEADLOCK FALSE
