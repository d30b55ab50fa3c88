SPECIFICATION Spec
CONSTANTS
  Bits = 2
  Half = 2
  Nibble = 16
  Menus <- ShapesAndConditions
  Shapes <- MCShapes
  Conds <- MCConds
  RegValues <- MCRegValues
  FlagValues <- MCFlagValues
  MaxLines = 6
INVARIANTS TypeOK JumpsResolve
PROPERTY FollowsBlocks
CHECK_DEADLOCK FALSE
