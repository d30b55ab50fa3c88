SPECIFICATION Spec
CONSTANTS
  Bits = 2
  Half = 2
  Nibble = 16
  Menus <- ShapesOnly
  Shapes <- MCShapes
  Conds <- MCConds
  RegValues <- MCRegValues
  FlagValues <- MCFlagValues
  MaxLines = 4
INVARIANT UnclosedRefused
CHECK_DEADLOCK FALSE
