SPECIFICATION Spec
CONSTANTS
  Bits = 8
  Half = 128
  Nibble = 16
  Limbs = 2
  MemTop = 6
  Tasks <- ProductTasks
INVARIANT TwoOperandProduct
CHECK_DEADLOCK FALSE
