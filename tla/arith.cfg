SPECIFICATION Spec
CONSTANTS
  Bits = 8
  Half = 128
  Nibble = 16
  Limbs = 2
  MemTop = 6
  Tasks <- AllTasks
INVARIANTS TypeOK WideSums WideShifts DivisionRestores ComparisonsDecide WideOrder DecimalSums
  StringsMove BitsFound ExchangesKeep FloatsEvaluate FloatsCompare ConsoleReads
PROPERTY TaskEnds
CHECK_DEADLOCK FALSE
