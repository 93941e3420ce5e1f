\* A va_list and four instructions.
SPECIFICATION MarkingSpec
CONSTANTS
  MCSize = 4
  list = list
  Inst <- MCInst
  Arg = {list}
  Functions <- MCFunctions
INVARIANTS
  BookkeepingIsMarked
  ArgumentLoadsAreMarked
PROPERTY Termination
CHECK_DEADLOCK FALSE
