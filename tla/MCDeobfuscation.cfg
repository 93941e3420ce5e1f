\* All functions of four instructions in two blocks.
SPECIFICATION Spec
CONSTANTS
  typed = typed
  plain = plain
  External = {typed, plain}
  Typed = {typed}
  Blocks = 2
  N = 4
  Programs <- MCPrograms
INVARIANTS
  TypeOK
  ValuesArePreserved
  LoadsAreDeobfuscated
  AbortsAreExplained
CHECK_DEADLOCK FALSE
