\* A loaded integer is stored twice.
SPECIFICATION Spec
CONSTANTS
  typed = typed
  plain = plain
  External = {typed, plain}
  Typed = {typed}
  Blocks = 2
  N = 4
  Programs <- MCStoredTwice
INVARIANT
  LoadStorePatternIsReplaced
CHECK_DEADLOCK FALSE
