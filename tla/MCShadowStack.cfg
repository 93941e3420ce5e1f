\* At most four active calls.
SPECIFICATION Spec
CONSTANTS
  f = f
  g = g
  ext = ext
  Function = {f, g, ext}
  Main = f
  Programs <- MCPrograms
  Object = {a, b, glob, null}
  GlobalObject = glob
  NullObject = null
  NoObject = NoObject
  Stale = Stale
  MaxDepth = 4
INVARIANTS
  WitnessesAreRight
  ArgumentsArePassed
  FramesMatchCalls
CHECK_DEADLOCK FALSE
