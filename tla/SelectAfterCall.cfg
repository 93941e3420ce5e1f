\* A select behind a call that is used before what the call returned.
SPECIFICATION Spec
CONSTANTS
  f = f
  g = g
  ext = ext
  Function = {f, g, ext}
  Main = f
  Programs <- MCSelectFirst
  Object = {a, b, glob, null}
  GlobalObject = glob
  NullObject = null
  NoObject = NoObject
  Stale = Stale
  MaxDepth = 4
INVARIANT
  LoadsAreRightAfterTheCall
CHECK_DEADLOCK FALSE
