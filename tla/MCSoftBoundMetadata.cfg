\* Two registers, three objects of two words, one of unknown extent.
SPECIFICATION Spec
CONSTANTS
  g = g
  x = x
  l = l
  v = v
  fun = fun
  r1 = r1
  r2 = r2
  Object = {g, l, v, x}
  Local = {l, v}
  Unsized = {x}
  Function = {fun}
  Start <- MCStart
  Size <- MCSize
  Element <- MCElement
  Highest = 9
  Sources <- MCSources
  Register = {r1, r2}
  Word = {3}
  Shift <- MCShift
  MaxLength = 2
  MaxSteps = 4
INVARIANTS
  MetadataIsRight
  ChecksAreExact
  BadSourcesAreHandled
PROPERTY
  IsSafe
SYMMETRY Symmetry
CHECK_DEADLOCK FALSE
