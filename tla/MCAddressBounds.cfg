\* Two registers; four objects of one or two words, in slots of two or four,
\* and one of four words.
SPECIFICATION Spec
CONSTANTS
  g = g
  h = h
  big = big
  l = l
  v = v
  fun = fun
  r1 = r1
  r2 = r2
  Object = {g, h, l, v, big}
  Global = {g, h, big}
  Array = {v}
  Exempt = {}
  Function = {fun}
  Start <- MCStart
  Size <- MCSize
  SlotSize <- MCSlotSize
  MaxGlobal = 4
  MaxStack = 2
  Highest = 23
  Builds <- MCBuilds
  Register = {r1, r2}
  Word = {9}
  Shift <- MCShift
  MaxLength = 1
  MaxSteps = 4
INVARIANTS
  WitnessesAreRight
  NothingIsLeftOut
PROPERTY
  IsSafe
SYMMETRY Symmetry
CHECK_DEADLOCK FALSE
