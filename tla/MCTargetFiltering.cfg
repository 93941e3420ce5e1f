\* One function with three targets, every combination of kind, location, width.
SPECIFICATION Spec
CONSTANTS
  l1 = l1
  l2 = l2
  u = u
  p = p
  len = len
  N = 3
  Value = {p}
  NoValue = NoValue
  Argument = {p}
  Loc = {l1, l2, u}
  Dom <- MCDom
  Annotated = {l1}
  CheckEarly = {l2}
  Access = {l1, l2, u}
  Size = {1, 2}
  Length = {len}
  Configs <- RunConfigs
  RatioNum = 1
  RatioDen = 2
INVARIANTS
  SubsumedAreCovered
  SubsumedKeepGuard
  AccessesAreGuarded
  OnePassSuffices
CHECK_DEADLOCK FALSE
