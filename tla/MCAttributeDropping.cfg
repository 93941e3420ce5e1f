\* Checks and invariants, calls.
SPECIFICATION DroppingSpec
CONSTANTS
  f = f
  g = g
  h = h
  intr = intr
  ext = ext
  Function = {f, g, h, ext, intr}
  Defined = {f, g, h}
  Intrinsic = {intr}
  Indirect = Indirect
  TargetKind = {"check", "invariant"}
  CallKind = {"call"}
INVARIANTS
  FunctionAttributesStayTrue
  CallAttributesStayTrue
PROPERTY
  CleanFunctionsKeepAttributes
CHECK_DEADLOCK FALSE
