\* Two lists, two loads and two cells in each call, two active calls.
SPECIFICATION Spec
CONSTANTS
  Signatures <- MCSignatures
  args = args
  copied = copied
  l1 = l1
  l2 = l2
  c1 = c1
  c2 = c2
  Locals = {args, copied}
  Loads = {l1, l2}
  Cells = {c1, c2}
  MaxDepth = 2
  MaxSteps = 6
SYMMETRY Symmetric
CONSTRAINT Followed
INVARIANTS
  ProxiesAreInStep
  VarArgBoundsAreRight
  ProxiesAreFreed
CHECK_DEADLOCK FALSE
