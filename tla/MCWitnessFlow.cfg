SPECIFICATION FlowSpec
CONSTANTS
  b1 = b1
  b2 = b2
  b3 = b3
  b4 = b4
  b5 = b5
  N = 4
  Block = {b1, b2, b3, b4, b5}
  Programs <- MCPrograms
  Targets <- MCTargets
  FlagsOf <- MCFlagsOf
  Succ <- MCSucc
  EntryBlock = b1
  MaxBlocks = 6
INVARIANTS
  SourcesMatch
  RequirementsAreWhole
  FlagsAreJoined
  WitnessesFollowPointers
PROPERTY
  Termination
CHECK_DEADLOCK FALSE
