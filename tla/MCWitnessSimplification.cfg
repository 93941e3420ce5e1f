\* Four inner nodes, one of them an extractvalue, one at a shifting GEP.
SPECIFICATION Spec
CONSTANTS
  External = {1, 2}
  Internal = {3, 4, 5, 6, 7, 8}
  Middle = {3, 4, 5, 6}
  Root = {7, 8}
  Entries <- MCEntryPair
  Invariant = {1, 2}
  Extract = {5}
  Shifted = {4}
  Graphs <- MCGraphs
  Null = Null
INVARIANTS
  RepresentativesAreSound
  RepresentativesAreFinal
  EveryNodeIsRepresented
  SimplificationKeepsSources
  NeededNodesRemain
  UnchangedAreDropped
  OnlyOrderIsUndefined
PROPERTY
  Termination
CHECK_DEADLOCK FALSE
