SPECIFICATION FairValuedSpec
CONSTANTS
  NumProcs = 3
  NumNodes = 4
  Holds <- MCHolds
  Attached <- MCHolds
  GSize <- MCGSize
  Frozen <- MCFrozen
  StaticSpc <- MCStaticSpc
  TransientSpc <- MCTransientSpc
  DynamicSpc <- MCDynamicSpc
  Times = {1, 2}
INVARIANTS
  TypeOK
  RowsHaveOneOwner
  RowsFollowRanks
  ClonesAgree
  SolutionIsMerged
  IndexingIsCurrent
  SameCollective
PROPERTIES
  EveryUpdateIsSolved
