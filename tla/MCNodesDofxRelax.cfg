SPECIFICATION ValuedSpec
CONSTANTS
  NumProcs = 3
  NumNodes = 4
  Holds <- MCHolds
  Attached <- MCHolds
  GSize <- MCGSize
  Frozen <- MCFrozen
  StaticSpc <- MCStaticSpc
  TransientSpc <- MCTransientSpc
  DynamicSpc <- MCDynamicSpc
  Times = {1}
INVARIANTS
  FreeDofsAreActive
