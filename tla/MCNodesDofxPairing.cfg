SPECIFICATION ValuedSpec
CONSTANTS
  NumProcs = 2
  NumNodes = 2
  Holds <- PairedHolds
  Attached <- PairedAttached
  GSize <- PairedGSize
  Frozen = {}
  StaticSpc <- NoSpc
  TransientSpc <- NoSpc
  DynamicSpc <- NoSpc
  Times = {1}
INVARIANTS
  ClonesAgree
