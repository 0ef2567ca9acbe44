SPECIFICATION FairSpec
CHECK_DEADLOCK FALSE
CONSTANTS
  NumIcecaps = 2
  NumVertices <- MCNumVertices
  Transitions <- MCTransitions
  MaxIterations = 3
  Settings <- MCSettings
  MaxLaunches = 2
INVARIANTS
  TypeOK
  MessagesMatch
  ForcingIsOfThisStep
  SealevelIsOfThisStep
  InStep
PROPERTIES
  RunEnds
