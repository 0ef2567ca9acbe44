SPECIFICATION FairSpec
CONSTANTS
  NumProcs = 2
  NodesOf <- MCNodesOf
  ElementsOf <- MCElementsOf
  VerticesOf <- MCVerticesOf
  Pengrids <- MCPengrids
  PenaltyLock <- MCPenaltyLock
  RiftsOf <- MCRiftsOf
  RiftState <- MCRiftState
  RiftLock = 1
  RiftThreshold = 1
  NumAnalyses = 3
  EplFlipLock = 6
  Settings <- MCSettings
  ThermalThreshold = 1
  ThermalMaxiter = 3
  HydroMaxiter = 3
  StressMaxiter = 4
  InitialMasks <- MCMasks
  Overs <- MCOvers
  EplFields <- MCEplFields
  MaxSteps = 2
INVARIANTS
  TypeOK
  ConvergedMeansSettled
  RiftsFreezeTogether
  EplFlipsAreBounded
PROPERTIES
  SequencesEnd
CHECK_DEADLOCK FALSE
