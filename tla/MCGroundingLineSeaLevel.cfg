SPECIFICATION Spec
CONSTANTS
  NumProcs = 2
  NumVertices = 6
  ElementsOf <- MCElementsOf
  VerticesOf <- MCVerticesOf
  Bed <- MCBed
  Draft <- MCDraft
  Thicknesses <- MCThicknesses
  SeaLevels <- MCLowSeaLevels
  Masks <- MCMasks
  Styles <- MCSoft
INVARIANTS
  UngroundingIsConnected
