SPECIFICATION FairSpec
CONSTANTS
  NumProcs = 2
  NumVertices = 6
  ElementsOf <- MCElementsOf
  VerticesOf <- MCVerticesOf
  Bed <- MCBed
  Draft <- MCDraft
  Thicknesses <- MCThicknesses
  SeaLevels <- MCSeaLevels
  Masks <- MCMasks
  Styles <- MCStyles
INVARIANTS
  TypeOK
  FloodIsLeastClosed
  GeometryIsConsistent
  RanksAgree
  UngroundingIsConnectedAtDatum
PROPERTIES
  FloodTerminates
