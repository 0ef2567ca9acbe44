SPECIFICATION FairSpec
CONSTANTS
  NumProcs = 3
  FinalTime = 7
  FixedStep = 2
  Cfl <- MCCfl
  Settings <- MCSettings
  MaxLaunches = 3
INVARIANTS
  TypeOK
  RanksAgree
  SameCollective
  RestartIsTransparent
  OutputIsComplete
  ResumesWhereRecorded
PROPERTIES
  RunEnds
CHECK_DEADLOCK FALSE
