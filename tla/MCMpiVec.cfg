SPECIFICATION FairSpec
CONSTANTS
  NumProcs = 3
  m <- MCm
  Values <- MCValues
  Program <- MCProgram
  MaxContributions = 3
INVARIANTS
  TypeOK
  CallsAgree
PROPERTIES
  IsOneVector
