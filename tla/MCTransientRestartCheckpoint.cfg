SPECIFICATION Spec
CONSTANTS
  NumProcs = 2
  FinalTime = 4
  FixedStep = 1
  Cfl <- MCCfl
  Settings <- MCPlain
  MaxLaunches = 2
INVARIANTS
  RecordedRunCanRestart
CHECK_DEADLOCK FALSE
