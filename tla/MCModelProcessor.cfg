\* Two ranks, and the settings of MCModelProcessor: every finite element, on the
\* meshes that have it, with every partition.
SPECIFICATION Spec
CONSTANTS
  Ranks = {1, 2}
  Settings <- MCSettings
INVARIANTS
  TypeOK
  HooksResolve
  CopiesAgree
  SpcsAreInterpolated
  LoadsResolve
