SPECIFICATION Spec
CONSTANTS
  NChips = 2
  N = 2
  Blob <- MCBlob
  Runs <- MCRuns
  MaxTool = 1
  Sick = {0}
INVARIANTS
  TypeOK
  LoadedExact
PROPERTIES
  ProbeServes
CHECK_DEADLOCK FALSE
