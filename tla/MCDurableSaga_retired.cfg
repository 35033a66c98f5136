SPECIFICATION Spec
CONSTANTS
  c1 = c1
  c2 = c2
  NoOwner = NoOwner
  Calls = {c1, c2}
  Steps = 2
  Retired = {2}
  Fallbacks = TRUE
  MaxAttempts = 1
  LeaseMs = 1
  MaxBackoff = 0
  MaxCrashes = 1
  MaxFailures = 0
  MaxAborts = 0
INVARIANTS
  UnfinishedIsScanned
SYMMETRY Symmetry
CHECK_DEADLOCK FALSE
