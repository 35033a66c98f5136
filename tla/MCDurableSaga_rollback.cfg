SPECIFICATION Spec
CONSTANTS
  c1 = c1
  c2 = c2
  NoOwner = NoOwner
  Calls = {c1, c2}
  Steps = 2
  Retired = {}
  Fallbacks = FALSE
  MaxAttempts = 2
  LeaseMs = 1
  MaxBackoff = 1
  MaxCrashes = 1
  MaxFailures = 1
  MaxAborts = 1
INVARIANTS
  NeverExecutedTwice
  AtMostOneHandler
  CompensationsBounded
  UnfinishedIsScanned
PROPERTIES
  OnlyTheOwnerWrites
  Implements
SYMMETRY Symmetry
CHECK_DEADLOCK FALSE
