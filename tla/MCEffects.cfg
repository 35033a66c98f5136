SPECIFICATION Spec
CONSTANTS
  Calls = {e1, e2, e3}
  Bindings = {b1, b2}
  NoGate = NoGate
  NoToken = NoToken
  MaxFailures = 1
SYMMETRY Symmetry
INVARIANTS
  ApprovalsAreSpentOnce
PROPERTIES
  Implements
CHECK_DEADLOCK FALSE
