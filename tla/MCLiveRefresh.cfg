SPECIFICATION Spec
CONSTANTS
  p1 = p1
  p2 = p2
  NoProc = NoProc
  layout = layout
  page = page
  Procs = {p1, p2}
  Keys = {layout, page}
  MaxEvents = 2
  MaxHistory = 1
  MaxFaults = 1
  ConnectsBeforePolling = 1
INVARIANTS
  NothingMissed
  GrantsAreTrue
  RevokedHoldNothing
SYMMETRY Symmetry
CHECK_DEADLOCK FALSE
