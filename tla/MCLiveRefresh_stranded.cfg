SPECIFICATION Spec
CONSTANTS
  p1 = p1
  p2 = p2
  NoProc = NoProc
  layout = layout
  page = page
  Procs = {p1}
  Keys = {page}
  MaxEvents = 2
  MaxHistory = 1
  MaxFaults = 1
  ConnectsBeforePolling = 1
INVARIANTS
  NeverStranded
SYMMETRY Symmetry
CHECK_DEADLOCK FALSE
