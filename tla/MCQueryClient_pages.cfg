SPECIFICATION Spec
CONSTANTS
  me = me
  feed = feed
  Plain = {}
  Paged = {feed}
  MaxPages = 2
  MaxFlights = 2
  MaxWaits = 1
INVARIANTS
  PagesFreshAfterInvalidation
CHECK_DEADLOCK FALSE
