SPECIFICATION FairSpec
CONSTANTS
  me = me
  feed = feed
  Plain = {me}
  Paged = {feed}
  MaxPages = 2
  MaxFlights = 2
  MaxWaits = 1
INVARIANTS
  FreshAfterInvalidation
  ShownIsTheirs
  MountedIsLoaded
PROPERTIES
  ReloadsEnd
CHECK_DEADLOCK FALSE
