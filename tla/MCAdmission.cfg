SPECIFICATION FairSpec
CONSTANTS
  Requests = {r1, r2, r3, r4, r5, r6}
  MaxInFlight = 2
  Reserved = 1
  MaxQueue = 2
INVARIANTS
  SlotsAreHeld
  NoIdleSlot
PROPERTIES
  HeadroomIsReserved
  WaitersAreServed
CHECK_DEADLOCK FALSE
