SPECIFICATION FairSpec
CONSTANTS
  k1 = k1
  k2 = k2
  acme = acme
  Requests = {r1, r2}
  NoRequest = NoRequest
  Keys = {k1, k2}
  Namespaces = {acme}
  NamespaceOf <- OneTenant
  Prints = {p1, p2}
  MaxEntries = 2
  MaxPerNamespace = 1
  TtlMs = 2
  PendingTtlMs = 2
  MaxFailures = 1
  MaxCrashes = 1
INVARIANTS
PROPERTIES
  GrantsAreSafe
  AnswersAreKept
  CapacityIsReal
  KeysFree
CHECK_DEADLOCK FALSE
