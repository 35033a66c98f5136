SPECIFICATION CacheSpec
CONSTANTS
  t1 = t1
  t2 = t2
  Keys = {k1}
  Tags = {t1}
  NoRow = NoRow
  MaxSource = 1
  MaxTracked = 1
  Caches = {x1}
  Calls = {c1, c2, c3}
  NoCall = NoCall
  Ops = {"wrap", "set", "delete"}
  TagSets <- OneTag
  MaxFailures = 0
INVARIANTS
  WritesStayFresh
SYMMETRY Symmetry
CHECK_DEADLOCK FALSE
