SPECIFICATION CacheSpec
CONSTANTS
  t1 = t1
  t2 = t2
  Keys = {k1}
  Tags = {t1, t2}
  NoRow = NoRow
  MaxSource = 1
  MaxTracked = 1
  Caches = {x1, x2}
  Calls = {c1, c2, c3}
  NoCall = NoCall
  Ops = {"wrap", "set", "delete", "invalidateTag", "clear"}
  TagSets <- OneTag
  MaxFailures = 1
INVARIANTS
  LoadsStayFresh
  JoinsAreFresh
SYMMETRY Symmetry
CHECK_DEADLOCK FALSE
