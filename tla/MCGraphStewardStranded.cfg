CONSTANTS
  a1 = a1
  t1 = t1
  t2 = t2
  s1 = s1
  shared = shared
  other = other
  private = private
  None = None
  Agent = {a1}
  Capable = {a1}
  Task = {t1, t2}
  Identity = {shared, other, private}
  TaskScoped = {private}
  TTL <- MCTTL
  Assignment = {s1}
  Fragment <- ExpandFragment
  MaxAge = {}
  Draft <- PlainDraft
  MaxWork = 6
  MaxArt = 5
  MaxTime = 0
SYMMETRY TaskSymmetry
SPECIFICATION ExecuteSpec
INVARIANT FutureInFlight
CHECK_DEADLOCK FALSE
