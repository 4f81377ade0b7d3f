CONSTANTS
  a1 = a1
  t1 = t1
  t2 = t2
  s1 = s1
  shared = shared
  other = other
  private = private
  None = None
  Agent = {a1}
  Capable = {a1}
  Task = {t1, t2}
  Identity = {shared, private}
  TaskScoped = {private}
  TTL <- MCTTL
  Assignment = {s1}
  Fragment <- SmallFragment
  MaxAge = {0}
  Draft <- StampedDraft
  MaxWork = 3
  MaxArt = 2
  MaxTime = 1
SYMMETRY TaskSymmetry
SPECIFICATION Spec
INVARIANTS TypeOK ReadinessCurrent TaskOutcome IndexSound RecordValid
  FinishedProducerSettles
PROPERTY KeepsContract
