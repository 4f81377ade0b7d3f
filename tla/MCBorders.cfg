CONSTANTS
  t1 = t1
  t2 = t2
  d1 = d1
  d2 = d2
  d3 = d3
  p1 = p1
  n1 = n1
  n2 = n2
  Undefined = Undefined
  Unreadable = Unreadable
  NoSurface = NoSurface
  Field = {"subject", "size"}
  Text <- MCText
  Json <- MCJson
  Schema <- MCSchema
  Task = {t1, t2}
  MaxParameters = 2
  Display = {d1, d2}
  LogicalDisplay = {d1, d2, d3}
  Package = {p1}
  Name = {n1, n2}
  MaxElement = 4
  SnapshotLimit = 3
  BridgeLimit = 3
  PromptLimit = 2
SPECIFICATION Spec
INVARIANTS SharedWhenSame SnapshotIsTop PromptResolves OwnSurface
CHECK_DEADLOCK FALSE
