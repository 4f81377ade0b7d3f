CONSTANTS
  a1 = a1
  a2 = a2
  t1 = t1
  t2 = t2
  w1 = w1
  w2 = w2
  w3 = w3
  u1 = u1
  code = code
  service1 = service1
  service2 = service2
  display = display
  None = None
  Agent = {a1, a2}
  Capable = {a1}
  Task = {t1, t2}
  Identity = {code}
  Malformed = Malformed
  TaskScoped = {}
  TTL <- MCTTL
  Fragment <- DisplayFragment
  MaxAge = {}
  Draft <- MCDraft
  MaxWork = 3
  MaxArt = 2
  MaxTime = 1
  MaxAsg = 3
  Assignment = {1,2,3}
  Worker = {w1, w3}
  Client = {u1}
  AgentOf <- ThreadAgents
  Resource = {service1, service2, display}
  Capacity <- OneEach
  Needs <- DisplayNeeds
  Required <- NothingRequired
SPECIFICATION ResolvingSpec
INVARIANT NoIdleFrontier
CHECK_DEADLOCK FALSE
