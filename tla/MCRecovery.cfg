CONSTANTS
  a1 = a1
  a2 = a2
  t1 = t1
  w1 = w1
  w2 = w2
  u1 = u1
  code = code
  service1 = service1
  service2 = service2
  display = display
  None = None
  Agent = {a1, a2}
  Capable = {}
  Task = {t1}
  Identity = {code}
  Malformed = Malformed
  TaskScoped = {}
  TTL <- MCTTL
  Fragment <- MCFragment
  MaxAge = {}
  Draft <- MCDraft
  MaxWork = 2
  MaxArt = 1
  MaxTime = 0
  MaxAsg = 6
  MaxRestarts = 2
  Assignment = {1,2,3,4,5,6}
  Worker = {w1, w2}
  Client = {u1}
  AgentOf <- TwoAgents
  Resource = {service1, service2, display}
  Capacity <- OneEach
  Needs <- DisplayNeeds
  Required <- NothingRequired
SPECIFICATION CSpec
INVARIANTS RestartAgreement NotRepeated ExecutionExclusion
CHECK_DEADLOCK FALSE
