------------------------- MODULE GraphStewardProofs -------------------------
(***************************************************************************)
(* Proofs about GraphSteward, for every set of agents, tasks, identities   *)
(* and fragments and for every bound: types and the numbering of nodes,    *)
(* then the order of execution, the outcome of tasks and readiness.        *)
(***************************************************************************)
EXTENDS GraphSteward, TLAPS

\* Identifiers are handed out in order, and a node that exists has a producer.
Numbered ==
  /\ \A v \in WorkId : status[v] = "ABSENT" <=> v >= nextWork
  /\ \A a \in ArtId : art[a].state = "ABSENT" <=> a >= nextArt
  /\ \A a \in ArtId : art[a].state # "ABSENT" => art[a].producer \in WorkId /\ art[a].producer < nextWork
  /\ \A k \in Key : active[k] # None => active[k] < nextArt

TInv == TypeOK /\ Numbered

-----------------------------------------------------------------------------
(* What a refresh does.                                                    *)

LEMMA SettledWorkType ==
  ASSUME NEW st \in [WorkId -> WorkStatus],
         NEW wk, NEW ar
  PROVE  /\ SettledWork(st, wk, ar) \in [WorkId -> WorkStatus]
         /\ \A v \in WorkId : /\ st[v] \notin {"BLOCKED", "READY"} => SettledWork(st, wk, ar)[v] = st[v]
                              /\ st[v] \in {"BLOCKED", "READY"} => SettledWork(st, wk, ar)[v] \in {"BLOCKED", "READY"}
                              /\ SettledWork(st, wk, ar)[v] = "READY" => Runnable(v, st, wk, ar)
BY DEF SettledWork, WorkStatus

LEMMA SettledTasksType ==
  ASSUME NEW tk \in [Task -> TaskRecord], NEW st
  PROVE  /\ SettledTasks(tk, st) \in [Task -> TaskRecord]
         /\ \A t \in Task : /\ SettledTasks(tk, st)[t].terminals = tk[t].terminals
                            /\ tk[t].status \in {"ABSENT", "DONE", "FAILED"} => SettledTasks(tk, st)[t] = tk[t]
                            /\ tk[t].status \notin {"ABSENT", "DONE", "FAILED"} =>
                                 SettledTasks(tk, st)[t].status = TaskVerdict(tk[t].terminals, st)
<1>1. \A S : TaskVerdict(S, st) \in {"ACTIVE", "READY_FOR_EVALUATION", "FAILED"}
  BY DEF TaskVerdict
<1>2. QED
  BY <1>1 DEF SettledTasks, TaskRecord, TaskStatus

LEMMA InvalidatedType ==
  ASSUME NEW ar \in [ArtId -> ArtRecord], NEW as
  PROVE  /\ Invalidated(ar, as) \in [ArtId -> ArtRecord]
         /\ \A a \in ArtId : /\ Invalidated(ar, as)[a].producer = ar[a].producer
                             /\ Invalidated(ar, as)[a].key = ar[a].key
                             /\ a \notin as => Invalidated(ar, as)[a] = ar[a]
                             /\ a \in as => Invalidated(ar, as)[a].state = "INVALIDATED"
BY DEF Invalidated, ArtRecord, ArtifactState

LEMMA RetiredType ==
  ASSUME NEW index \in [Key -> ArtId \cup {None}], NEW as
  PROVE  /\ Retired(index, as) \in [Key -> ArtId \cup {None}]
         /\ \A k \in Key : Retired(index, as)[k] \in {index[k], None}
BY DEF Retired

-----------------------------------------------------------------------------
(* The type invariant.                                                     *)

\* The empty graph of a process that starts, at any time
Fresh ==
  /\ work = [w \in WorkId |-> NoWork]
  /\ status = [w \in WorkId |-> "ABSENT"]
  /\ asg = [w \in WorkId |-> None]
  /\ outcome = [w \in WorkId |-> None]
  /\ art = [a \in ArtId |-> NoArtifact]
  /\ edges = {}
  /\ active = [k \in Key |-> None]
  /\ history = [k \in Key |-> {}]
  /\ task = [t \in Task |-> NoTask]
  /\ nextWork = 1 /\ nextArt = 1
  /\ now \in Time

LEMMA InitIsFresh == Init => Fresh
BY BoundAssumption DEF Init, Fresh, Time

LEMMA TInvFresh == Fresh => TInv
<1> SUFFICES ASSUME Fresh PROVE TInv
  OBVIOUS
<1> USE BoundAssumption
<1>1. NoWork \in WorkRecord /\ NoArtifact \in ArtRecord /\ NoTask \in TaskRecord
  BY DEF NoWork, NoArtifact, NoTask, WorkRecord, ArtRecord, TaskRecord, ArtifactState, TaskStatus
<1>2. TypeOK
  BY <1>1 DEF Fresh, TypeOK, Time, WorkStatus
<1>3. Numbered
  BY DEF Fresh, Numbered, WorkId, ArtId, NoArtifact
<1>4. QED
  BY <1>2, <1>3 DEF TInv

LEMMA TInvInit == Init => TInv
BY InitIsFresh, TInvFresh

\* Assignments move one WORK on and touch nothing else.
LEMMA TInvAssign ==
  ASSUME TInv, NEW w \in WorkId, NEW s \in Assignment, Assign(w, s) \/ Start(w, s)
  PROVE  TInv'
<1>1. TypeOK'
  BY DEF TInv, TypeOK, WorkStatus, Assign, Start
<1>2. Numbered'
  BY DEF TInv, TypeOK, Numbered, Assign, Start
<1>3. QED
  BY <1>1, <1>2 DEF TInv

\* Finishing WORK w, with its outputs in the state they are left in.
LEMMA TInvFinish ==
  ASSUME TInv, NEW w \in WorkId, NEW st \in {"DONE", "FAILED"}, NEW how \in {"completed", "failed"},
         status[w] = "RUNNING", Finish(w, st, how),
         art' \in [ArtId -> ArtRecord],
         \A a \in ArtId : art'[a].producer = art[a].producer /\ (art'[a].state = "ABSENT" <=> art[a].state = "ABSENT"),
         active' \in [Key -> ArtId \cup {None}],
         \A k \in Key : active'[k] \in {active[k], None}
  PROVE  TInv'
<1> DEFINE mid == [status EXCEPT ![w] = st]
<1>1. mid \in [WorkId -> WorkStatus]
  BY DEF TInv, TypeOK, WorkStatus
<1>2. /\ status' \in [WorkId -> WorkStatus]
      /\ \A v \in WorkId : status'[v] = "ABSENT" <=> mid[v] = "ABSENT"
  <2>1. status' = SettledWork(mid, work', art')
    BY DEF Finish
  <2> HIDE DEF mid
  <2>2. QED
    BY <1>1, <2>1, SettledWorkType
<1>3. task' \in [Task -> TaskRecord]
  <2>1. task \in [Task -> TaskRecord] /\ task' = SettledTasks(task, status')
    BY DEF Finish, TInv, TypeOK
  <2>2. QED
    BY <2>1, SettledTasksType
<1>4. TypeOK'
  BY <1>2, <1>3 DEF Finish, TInv, TypeOK
<1>5. \A v \in WorkId : mid[v] = "ABSENT" <=> status[v] = "ABSENT"
  BY DEF TInv, TypeOK
<1>6. Numbered'
  <2>1. \A v \in WorkId : status'[v] = "ABSENT" <=> v >= nextWork'
    BY <1>2, <1>5 DEF Finish, TInv, Numbered
  <2>2. \A a \in ArtId : /\ art'[a].state = "ABSENT" <=> a >= nextArt'
                         /\ art'[a].state # "ABSENT" => art'[a].producer \in WorkId /\ art'[a].producer < nextWork'
    BY DEF Finish, TInv, Numbered
  <2>3. \A k \in Key : active'[k] # None => active'[k] < nextArt'
    BY DEF Finish, TInv, Numbered
  <2>4. QED
    BY <2>1, <2>2, <2>3 DEF Numbered
<1>7. QED
  BY <1>4, <1>6 DEF TInv

LEMMA ConcretizedType ==
  ASSUME TInv, NEW w \in WorkId, NEW d \in Draft, NEW complete, ~Rejects(w, complete)
  PROVE  /\ Concretized(w, d) \in [ArtId -> ArtRecord]
         /\ \A a \in ArtId : /\ Concretized(w, d)[a].producer = art[a].producer
                             /\ Concretized(w, d)[a].state = "ABSENT" <=> art[a].state = "ABSENT"
<1> DEFINE Until(k) == IF d.validUntil # None \/ k = None THEN d.validUntil
                       ELSE IF TTL[k[1]] = None THEN None ELSE SeenAt(d) + TTL[k[1]]
<1>1. SeenAt(d) \in Nat /\ d.validUntil \in Nat \cup {None}
  <2>1. d \in [observedAt : Nat \cup {None}, validUntil : Nat \cup {None}]
    BY DraftAssumption
  <2>2. now \in Nat
    BY DEF TInv, TypeOK, Time
  <2>3. QED
    BY <2>1, <2>2 DEF SeenAt
<1>2. ASSUME NEW k \in Key \cup {None} PROVE Until(k) \in Nat \cup {None}
  <2>1. CASE k = None
    BY <1>1, <2>1
  <2>2. CASE k \in Key
    <3>1. k[1] \in Identity
      BY <2>2 DEF Key
    <3>2. TTL[k[1]] \in Nat \cup {None}
      BY <3>1, AgeAssumption
    <3>3. QED
      BY <1>1, <3>2
  <2>3. QED
    BY <2>1, <2>2
<1>3. Concretized(w, d) = [a \in ArtId |->
         IF a \in work[w].outs
         THEN [art[a] EXCEPT !.state = "CONCRETE", !.observedAt = SeenAt(d), !.validFrom = SeenAt(d),
                             !.validUntil = Until(art[a].key)]
         ELSE art[a]]
  BY DEF Concretized
<1> HIDE DEF Until
<1>4. \A a \in ArtId : art[a] \in ArtRecord /\ Until(art[a].key) \in Nat \cup {None}
  BY <1>2 DEF TInv, TypeOK, ArtRecord
<1>5. \A a \in work[w].outs : art[a].state = "FUTURE"
  BY DEF Rejects
<1>6. ASSUME NEW a \in ArtId
      PROVE  /\ Concretized(w, d)[a] \in ArtRecord
             /\ Concretized(w, d)[a].producer = art[a].producer
             /\ Concretized(w, d)[a].state = "ABSENT" <=> art[a].state = "ABSENT"
  <2>1. CASE a \in work[w].outs
    <3> DEFINE u == Until(art[a].key)
               n == SeenAt(d)
    <3>1. Concretized(w, d)[a] =
            [art[a] EXCEPT !.state = "CONCRETE", !.observedAt = n, !.validFrom = n, !.validUntil = u]
      BY <1>3, <2>1
    <3>2. u \in Nat \cup {None} /\ n \in Nat /\ art[a] \in ArtRecord /\ art[a].state = "FUTURE"
      BY <1>1, <1>4, <1>5, <2>1
    <3> HIDE DEF u, n
    <3>3. QED
      BY <3>1, <3>2 DEF ArtRecord, ArtifactState
  <2>2. CASE a \notin work[w].outs
    BY <1>3, <1>4, <2>2
  <2>3. QED
    BY <2>1, <2>2
<1>7. Concretized(w, d) \in [ArtId -> ArtRecord]
  BY <1>3, <1>6
<1>8. QED
  BY <1>6, <1>7

LEMMA TInvCommit ==
  ASSUME TInv, NEW w \in WorkId, NEW s \in Assignment, NEW complete \in BOOLEAN, NEW d \in Draft,
         CommitWork(w, s, complete, d)
  PROVE  TInv'
<1>1. /\ art' \in [ArtId -> ArtRecord]
      /\ \A a \in ArtId : art'[a].producer = art[a].producer /\ (art'[a].state = "ABSENT" <=> art[a].state = "ABSENT")
  BY ConcretizedType DEF CommitWork
<1>2. active' \in [Key -> ArtId \cup {None}] /\ \A k \in Key : active'[k] \in {active[k], None}
  BY DEF CommitWork, TInv, TypeOK
<1>3. status[w] = "RUNNING" /\ Finish(w, "DONE", "completed")
  BY DEF CommitWork, Holds
<1>4. QED
  BY <1>1, <1>2, <1>3, TInvFinish

LEMMA FailOutputsType ==
  ASSUME TInv, NEW w \in WorkId, FailOutputs(w)
  PROVE  /\ art' \in [ArtId -> ArtRecord]
         /\ \A a \in ArtId : art'[a].producer = art[a].producer /\ (art'[a].state = "ABSENT" <=> art[a].state = "ABSENT")
         /\ active' \in [Key -> ArtId \cup {None}]
         /\ \A k \in Key : active'[k] \in {active[k], None}
<1>1. \A a \in Unfinished(w) : art[a].state = "FUTURE"
  BY DEF Unfinished
<1>2. art' \in [ArtId -> ArtRecord]
  <2>1. \A a \in ArtId : art[a] \in ArtRecord
    BY DEF TInv, TypeOK
  <2>2. \A r \in ArtRecord : [r EXCEPT !.state = "FAILED"] \in ArtRecord
    BY DEF ArtRecord, ArtifactState
  <2>3. QED
    BY <2>1, <2>2 DEF FailOutputs
<1>3. \A a \in ArtId : art'[a].producer = art[a].producer /\ (art'[a].state = "ABSENT" <=> art[a].state = "ABSENT")
  BY <1>1 DEF FailOutputs, TInv, TypeOK, ArtRecord
<1>4. QED
  <2>1. active \in [Key -> ArtId \cup {None}] /\ active' = Retired(active, Unfinished(w))
    BY DEF FailOutputs, TInv, TypeOK
  <2>2. QED
    BY <1>2, <1>3, <2>1, RetiredType

LEMMA TInvFail ==
  ASSUME TInv, NEW w \in WorkId, NEW s \in Assignment,
         FailWork(w, s) \/ \E complete \in BOOLEAN : RejectWork(w, s, complete)
  PROVE  TInv'
<1>1. status[w] = "RUNNING" /\ FailOutputs(w) /\ Finish(w, "FAILED", "failed")
  BY DEF FailWork, RejectWork, Holds
<1>2. QED
  BY <1>1, FailOutputsType, TInvFinish

\* Invalidation of existing artifacts, and the refresh that follows it
LEMMA TInvInvalidate ==
  ASSUME TInv, NEW as \in SUBSET ArtId, \A a \in as : art[a].state # "ABSENT",
         art' = Invalidated(art, as), active' = Retired(active, as),
         status' = SettledWork(status, work, art'), task' = SettledTasks(task, status'),
         UNCHANGED <<work, asg, outcome, edges, history, nextWork, nextArt, now>>
  PROVE  TInv'
<1>1. /\ art' \in [ArtId -> ArtRecord]
      /\ \A a \in ArtId : art'[a].producer = art[a].producer /\ (art'[a].state = "ABSENT" <=> art[a].state = "ABSENT")
  <2>1. art \in [ArtId -> ArtRecord]
    BY DEF TInv, TypeOK
  <2>2. \A r \in ArtRecord : /\ [r EXCEPT !.state = "INVALIDATED"] \in ArtRecord
                             /\ [r EXCEPT !.state = "INVALIDATED"].producer = r.producer
                             /\ [r EXCEPT !.state = "INVALIDATED"].state = "INVALIDATED"
    BY DEF ArtRecord, ArtifactState
  <2>3. art' = [a \in ArtId |-> IF a \in as THEN [art[a] EXCEPT !.state = "INVALIDATED"] ELSE art[a]]
    BY <2>1 DEF Invalidated
  <2>4. \A a \in ArtId : /\ art'[a] \in ArtRecord
                         /\ art'[a].producer = art[a].producer
                         /\ a \notin as => art'[a] = art[a]
                         /\ a \in as => art'[a].state = "INVALIDATED"
    BY <2>1, <2>2, <2>3
  <2>5. art' \in [ArtId -> ArtRecord]
    BY <2>3, <2>4
  <2>6. QED
    BY <2>4, <2>5
<1>2. active' \in [Key -> ArtId \cup {None}] /\ \A k \in Key : active'[k] \in {active[k], None}
  <2>1. active \in [Key -> ArtId \cup {None}]
    BY DEF TInv, TypeOK
  <2>2. QED
    BY <2>1, RetiredType
<1>3. status' \in [WorkId -> WorkStatus] /\ \A v \in WorkId : status'[v] = "ABSENT" <=> status[v] = "ABSENT"
  <2>1. status \in [WorkId -> WorkStatus]
    BY DEF TInv, TypeOK
  <2>2. QED
    <3>1. /\ SettledWork(status, work, art') \in [WorkId -> WorkStatus]
          /\ \A v \in WorkId :
               /\ status[v] \notin {"BLOCKED", "READY"} => SettledWork(status, work, art')[v] = status[v]
               /\ status[v] \in {"BLOCKED", "READY"} => SettledWork(status, work, art')[v] \in {"BLOCKED", "READY"}
      BY <2>1 DEF SettledWork, WorkStatus
    <3>2. QED
      BY <3>1
<1>4. task' \in [Task -> TaskRecord]
  <2>1. task \in [Task -> TaskRecord]
    BY DEF TInv, TypeOK
  <2>2. QED
    BY <2>1, SettledTasksType
<1>5. TypeOK'
  BY <1>1, <1>2, <1>3, <1>4 DEF TInv, TypeOK
<1>6. Numbered'
  BY <1>1, <1>2, <1>3 DEF TInv, Numbered
<1>7. QED
  BY <1>5, <1>6 DEF TInv

LEMMA TInvEvaluate ==
  ASSUME TInv, NEW t \in Task, NEW success \in BOOLEAN, EvaluateTask(t, success)
  PROVE  TInv'
<1>1. task' \in [Task -> TaskRecord]
  <2> DEFINE s == IF success THEN "DONE" ELSE "FAILED"
  <2>1. \A r \in TaskRecord : [r EXCEPT !.status = s] \in TaskRecord
    BY DEF TaskRecord, TaskStatus
  <2>2. task \in [Task -> TaskRecord] /\ task' = [task EXCEPT ![t] = [task[t] EXCEPT !.status = s]]
    BY DEF EvaluateTask, TInv, TypeOK
  <2> HIDE DEF s
  <2>3. QED
    BY <2>1, <2>2
<1>2. TypeOK' /\ Numbered'
  BY <1>1 DEF EvaluateTask, TInv, TypeOK, Numbered
<1>3. QED
  BY <1>2 DEF TInv

LEMMA TInvRebuild == ASSUME TInv, RebuildArtifactIndex PROVE TInv'
<1>1. history' \in [Key -> SUBSET ArtId]
  BY DEF RebuildArtifactIndex, RebuiltHistory, Generations
<1>2. \A k \in Key : active'[k] # None =>
        active'[k] \in ArtId /\ art[active'[k]].state \in {"FUTURE", "CONCRETE"}
  <2> SUFFICES ASSUME NEW k \in Key, active'[k] # None
               PROVE  active'[k] \in ArtId /\ art[active'[k]].state \in {"FUTURE", "CONCRETE"}
    OBVIOUS
  <2>1. active' = RebuiltActive(art)
    BY DEF RebuildArtifactIndex
  <2>2. InUse(art, k) # {}
    BY <2>1 DEF RebuiltActive
  <2>3. active'[k] \in ArtId /\ active'[k] \in InUse(art, k)
    BY <2>1, <2>2 DEF RebuiltActive, InUse, Generations
  <2>4. QED
    BY <2>3 DEF InUse
<1>3. active' \in [Key -> ArtId \cup {None}]
  <2>1. active' = [k \in Key |-> active'[k]]
    BY DEF RebuildArtifactIndex, RebuiltActive
  <2>2. QED
    BY <1>2, <2>1
<1>4. TypeOK'
  BY <1>1, <1>3 DEF RebuildArtifactIndex, TInv, TypeOK
<1>5. \A k \in Key : active'[k] # None => active'[k] < nextArt
  BY <1>2 DEF TInv, TypeOK, Numbered, ArtId
<1>6. Numbered'
  BY <1>5 DEF RebuildArtifactIndex, TInv, Numbered
<1>7. QED
  BY <1>4, <1>6 DEF TInv

LEMMA TInvTick == ASSUME TInv, Tick PROVE TInv'
<1>1. now' \in Time
  BY BoundAssumption DEF TInv, TypeOK, Tick, Time
<1>2. TypeOK' /\ Numbered'
  BY <1>1 DEF TInv, TypeOK, Numbered, Tick, graph
<1>3. QED
  BY <1>2 DEF TInv

LEMMA KeyOfType ==
  ASSUME NEW i \in Identity \cup {None}, NEW t \in Task
  PROVE  KeyOf(i, t) \in Key \cup {None}
BY DEF KeyOf, Key

\* What the index hands out exists, and so does its producer.
LEMMA ReusableHit ==
  ASSUME TInv, NEW k \in Key \cup {None}, NEW age, Reusable(k, age)
  PROVE  /\ k \in Key /\ active[k] \in ArtId /\ active[k] < nextArt
         /\ art[active[k]].state \in {"FUTURE", "CONCRETE"}
         /\ art[active[k]].producer \in WorkId /\ art[active[k]].producer < nextWork
<1>1. k \in Key /\ active[k] # None
  BY DEF Reusable
<1>2. art[active[k]].state \in {"FUTURE", "CONCRETE"}
  BY DEF Reusable, Satisfies
<1>3. active[k] \in ArtId /\ active[k] < nextArt
  BY <1>1 DEF TInv, TypeOK, Numbered
<1>4. QED
  BY <1>1, <1>2, <1>3 DEF TInv, Numbered

\* Only an existing artifact goes stale.
LEMMA StaleType ==
  ASSUME TInv, NEW k \in Key \cup {None}, NEW age
  PROVE  Stale(k, age) \subseteq ArtId /\ \A a \in Stale(k, age) : a < nextArt
BY DEF Stale, TInv, TypeOK, Numbered

\* The refresh at the end of an operation
LEMMA RefreshedWork ==
  ASSUME NEW st \in [WorkId -> WorkStatus], status' = SettledWork(st, work', art')
  PROVE  /\ status' \in [WorkId -> WorkStatus]
         /\ \A v \in WorkId : status'[v] = "ABSENT" <=> st[v] = "ABSENT"
BY DEF SettledWork, WorkStatus

LEMMA RefreshedTask ==
  ASSUME NEW tk \in [Task -> TaskRecord], task' = SettledTasks(tk, status')
  PROVE  task' \in [Task -> TaskRecord]
BY SettledTasksType

LEMMA TInvResolve ==
  ASSUME TInv, NEW c \in WorkId, NEW t \in Task, NEW i \in Identity \cup {None}, NEW age \in Age,
         NEW g \in Agent, ResolveArtifact(c, t, i, age, g)
  PROVE  TInv'
<1> DEFINE k == KeyOf(i, t)
           hit == Reusable(k, age)
           a == IF hit THEN active[k] ELSE nextArt
           p == IF hit THEN art[a].producer ELSE nextWork
           mid == IF hit THEN status ELSE [status EXCEPT ![p] = "BLOCKED"]
           tk == [task EXCEPT ![t].work = @ \cup {p}, ![t].arts = @ \cup {a}]
           provider == IF hit THEN [work[p] EXCEPT !.tasks = @ \cup {t}]
                       ELSE [NoWork EXCEPT !.agent = g, !.outs = {a}, !.tasks = {t}]
           asked == IF hit THEN Joined(art[a], {c}, {t})
                    ELSE [NoArtifact EXCEPT !.state = "FUTURE", !.producer = p, !.consumers = {c},
                                            !.key = k, !.tasks = {t}]
           inv == Invalidated(art, Stale(k, age))
           need == [art |-> a, maxAge |-> age]
<1>1. k \in Key \cup {None}
  BY KeyOfType
<1>2. /\ ~hit => nextWork <= MaxWork /\ nextArt <= MaxArt
      /\ nextWork' = IF hit THEN nextWork ELSE nextWork + 1
      /\ nextArt' = IF hit THEN nextArt ELSE nextArt + 1
      /\ edges' = edges \cup {<<"PRODUCES", p, a>>, <<"CONSUMES", a, c>>}
      /\ active' = [x \in Key |-> IF x = k THEN a ELSE active[x]]
      /\ history' = [x \in Key |-> IF x = k THEN history[x] \cup {a} ELSE history[x]]
      /\ status' = SettledWork(mid, work', art')
      /\ task' = SettledTasks(tk, status')
      /\ asg' = asg /\ outcome' = outcome /\ now' = now
      /\ status[c] \in {"BLOCKED", "READY"}
      /\ work' = [[work EXCEPT ![p] = provider] EXCEPT ![c].inputs = @ \cup {need}]
      /\ art' = [inv EXCEPT ![a] = asked]
  BY Zenon DEF ResolveArtifact
<1>3. hit => /\ a \in ArtId /\ a < nextArt /\ p \in WorkId /\ p < nextWork
             /\ art[a].state \in {"FUTURE", "CONCRETE"} /\ art[a].producer = p
  BY <1>1, ReusableHit
<1>4. /\ nextWork \in 1 .. MaxWork + 1 /\ nextArt \in 1 .. MaxArt + 1
      /\ ~hit => a = nextArt /\ p = nextWork
  BY DEF TInv, TypeOK
<1>5. a \in ArtId /\ p \in WorkId
  <2>1. CASE hit
    BY <1>3, <2>1
  <2>2. CASE ~hit
    <3>1. a = nextArt /\ p = nextWork /\ nextWork <= MaxWork /\ nextArt <= MaxArt
      BY <1>2, <1>4, <2>2
    <3> HIDE DEF a, p
    <3>2. QED
      BY <1>4, <3>1, BoundAssumption DEF ArtId, WorkId
  <2>3. QED
    BY <2>1, <2>2
<1>6. Stale(k, age) \subseteq ArtId /\ \A b \in Stale(k, age) : b < nextArt
  BY <1>1, StaleType
<1> HIDE DEF k, hit, a, p, mid, tk, asked, inv, provider, need
<1>7. inv \in [ArtId -> ArtRecord]
      /\ \A b \in ArtId : /\ inv[b].producer = art[b].producer
                          /\ b \notin Stale(k, age) => inv[b] = art[b]
                          /\ b \in Stale(k, age) => inv[b].state = "INVALIDATED"
  <2>1. art \in [ArtId -> ArtRecord]
    BY DEF TInv, TypeOK
  <2>2. QED
    BY <2>1 DEF inv, Invalidated, ArtRecord, ArtifactState
<1>8. work' \in [WorkId -> WorkRecord]
  <2>1. work \in [WorkId -> WorkRecord]
    BY DEF TInv, TypeOK
  <2>2. provider \in WorkRecord
    <3>1. \A r \in WorkRecord : [r EXCEPT !.tasks = @ \cup {t}] \in WorkRecord
      BY DEF WorkRecord
    <3>2. [NoWork EXCEPT !.agent = g, !.outs = {a}, !.tasks = {t}] \in WorkRecord
      BY <1>5 DEF NoWork, WorkRecord
    <3>3. QED
      BY <1>5, <2>1, <3>1, <3>2 DEF provider
  <2>3. \A r \in WorkRecord : [r EXCEPT !.inputs = @ \cup {need}] \in WorkRecord
    BY <1>5 DEF need, Requirement, WorkRecord
  <2>4. QED
    BY <1>2, <2>1, <2>2, <2>3
<1>9. art' \in [ArtId -> ArtRecord]
  <2>1. art[a] \in ArtRecord
    BY <1>5 DEF TInv, TypeOK
  <2>2. Joined(art[a], {c}, {t}) \in ArtRecord
    BY <2>1 DEF Joined, ArtRecord
  <2>3. [NoArtifact EXCEPT !.state = "FUTURE", !.producer = p, !.consumers = {c}, !.key = k, !.tasks = {t}]
          \in ArtRecord
    BY <1>1, <1>5 DEF NoArtifact, ArtRecord, ArtifactState
  <2>4. QED
    BY <1>2, <1>7, <2>2, <2>3 DEF asked
<1>10. /\ status' \in [WorkId -> WorkStatus]
       /\ \A v \in WorkId : status'[v] = "ABSENT" <=> mid[v] = "ABSENT"
  <2>1. mid \in [WorkId -> WorkStatus]
    BY DEF mid, TInv, TypeOK, WorkStatus
  <2>2. QED
    BY <1>2, <2>1, RefreshedWork
<1>11. task' \in [Task -> TaskRecord]
  <2>1. tk \in [Task -> TaskRecord]
    BY <1>5 DEF tk, TInv, TypeOK, TaskRecord
  <2>2. QED
    BY <1>2, <2>1, RefreshedTask
<1>12. edges' \subseteq Edge /\ active' \in [Key -> ArtId \cup {None}] /\ history' \in [Key -> SUBSET ArtId]
  BY <1>2, <1>5 DEF TInv, TypeOK, Edge
<1>13. nextWork' \in 1 .. MaxWork + 1 /\ nextArt' \in 1 .. MaxArt + 1
  BY <1>2, <1>4, BoundAssumption
<1>14. TypeOK'
  BY <1>2, <1>8, <1>9, <1>10, <1>11, <1>12, <1>13 DEF TInv, TypeOK
<1>15. \A v \in WorkId : status'[v] = "ABSENT" <=> v >= nextWork'
  <2>1. status \in [WorkId -> WorkStatus] /\ \A v \in WorkId : status[v] = "ABSENT" <=> v >= nextWork
    BY DEF TInv, TypeOK, Numbered
  <2>2. CASE hit
    BY <1>2, <1>10, <2>1, <2>2 DEF mid
  <2>3. CASE ~hit
    <3>1. p = nextWork /\ nextWork' = nextWork + 1 /\ mid = [status EXCEPT ![p] = "BLOCKED"]
      BY <1>2, <1>4, <2>3 DEF mid
    <3>2. \A v \in WorkId : mid[v] = "ABSENT" <=> v >= nextWork + 1
      BY <1>4, <2>1, <3>1 DEF WorkId
    <3>3. QED
      BY <1>10, <3>1, <3>2
  <2>4. QED
    BY <2>2, <2>3
<1>16. \A b \in ArtId : /\ art'[b].state = "ABSENT" <=> b >= nextArt'
                        /\ art'[b].state # "ABSENT" => art'[b].producer \in WorkId /\ art'[b].producer < nextWork'
  <2> SUFFICES ASSUME NEW b \in ArtId
               PROVE  /\ art'[b].state = "ABSENT" <=> b >= nextArt'
                      /\ art'[b].state # "ABSENT" => art'[b].producer \in WorkId /\ art'[b].producer < nextWork'
    OBVIOUS
  <2>1. CASE b = a /\ hit
    <3>1. art'[b] = Joined(art[b], {c}, {t}) /\ art[b] \in ArtRecord
      BY <1>2, <1>5, <1>7, <2>1 DEF asked, TInv, TypeOK
    <3>2. art'[b].state = art[b].state /\ art'[b].producer = p
      BY <1>3, <2>1, <3>1 DEF Joined, ArtRecord
    <3>3. QED
      BY <1>2, <1>3, <1>4, <2>1, <3>2 DEF ArtId
  <2>2. CASE b = a /\ ~hit
    <3>1. art'[b].state = "FUTURE" /\ art'[b].producer = p
      BY <1>2, <1>5, <1>7, <2>2 DEF asked, NoArtifact
    <3>2. QED
      BY <1>2, <1>4, <1>5, <2>2, <3>1 DEF ArtId, WorkId
  <2>3. CASE b # a
    <3>1. art'[b] = inv[b]
      BY <1>2, <1>5, <1>7, <2>3
    <3>2. /\ art[b].state = "ABSENT" <=> b >= nextArt
          /\ art[b].state # "ABSENT" => art[b].producer \in WorkId /\ art[b].producer < nextWork
      BY DEF TInv, Numbered
    <3>3. b >= nextArt' <=> b >= nextArt
      BY <1>2, <1>4, <2>3 DEF ArtId
    <3>4. art'[b].state = "ABSENT" <=> art[b].state = "ABSENT"
      BY <1>6, <1>7, <3>1, <3>2, <1>4 DEF ArtId
    <3>5. art'[b].producer = art[b].producer /\ nextWork <= nextWork'
      BY <1>2, <1>4, <1>7, <3>1
    <3>6. QED
      BY <1>4, <1>13, <3>2, <3>3, <3>4, <3>5 DEF WorkId
  <2>4. QED
    BY <2>1, <2>2, <2>3
<1>17. \A x \in Key : active'[x] # None => active'[x] < nextArt'
  BY <1>2, <1>3, <1>4 DEF TInv, TypeOK, Numbered, ArtId
<1>18. QED
  BY <1>14, <1>15, <1>16, <1>17 DEF TInv, Numbered

LEMMA TInvExpand ==
  ASSUME TInv, NEW w \in WorkId, NEW s \in Assignment, NEW g \in Agent, NEW i \in Identity \cup {None},
         NEW age \in Age, NEW d \in Draft, ExpandWork(w, s, g, i, age, d)
  PROVE  TInv'
<1> DEFINE ts == work[w].tasks
           k == ExpansionKey(i, ts)
           hit == Reusable(k, age)
           c == nextWork
           checkpoint == nextArt
           a == IF hit THEN active[k] ELSE nextArt + 1
           p == IF hit THEN art[a].producer ELSE nextWork + 1
           continuation == [agent |-> work[w].agent, preds |-> {w}, outs |-> {}, tasks |-> ts,
                            inputs |-> {[art |-> checkpoint, maxAge |-> None], [art |-> a, maxAge |-> age]}]
           provider == [NoWork EXCEPT !.agent = g, !.outs = {a}, !.tasks = ts]
           checkpointed == [state |-> "CONCRETE", producer |-> w, consumers |-> {c}, key |-> None, tasks |-> ts,
                            observedAt |-> SeenAt(d), validFrom |-> now, validUntil |-> d.validUntil]
           asked == [NoArtifact EXCEPT !.state = "FUTURE", !.producer = p, !.consumers = {c}, !.key = k, !.tasks = ts]
           inv == Invalidated(art, Stale(k, age))
           mid == [v \in WorkId |-> IF v = w THEN "DONE"
                                   ELSE IF v = c \/ (v = p /\ ~hit) THEN "BLOCKED" ELSE status[v]]
           tk == [t \in Task |->
                    IF t \in ts
                    THEN [task[t] EXCEPT !.terminals = Replace(@, w, c), !.work = @ \cup {p, c},
                                         !.arts = @ \cup {checkpoint, a}]
                    ELSE task[t]]
<1>1. /\ nextWork' = IF hit THEN nextWork + 1 ELSE nextWork + 2
      /\ nextArt' = IF hit THEN nextArt + 1 ELSE nextArt + 2
      /\ nextWork' <= MaxWork + 1 /\ nextArt' <= MaxArt + 1
      /\ work' = [v \in WorkId |->
           IF v = c THEN continuation
           ELSE IF v = p /\ ~hit THEN provider
           ELSE IF v = w THEN [work[w] EXCEPT !.outs = @ \cup {checkpoint}]
           ELSE IF <<"PRECEDES", w, v>> \in edges THEN [work[v] EXCEPT !.preds = Replace(@, w, c)]
           ELSE work[v]]
      /\ art' = [b \in ArtId |->
           IF b = checkpoint THEN checkpointed
           ELSE IF b = a /\ hit THEN Joined(art[a], {c}, ts)
           ELSE IF b = a THEN asked
           ELSE inv[b]]
      /\ edges' = Rewired(w, c) \cup
           {<<"PRODUCES", w, checkpoint>>, <<"CONSUMES", checkpoint, c>>, <<"PRODUCES", p, a>>,
            <<"CONSUMES", a, c>>, <<"PRECEDES", w, c>>}
      /\ active' = [x \in Key |-> IF x = k THEN a ELSE active[x]]
      /\ history' = [x \in Key |-> IF x = k THEN history[x] \cup {a} ELSE history[x]]
      /\ asg' = asg
      /\ outcome' = [outcome EXCEPT ![w] = "checkpoint"]
      /\ status' = SettledWork(mid, work', art')
      /\ task' = SettledTasks(tk, status')
      /\ now' = now
      /\ status[w] = "RUNNING"
      /\ ts # {}
  BY Zenon DEF ExpandWork, Holds
<1>2. ts \subseteq Task /\ work[w] \in WorkRecord
  BY DEF TInv, TypeOK, WorkRecord
<1>3. k \in Key \cup {None}
  <2>1. (CHOOSE t \in ts : TRUE) \in Task
    BY <1>1, <1>2
  <2>2. QED
    BY <2>1, KeyOfType DEF ExpansionKey
<1>4. hit => /\ a \in ArtId /\ a < nextArt /\ p \in WorkId /\ p < nextWork
             /\ art[a].state \in {"FUTURE", "CONCRETE"} /\ art[a].producer = p
  BY <1>3, ReusableHit
<1>5. /\ nextWork \in 1 .. MaxWork + 1 /\ nextArt \in 1 .. MaxArt + 1
      /\ c = nextWork /\ checkpoint = nextArt
      /\ ~hit => a = nextArt + 1 /\ p = nextWork + 1
  BY DEF TInv, TypeOK
<1>6. Stale(k, age) \subseteq ArtId /\ \A b \in Stale(k, age) : b < nextArt
  BY <1>3, StaleType
<1>7. SeenAt(d) \in Nat /\ d.validUntil \in Nat \cup {None} /\ now \in Nat
  <2>1. d \in [observedAt : Nat \cup {None}, validUntil : Nat \cup {None}]
    BY DraftAssumption
  <2>2. now \in Nat
    BY DEF TInv, TypeOK, Time
  <2>3. QED
    BY <2>1, <2>2 DEF SeenAt
<1>8. w < nextWork /\ w \in 1 .. MaxWork
  <2>1. ~(w >= nextWork)
    BY <1>1 DEF TInv, Numbered
  <2>2. QED
    BY <1>5, <2>1, BoundAssumption DEF WorkId
<1> HIDE DEF ts, k, hit, c, checkpoint, a, p, continuation, provider, checkpointed, asked, inv, mid, tk
<1>9. /\ a \in ArtId /\ p \in WorkId /\ c \in WorkId /\ checkpoint \in ArtId
      /\ nextWork' \in 1 .. MaxWork + 1 /\ nextArt' \in 1 .. MaxArt + 1
      /\ nextWork < nextWork' /\ nextArt < nextArt' /\ p < nextWork' /\ a < nextArt' /\ w < nextWork'
  <2> USE BoundAssumption
  <2>1. CASE hit
    <3>1. nextWork' = nextWork + 1 /\ nextArt' = nextArt + 1 /\ nextWork' <= MaxWork + 1 /\ nextArt' <= MaxArt + 1
      BY <1>1, <2>1
    <3>2. a \in ArtId /\ a < nextArt /\ p \in WorkId /\ p < nextWork
      BY <1>4, <2>1
    <3>3. QED
      BY <1>5, <1>8, <3>1, <3>2 DEF ArtId, WorkId
  <2>2. CASE ~hit
    <3>1. nextWork' = nextWork + 2 /\ nextArt' = nextArt + 2 /\ nextWork' <= MaxWork + 1 /\ nextArt' <= MaxArt + 1
      BY <1>1, <2>2
    <3>2. a = nextArt + 1 /\ p = nextWork + 1
      BY <1>5, <2>2
    <3>3. QED
      BY <1>5, <1>8, <3>1, <3>2 DEF ArtId, WorkId
  <2>3. QED
    BY <2>1, <2>2
<1>10. \A S \in SUBSET WorkId : Replace(S, w, c) \in SUBSET WorkId
  BY <1>9 DEF Replace
<1>11. /\ inv \in [ArtId -> ArtRecord]
       /\ \A b \in ArtId : /\ inv[b].producer = art[b].producer
                           /\ b \notin Stale(k, age) => inv[b] = art[b]
                           /\ b \in Stale(k, age) => inv[b].state = "INVALIDATED"
  <2>1. art \in [ArtId -> ArtRecord]
    BY DEF TInv, TypeOK
  <2>2. QED
    BY <2>1 DEF inv, Invalidated, ArtRecord, ArtifactState
<1>12. work' \in [WorkId -> WorkRecord]
  <2>1. work \in [WorkId -> WorkRecord]
    BY DEF TInv, TypeOK
  <2>2. continuation \in WorkRecord
    BY <1>2, <1>9 DEF continuation, WorkRecord, Requirement, Age
  <2>3. provider \in WorkRecord
    BY <1>2, <1>9 DEF provider, NoWork, WorkRecord
  <2>4. \A r \in WorkRecord : [r EXCEPT !.outs = @ \cup {checkpoint}] \in WorkRecord
    BY <1>9 DEF WorkRecord
  <2>5. \A r \in WorkRecord : [r EXCEPT !.preds = Replace(@, w, c)] \in WorkRecord
    BY <1>10 DEF WorkRecord
  <2>6. QED
    BY <1>1, <2>1, <2>2, <2>3, <2>4, <2>5
<1>13. art' \in [ArtId -> ArtRecord]
  <2>1. checkpointed \in ArtRecord
    BY <1>2, <1>7, <1>9 DEF checkpointed, ArtRecord, ArtifactState
  <2>2. Joined(art[a], {c}, ts) \in ArtRecord
    <3>1. art[a] \in ArtRecord
      BY <1>9 DEF TInv, TypeOK
    <3>2. QED
      BY <1>2, <1>9, <3>1 DEF Joined, ArtRecord
  <2>3. asked \in ArtRecord
    BY <1>2, <1>3, <1>9 DEF asked, NoArtifact, ArtRecord, ArtifactState
  <2>4. QED
    BY <1>1, <1>11, <2>1, <2>2, <2>3
<1>14. /\ status' \in [WorkId -> WorkStatus]
       /\ \A v \in WorkId : status'[v] = "ABSENT" <=> mid[v] = "ABSENT"
  <2>1. mid \in [WorkId -> WorkStatus]
    BY DEF mid, TInv, TypeOK, WorkStatus
  <2>2. QED
    BY <1>1, <2>1, RefreshedWork
<1>15. task' \in [Task -> TaskRecord]
  <2>1. tk \in [Task -> TaskRecord]
    <3>1. task \in [Task -> TaskRecord]
      BY DEF TInv, TypeOK
    <3>2. \A r \in TaskRecord :
            [r EXCEPT !.terminals = Replace(@, w, c), !.work = @ \cup {p, c}, !.arts = @ \cup {checkpoint, a}]
              \in TaskRecord
      BY <1>9, <1>10 DEF TaskRecord
    <3>3. QED
      BY <3>1, <3>2 DEF tk
  <2>2. QED
    BY <1>1, <2>1, RefreshedTask
<1>16. edges' \subseteq Edge
  <2>1. Rewired(w, c) \subseteq Edge
    BY <1>9 DEF Rewired, Edge, TInv, TypeOK
  <2>2. QED
    BY <1>1, <1>9, <2>1 DEF Edge
<1>17. active' \in [Key -> ArtId \cup {None}] /\ history' \in [Key -> SUBSET ArtId]
  BY <1>1, <1>9 DEF TInv, TypeOK
<1>18. TypeOK'
  BY <1>1, <1>9, <1>12, <1>13, <1>14, <1>15, <1>16, <1>17 DEF TInv, TypeOK
<1>19. \A v \in WorkId : status'[v] = "ABSENT" <=> v >= nextWork'
  <2>1. \A v \in WorkId : status[v] = "ABSENT" <=> v >= nextWork
    BY DEF TInv, Numbered
  <2>2. ASSUME NEW v \in WorkId PROVE mid[v] = "ABSENT" <=> v >= nextWork'
    <3>1. CASE v = w \/ v = c \/ (v = p /\ ~hit)
      <4>1. mid[v] # "ABSENT"
        BY <3>1 DEF mid
      <4>2. v < nextWork'
        BY <1>5, <1>9, <3>1
      <4>3. QED
        BY <1>9, <4>1, <4>2 DEF WorkId
    <3>2. CASE ~(v = w \/ v = c \/ (v = p /\ ~hit))
      <4>1. mid[v] = status[v]
        BY <3>2 DEF mid
      <4>2. v >= nextWork <=> v >= nextWork'
        BY <1>1, <1>5, <3>2 DEF WorkId
      <4>3. QED
        BY <2>1, <4>1, <4>2
    <3>3. QED
      BY <3>1, <3>2
  <2>3. QED
    BY <1>14, <2>2
<1>20. ASSUME NEW b \in ArtId
       PROVE  /\ art'[b].state = "ABSENT" <=> b >= nextArt'
              /\ art'[b].state # "ABSENT" => art'[b].producer \in WorkId /\ art'[b].producer < nextWork'
  <2>1. CASE b = checkpoint
    <3>1. art'[b].state = "CONCRETE" /\ art'[b].producer = w
      BY <1>1, <2>1 DEF checkpointed
    <3>2. QED
      BY <1>1, <1>5, <1>8, <1>9, <2>1, <3>1 DEF WorkId, ArtId
  <2>2. CASE b = a /\ hit
    <3>1. art'[b] = Joined(art[b], {c}, ts) /\ art[b] \in ArtRecord
      <4>1. b # checkpoint /\ b = a /\ hit
        BY <1>4, <1>5, <2>2 DEF ArtId
      <4>2. QED
        BY <1>1, <4>1 DEF TInv, TypeOK
    <3>2. art'[b].state = art[b].state /\ art'[b].producer = p
      BY <1>4, <2>2, <3>1 DEF Joined, ArtRecord
    <3>3. art[b].state \in {"FUTURE", "CONCRETE"} /\ p < nextWork' /\ b < nextArt'
      BY <1>4, <1>9, <2>2
    <3>4. QED
      BY <1>9, <3>2, <3>3 DEF ArtId
  <2>3. CASE b = a /\ ~hit
    <3>1. art'[b].state = "FUTURE" /\ art'[b].producer = p
      BY <1>1, <1>5, <2>3 DEF asked, NoArtifact
    <3>2. QED
      BY <1>1, <1>5, <1>9, <2>3, <3>1 DEF ArtId, WorkId
  <2>4. CASE b # a /\ b # checkpoint
    <3>1. art'[b] = inv[b]
      BY <1>1, <2>4
    <3>2. /\ art[b].state = "ABSENT" <=> b >= nextArt
          /\ art[b].state # "ABSENT" => art[b].producer \in WorkId /\ art[b].producer < nextWork
      BY DEF TInv, Numbered
    <3>3. b >= nextArt' <=> b >= nextArt
      <4>1. CASE hit
        BY <1>1, <1>5, <2>4, <4>1 DEF ArtId
      <4>2. CASE ~hit
        BY <1>1, <1>5, <2>4, <4>2 DEF ArtId
      <4>3. QED
        BY <4>1, <4>2
    <3>4. art'[b].state = "ABSENT" <=> art[b].state = "ABSENT"
      BY <1>5, <1>6, <1>11, <3>1, <3>2 DEF ArtId
    <3>5. art'[b].producer = art[b].producer /\ nextWork < nextWork'
      BY <1>9, <1>11, <3>1
    <3>6. QED
      BY <1>5, <1>9, <3>2, <3>3, <3>4, <3>5 DEF WorkId
  <2>5. QED
    BY <2>1, <2>2, <2>3, <2>4
<1>21. \A x \in Key : active'[x] # None => active'[x] < nextArt'
  BY <1>1, <1>4, <1>5 DEF TInv, TypeOK, Numbered, ArtId
<1>22. QED
  BY <1>18, <1>19, <1>20, <1>21 DEF TInv, Numbered

-----------------------------------------------------------------------------
(* A submission.                                                           *)

\* What the new nodes of a fragment, and the nodes it joins, are numbered.
Located(t, f, m, n, lastWork, lastArt) ==
  /\ \A i \in DOMAIN f.artifacts :
       /\ GlobalArt(f, t, n)[i] \in ArtId
       /\ GlobalArt(f, t, n)[i] <= lastArt
       /\ i \in Hits(f, t) => GlobalArt(f, t, n)[i] < nextArt
       /\ i \notin Hits(f, t) => GlobalArt(f, t, n)[i] = n[i]
       /\ FragmentKeys(f, t)[i] \in Key \cup {None}
       /\ f.artifacts[i] \in ArtifactSpec
  /\ \A l \in DOMAIN f.work :
       /\ GlobalWork(f, t, m)[l] \in WorkId
       /\ GlobalWork(f, t, m)[l] <= lastWork
       /\ f.work[l] \in Agent
  /\ {m[l] : l \in FreshWork(f, t)} = nextWork .. lastWork
  /\ {n[i] : i \in DOMAIN f.artifacts \ Hits(f, t)} = nextArt .. lastArt

LEMMA LocalMaps ==
  ASSUME TInv, NEW t \in Task, NEW f \in Fragment,
         NEW lastWork \in nextWork - 1 .. MaxWork, NEW lastArt \in nextArt - 1 .. MaxArt,
         NEW m \in Numberings(FreshWork(f, t), nextWork, lastWork),
         NEW n \in Numberings(DOMAIN f.artifacts \ Hits(f, t), nextArt, lastArt)
  PROVE  Located(t, f, m, n, lastWork, lastArt)
<1> DEFINE specs == DOMAIN f.artifacts
           keys == FragmentKeys(f, t)
           A == GlobalArt(f, t, n)
           W == GlobalWork(f, t, m)
           fresh == FreshWork(f, t)
           hits == Hits(f, t)
<1> USE BoundAssumption
<1>1. f.work \in Seq(Agent) /\ f.artifacts \in Seq(ArtifactSpec)
  BY FragmentAssumption
<1>2. /\ \A i \in specs : f.artifacts[i] \in ArtifactSpec
      /\ \A l \in DOMAIN f.work : f.work[l] \in Agent
  BY <1>1
<1>3. nextWork \in 1 .. MaxWork + 1 /\ nextArt \in 1 .. MaxArt + 1
  BY DEF TInv, TypeOK
<1>4. \A i \in specs : keys[i] \in Key \cup {None}
  <2> SUFFICES ASSUME NEW i \in specs PROVE keys[i] \in Key \cup {None}
    OBVIOUS
  <2>1. keys[i] = KeyOf(f.artifacts[i].identity, t) /\ f.artifacts[i].identity \in Identity \cup {None}
    BY <1>2 DEF FragmentKeys, ArtifactSpec
  <2>2. QED
    BY <2>1, KeyOfType
<1>5. \A i \in hits : /\ i \in specs
                      /\ active[keys[i]] \in ArtId /\ active[keys[i]] < nextArt
                      /\ art[active[keys[i]]].producer \in WorkId /\ art[active[keys[i]]].producer < nextWork
  <2> SUFFICES ASSUME NEW i \in hits
               PROVE  /\ i \in specs
                      /\ active[keys[i]] \in ArtId /\ active[keys[i]] < nextArt
                      /\ art[active[keys[i]]].producer \in WorkId /\ art[active[keys[i]]].producer < nextWork
    OBVIOUS
  <2>1. i \in specs /\ Reusable(keys[i], f.artifacts[i].maxAge)
    BY DEF Hits
  <2>2. keys[i] \in Key \cup {None}
    BY <1>4, <2>1
  <2> HIDE DEF keys
  <2>3. QED
    BY <2>1, <2>2, ReusableHit
<1>6. /\ m \in [fresh -> nextWork .. lastWork] /\ \A x \in nextWork .. lastWork : \E l \in fresh : m[l] = x
      /\ n \in [specs \ hits -> nextArt .. lastArt] /\ \A x \in nextArt .. lastArt : \E i \in specs \ hits : n[i] = x
  BY DEF Numberings
<1>7. {m[l] : l \in fresh} = nextWork .. lastWork /\ {n[i] : i \in specs \ hits} = nextArt .. lastArt
  <2> HIDE DEF fresh, specs, hits
  <2>1. QED
    BY <1>6
<1>8. ASSUME NEW i \in specs
      PROVE  A[i] \in ArtId /\ A[i] <= lastArt /\ (i \in hits => A[i] < nextArt) /\ (i \notin hits => A[i] = n[i])
  <2>1. A[i] = IF i \in hits THEN active[keys[i]] ELSE n[i]
    BY DEF GlobalArt
  <2> HIDE DEF A, keys, hits, specs
  <2>2. CASE i \in hits
    <3>1. active[keys[i]] \in ArtId /\ active[keys[i]] < nextArt
      BY <1>5, <2>2
    <3>2. QED
      BY <1>3, <2>1, <2>2, <3>1 DEF ArtId
  <2>3. CASE i \notin hits
    <3>1. n[i] \in nextArt .. lastArt
      BY <1>6, <2>3
    <3>2. QED
      BY <1>3, <2>1, <2>3, <3>1 DEF ArtId
  <2>4. QED
    BY <2>2, <2>3
<1>9. ASSUME NEW l \in DOMAIN f.work
      PROVE  W[l] \in WorkId /\ W[l] <= lastWork
  <2> DEFINE h == CHOOSE i \in hits : f.artifacts[i].producer = l
  <2>1. W[l] = IF l \in fresh THEN m[l] ELSE art[active[keys[h]]].producer
    BY DEF GlobalWork
  <2>2. l \notin fresh => h \in hits
    BY DEF FreshWork
  <2> HIDE DEF W, keys, hits, specs, fresh, h
  <2>3. CASE l \in fresh
    <3>1. m[l] \in nextWork .. lastWork
      BY <1>6, <2>3
    <3>2. QED
      BY <1>3, <2>1, <2>3, <3>1 DEF WorkId
  <2>4. CASE l \notin fresh
    <3>1. W[l] \in WorkId /\ W[l] < nextWork
      BY <1>5, <2>1, <2>2, <2>4
    <3>2. QED
      BY <1>3, <3>1 DEF WorkId
  <2>5. QED
    BY <2>3, <2>4
<1>10. QED
  BY <1>2, <1>4, <1>7, <1>8, <1>9 DEF Located

\* What _validate_fragment checks of the local positions
LEMMA FragmentShape ==
  ASSUME NEW f, ValidFragment(f)
  PROVE  /\ f.control \subseteq (DOMAIN f.work) \X (DOMAIN f.work)
         /\ \A i \in DOMAIN f.artifacts :
              f.artifacts[i].producer \in DOMAIN f.work /\ f.artifacts[i].consumers \subseteq DOMAIN f.work
         /\ f.terminals \subseteq DOMAIN f.work
<1> DEFINE locals == DOMAIN f.work
           specs == DOMAIN f.artifacts
<1>1. /\ f.control \subseteq locals \X locals
      /\ f.terminals \subseteq locals
      /\ \A i \in specs : f.artifacts[i].producer \in locals /\ f.artifacts[i].consumers \subseteq locals
  BY Zenon DEF ValidFragment
<1>2. QED
  BY <1>1

LEMMA TInvGraft ==
  ASSUME TInv, NEW t \in Task, NEW f \in Fragment, ValidFragment(f),
         NEW lastWork \in nextWork - 1 .. MaxWork, NEW lastArt \in nextArt - 1 .. MaxArt,
         NEW m \in Numberings(FreshWork(f, t), nextWork, lastWork),
         NEW n \in Numberings(DOMAIN f.artifacts \ Hits(f, t), nextArt, lastArt),
         Graft(t, f, m, n), nextWork' = lastWork + 1, nextArt' = lastArt + 1, now' = now
  PROVE  TInv'
<1>1. Located(t, f, m, n, lastWork, lastArt)
  BY LocalMaps
<1>2. /\ f.control \subseteq (DOMAIN f.work) \X (DOMAIN f.work)
      /\ \A i \in DOMAIN f.artifacts :
           f.artifacts[i].producer \in DOMAIN f.work /\ f.artifacts[i].consumers \subseteq DOMAIN f.work
      /\ f.terminals \subseteq DOMAIN f.work
  BY FragmentShape
<1> DEFINE A == GlobalArt(f, t, n)
           W == GlobalWork(f, t, m)
           keys == FragmentKeys(f, t)
           specs == DOMAIN f.artifacts
           fresh == FreshWork(f, t)
           new == specs \ Hits(f, t)
           stale == UNION {Stale(keys[i], f.artifacts[i].maxAge) : i \in specs}
           created == {m[l] : l \in fresh}
           Consumers(i) == {W[l] : l \in f.artifacts[i].consumers}
           Joining(a) == UNION {Consumers(i) : i \in {j \in specs : A[j] = a}}
           Registered(x) == {i \in new : keys[i] = x}
           inv == Invalidated(art, stale)
           asked(i) == [NoArtifact EXCEPT !.state = "FUTURE", !.producer = W[f.artifacts[i].producer],
                                          !.consumers = Consumers(i), !.key = keys[i], !.tasks = {t}]
           mid == [v \in WorkId |-> IF v \in created THEN "BLOCKED" ELSE status[v]]
           tk == [task EXCEPT ![t] =
                    [status |-> "ACTIVE", terminals |-> Terminals(f, W, edges'),
                     work |-> {W[l] : l \in DOMAIN W}, arts |-> {A[i] : i \in specs}]]
<1>4. /\ work' = [v \in WorkId |->
           [agent  |-> IF v \in created THEN f.work[CHOOSE l \in fresh : m[l] = v] ELSE work[v].agent,
            preds  |-> work[v].preds \cup {W[e[1]] : e \in {x \in f.control : W[x[2]] = v}},
            inputs |-> work[v].inputs \cup {[art |-> A[i], maxAge |-> f.artifacts[i].maxAge] :
                                              i \in {j \in specs : v \in Consumers(j)}},
            outs   |-> work[v].outs \cup {A[i] : i \in {j \in new : W[f.artifacts[j].producer] = v}},
            tasks  |-> work[v].tasks \cup {x \in {t} : \E l \in DOMAIN W : W[l] = v}]]
      /\ asg' = asg /\ outcome' = outcome
      /\ art' = [a \in ArtId |->
           IF \E i \in new : n[i] = a THEN asked(CHOOSE j \in new : n[j] = a)
           ELSE Joined(inv[a], Joining(a), {x \in {t} : \E i \in specs : A[i] = a})]
      /\ edges' = edges
           \cup {<<"PRECEDES", W[e[1]], W[e[2]]>> : e \in f.control}
           \cup {<<"PRODUCES", W[f.artifacts[i].producer], A[i]>> : i \in new}
           \cup UNION {{<<"CONSUMES", A[i], v>> : v \in Consumers(i)} : i \in specs}
      /\ active' = [x \in Key |-> IF Registered(x) # {} THEN A[CHOOSE i \in Registered(x) : TRUE]
                                  ELSE Retired(active, stale)[x]]
      /\ history' = [x \in Key |-> history[x] \cup {A[i] : i \in Registered(x)}]
      /\ status' = SettledWork(mid, work', art')
      /\ task' = SettledTasks(tk, status')
  BY Zenon DEF Graft
<1>5. /\ \A i \in specs : /\ A[i] \in ArtId
                          /\ A[i] <= lastArt
                          /\ i \notin new => A[i] < nextArt
                          /\ i \in new => A[i] = n[i]
                          /\ keys[i] \in Key \cup {None}
                          /\ f.artifacts[i] \in ArtifactSpec
      /\ \A l \in DOMAIN f.work : W[l] \in WorkId /\ W[l] <= lastWork /\ f.work[l] \in Agent
      /\ created = nextWork .. lastWork
      /\ {n[i] : i \in new} = nextArt .. lastArt
  <2>1. \A i \in specs : i \notin new <=> i \in Hits(f, t)
    BY DEF Hits
  <2> HIDE DEF new
  <2>2. QED
    BY <1>1, <2>1 DEF Located, new
<1>6. /\ f.control \subseteq (DOMAIN f.work) \X (DOMAIN f.work)
      /\ \A i \in specs : f.artifacts[i].producer \in DOMAIN f.work /\ f.artifacts[i].consumers \subseteq DOMAIN f.work
      /\ f.terminals \subseteq DOMAIN f.work
      /\ fresh \subseteq DOMAIN f.work
      /\ DOMAIN W = DOMAIN f.work
  <2>1. fresh \subseteq DOMAIN f.work
    BY DEF FreshWork
  <2>2. DOMAIN W = DOMAIN f.work
    BY DEF GlobalWork
  <2> HIDE DEF W, fresh
  <2>3. QED
    BY <1>2, <2>1, <2>2
<1>7. stale \subseteq ArtId /\ \A b \in stale : b < nextArt
  <2>1. \A i \in specs : /\ Stale(keys[i], f.artifacts[i].maxAge) \subseteq ArtId
                         /\ \A b \in Stale(keys[i], f.artifacts[i].maxAge) : b < nextArt
    <3> HIDE DEF keys, specs
    <3>1. QED
      BY <1>5, StaleType
  <2>2. QED
    BY <2>1
<1>8. /\ nextWork \in 1 .. MaxWork + 1 /\ nextArt \in 1 .. MaxArt + 1
      /\ lastWork \in nextWork - 1 .. MaxWork /\ lastArt \in nextArt - 1 .. MaxArt
      /\ nextWork' = lastWork + 1 /\ nextArt' = lastArt + 1
  BY DEF TInv, TypeOK
<1> HIDE DEF A, W, keys, specs, fresh, new, stale, created, inv, mid, tk
<1>9. new \subseteq specs
  BY DEF new
<1>10. /\ \A i \in specs : Consumers(i) \in SUBSET WorkId
       /\ \A a : Joining(a) \in SUBSET WorkId
       /\ {W[l] : l \in DOMAIN W} \in SUBSET WorkId
       /\ {A[i] : i \in specs} \in SUBSET ArtId
  BY <1>5, <1>6
<1> HIDE DEF Consumers, Joining
<1>11. /\ inv \in [ArtId -> ArtRecord]
       /\ \A b \in ArtId : /\ inv[b].producer = art[b].producer
                           /\ b \notin stale => inv[b] = art[b]
                           /\ b \in stale => inv[b].state = "INVALIDATED"
  <2>1. art \in [ArtId -> ArtRecord]
    BY DEF TInv, TypeOK
  <2>2. QED
    BY <2>1 DEF inv, Invalidated, ArtRecord, ArtifactState
<1>12. work' \in [WorkId -> WorkRecord]
  <2> DEFINE agent(v)  == IF v \in created THEN f.work[CHOOSE l \in fresh : m[l] = v] ELSE work[v].agent
             preds(v)  == work[v].preds \cup {W[e[1]] : e \in {x \in f.control : W[x[2]] = v}}
             inputs(v) == work[v].inputs \cup {[art |-> A[i], maxAge |-> f.artifacts[i].maxAge] :
                                                 i \in {j \in specs : v \in Consumers(j)}}
             outs(v)   == work[v].outs \cup {A[i] : i \in {j \in new : W[f.artifacts[j].producer] = v}}
             tasks(v)  == work[v].tasks \cup {x \in {t} : \E l \in DOMAIN W : W[l] = v}
  <2>1. ASSUME NEW v \in WorkId
        PROVE  /\ agent(v) \in Agent \cup {None}
               /\ preds(v) \in SUBSET WorkId
               /\ inputs(v) \in SUBSET Requirement
               /\ outs(v) \in SUBSET ArtId
               /\ tasks(v) \in SUBSET Task
    <3>1. work[v] \in WorkRecord
      BY DEF TInv, TypeOK
    <3>2. agent(v) \in Agent \cup {None}
      <4>1. CASE v \in created
        <5>1. (CHOOSE l \in fresh : m[l] = v) \in fresh
          BY <4>1 DEF created
        <5>2. f.work[CHOOSE l \in fresh : m[l] = v] \in Agent
          BY <1>5, <1>6, <5>1
        <5>3. QED
          BY <4>1, <5>2
      <4>2. CASE v \notin created
        BY <3>1, <4>2 DEF WorkRecord
      <4>3. QED
        BY <4>1, <4>2
    <3>3. preds(v) \in SUBSET WorkId
      <4>1. \A e \in f.control : W[e[1]] \in WorkId
        <5> DEFINE locals == DOMAIN f.work
        <5>1. f.control \subseteq locals \X locals /\ \A l \in locals : W[l] \in WorkId
          BY <1>5, <1>6
        <5> HIDE DEF locals
        <5>2. QED
          BY <5>1
      <4>2. QED
        BY <3>1, <4>1 DEF WorkRecord
    <3>4. inputs(v) \in SUBSET Requirement
      <4>1. \A i \in specs : [art |-> A[i], maxAge |-> f.artifacts[i].maxAge] \in Requirement
        BY <1>5 DEF Requirement, ArtifactSpec
      <4>2. QED
        BY <3>1, <4>1 DEF WorkRecord
    <3>5. outs(v) \in SUBSET ArtId
      BY <1>5, <1>9, <3>1 DEF WorkRecord
    <3>6. tasks(v) \in SUBSET Task
      BY <3>1 DEF WorkRecord
    <3>7. QED
      BY <3>2, <3>3, <3>4, <3>5, <3>6
  <2>2. work' = [v \in WorkId |->
          [agent |-> agent(v), preds |-> preds(v), inputs |-> inputs(v), outs |-> outs(v), tasks |-> tasks(v)]]
    BY <1>4
  <2> HIDE DEF agent, preds, inputs, outs, tasks
  <2>3. QED
    BY <2>1, <2>2 DEF WorkRecord
<1>13. \A i \in specs : asked(i) \in ArtRecord /\ asked(i).state = "FUTURE" /\ asked(i).producer = W[f.artifacts[i].producer]
  <2>1. \A i \in specs : W[f.artifacts[i].producer] \in WorkId
    BY <1>5, <1>6
  <2>2. QED
    BY <1>5, <1>10, <2>1 DEF NoArtifact, ArtRecord, ArtifactState
<1> HIDE DEF asked
<1>14. ASSUME NEW a \in ArtId
       PROVE  /\ (\E i \in new : n[i] = a) <=> a \in nextArt .. lastArt
              /\ a \in nextArt .. lastArt => \E i \in new : art'[a] = asked(i)
              /\ a \notin nextArt .. lastArt =>
                   art'[a] = Joined(inv[a], Joining(a), {x \in {t} : \E i \in specs : A[i] = a})
  <2>1. (\E i \in new : n[i] = a) <=> a \in nextArt .. lastArt
    BY <1>5
  <2>2. CASE a \in nextArt .. lastArt
    <3>1. (CHOOSE j \in new : n[j] = a) \in new
      BY <2>1, <2>2
    <3>2. art'[a] = asked(CHOOSE j \in new : n[j] = a)
      BY <1>4, <2>1, <2>2
    <3>3. QED
      BY <2>1, <2>2, <3>1, <3>2
  <2>3. CASE a \notin nextArt .. lastArt
    BY <1>4, <2>1, <2>3
  <2>4. QED
    BY <2>2, <2>3
<1>15. \A a \in ArtId : \A cs \in SUBSET WorkId, ts \in SUBSET Task :
         /\ Joined(inv[a], cs, ts) \in ArtRecord
         /\ Joined(inv[a], cs, ts).state = inv[a].state
         /\ Joined(inv[a], cs, ts).producer = inv[a].producer
  BY <1>11 DEF Joined, ArtRecord
<1>16. art' \in [ArtId -> ArtRecord]
  <2>1. ASSUME NEW a \in ArtId PROVE art'[a] \in ArtRecord
    <3>1. {x \in {t} : \E i \in specs : A[i] = a} \in SUBSET Task
      OBVIOUS
    <3>2. CASE a \in nextArt .. lastArt
      BY <1>9, <1>13, <1>14, <3>2
    <3>3. CASE a \notin nextArt .. lastArt
      <4>1. art'[a] = Joined(inv[a], Joining(a), {x \in {t} : \E i \in specs : A[i] = a})
        BY <1>14, <3>3
      <4>2. Joining(a) \in SUBSET WorkId
        BY <1>10
      <4>3. QED
        BY <1>15, <3>1, <4>1, <4>2
    <3>4. QED
      BY <3>2, <3>3
  <2>2. art' = [a \in ArtId |-> art'[a]]
    BY <1>4
  <2>3. QED
    BY <2>1, <2>2

<1>17. edges' \subseteq Edge
  <2>1. {<<"PRECEDES", W[e[1]], W[e[2]]>> : e \in f.control} \subseteq Edge
    <3> DEFINE locals == DOMAIN f.work
    <3>1. f.control \subseteq locals \X locals /\ \A l \in locals : W[l] \in WorkId
      BY <1>5, <1>6
    <3> HIDE DEF locals
    <3>2. \A e \in f.control : W[e[1]] \in WorkId /\ W[e[2]] \in WorkId
      BY <3>1
    <3>3. QED
      BY <3>2 DEF Edge
  <2>2. {<<"PRODUCES", W[f.artifacts[i].producer], A[i]>> : i \in new} \subseteq Edge
    <3>1. \A i \in new : W[f.artifacts[i].producer] \in WorkId /\ A[i] \in ArtId
      BY <1>5, <1>6, <1>9
    <3>2. QED
      BY <3>1 DEF Edge
  <2>3. UNION {{<<"CONSUMES", A[i], v>> : v \in Consumers(i)} : i \in specs} \subseteq Edge
    <3>1. \A i \in specs : A[i] \in ArtId /\ Consumers(i) \subseteq WorkId
      BY <1>5, <1>10
    <3>2. QED
      BY <3>1 DEF Edge
  <2>4. edges \subseteq Edge
    BY DEF TInv, TypeOK
  <2>5. QED
    BY <1>4, <2>1, <2>2, <2>3, <2>4
<1>18. /\ active' \in [Key -> ArtId \cup {None}] /\ history' \in [Key -> SUBSET ArtId]
       /\ \A x \in Key : active'[x] # None => active'[x] < nextArt'
  <2>1. \A x : Registered(x) \subseteq specs
    BY <1>9
  <2> HIDE DEF Registered
  <2>2. ASSUME NEW x \in Key
        PROVE  /\ active'[x] \in ArtId \cup {None} /\ history'[x] \in SUBSET ArtId
               /\ active'[x] # None => active'[x] < nextArt'
    <3>1. history[x] \in SUBSET ArtId /\ active[x] \in ArtId \cup {None} /\ (active[x] # None => active[x] < nextArt)
      BY DEF TInv, TypeOK, Numbered
    <3>2. history'[x] \in SUBSET ArtId
      <4>1. {A[i] : i \in Registered(x)} \in SUBSET ArtId
        BY <1>5, <2>1
      <4>2. QED
        BY <1>4, <3>1, <4>1
    <3>3. CASE Registered(x) # {}
      <4>1. (CHOOSE i \in Registered(x) : TRUE) \in specs
        BY <2>1, <3>3
      <4>2. active'[x] = A[CHOOSE i \in Registered(x) : TRUE]
        BY <1>4, <3>3
      <4>3. active'[x] \in ArtId /\ active'[x] <= lastArt
        BY <1>5, <4>1, <4>2
      <4>4. QED
        BY <1>8, <3>2, <4>3 DEF ArtId
    <3>4. CASE Registered(x) = {}
      <4>1. active'[x] = Retired(active, stale)[x]
        BY <1>4, <3>4
      <4>2. active'[x] \in {active[x], None}
        BY <4>1 DEF Retired
      <4>3. QED
        BY <1>8, <3>1, <3>2, <4>2 DEF ArtId
    <3>5. QED
      BY <3>3, <3>4
  <2>3. active' = [x \in Key |-> active'[x]] /\ history' = [x \in Key |-> history'[x]]
    BY <1>4
  <2>4. QED
    BY <2>2, <2>3
<1>19. /\ status' \in [WorkId -> WorkStatus]
       /\ \A v \in WorkId : status'[v] = "ABSENT" <=> mid[v] = "ABSENT"
  <2>1. mid \in [WorkId -> WorkStatus]
    BY DEF mid, TInv, TypeOK, WorkStatus
  <2>2. QED
    BY <1>4, <2>1, RefreshedWork
<1>20. task' \in [Task -> TaskRecord]
  <2>1. Terminals(f, W, edges') \in SUBSET WorkId
    <3>1. {W[l] : l \in f.terminals} \in SUBSET WorkId
      BY <1>5, <1>6
    <3>2. QED
      BY <1>10, <3>1 DEF Terminals
  <2>2. [status |-> "ACTIVE", terminals |-> Terminals(f, W, edges'),
         work |-> {W[l] : l \in DOMAIN W}, arts |-> {A[i] : i \in specs}] \in TaskRecord
    BY <1>10, <2>1 DEF TaskRecord, TaskStatus
  <2>3. tk \in [Task -> TaskRecord]
    BY <2>2 DEF tk, TInv, TypeOK
  <2>4. QED
    BY <1>4, <2>3, RefreshedTask
<1>21. nextWork' \in 1 .. MaxWork + 1 /\ nextArt' \in 1 .. MaxArt + 1
       /\ nextWork <= nextWork' /\ nextArt <= nextArt'
  BY <1>8, BoundAssumption
<1>22. TypeOK'
  BY <1>4, <1>12, <1>16, <1>17, <1>18, <1>19, <1>20, <1>21 DEF TInv, TypeOK
<1>23. ASSUME NEW v \in WorkId PROVE status'[v] = "ABSENT" <=> v >= nextWork'
  <2>1. status[v] = "ABSENT" <=> v >= nextWork
    BY DEF TInv, Numbered
  <2>2. CASE v \in created
    <3>1. mid[v] = "BLOCKED" /\ v \in nextWork .. lastWork
      BY <1>5, <2>2 DEF mid
    <3>2. QED
      BY <1>8, <1>19, <3>1
  <2>3. CASE v \notin created
    <3>1. mid[v] = status[v] /\ v \notin nextWork .. lastWork
      BY <1>5, <2>3 DEF mid
    <3>2. QED
      BY <1>8, <1>19, <2>1, <3>1 DEF WorkId
  <2>4. QED
    BY <2>2, <2>3
<1>24. ASSUME NEW b \in ArtId
       PROVE  /\ art'[b].state = "ABSENT" <=> b >= nextArt'
              /\ art'[b].state # "ABSENT" => art'[b].producer \in WorkId /\ art'[b].producer < nextWork'
  <2>1. CASE b \in nextArt .. lastArt
    <3>1. PICK i \in new : art'[b] = asked(i)
      BY <1>14, <2>1
    <3>2. art'[b].state = "FUTURE" /\ art'[b].producer = W[f.artifacts[i].producer]
      BY <1>9, <1>13, <3>1
    <3>3. W[f.artifacts[i].producer] \in WorkId /\ W[f.artifacts[i].producer] <= lastWork
      BY <1>5, <1>6, <1>9
    <3>4. QED
      BY <1>8, <2>1, <3>2, <3>3 DEF WorkId
  <2>2. CASE b \notin nextArt .. lastArt
    <3>1. {x \in {t} : \E i \in specs : A[i] = b} \in SUBSET Task /\ Joining(b) \in SUBSET WorkId
      BY <1>10
    <3>2. art'[b] = Joined(inv[b], Joining(b), {x \in {t} : \E i \in specs : A[i] = b})
      BY <1>14, <2>2
    <3>3. art'[b].state = inv[b].state /\ art'[b].producer = inv[b].producer
      BY <1>15, <3>1, <3>2
    <3>4. /\ art[b].state = "ABSENT" <=> b >= nextArt
          /\ art[b].state # "ABSENT" => art[b].producer \in WorkId /\ art[b].producer < nextWork
      BY DEF TInv, Numbered
    <3>5. art'[b].state = "ABSENT" <=> art[b].state = "ABSENT"
      BY <1>7, <1>8, <1>11, <3>3, <3>4 DEF ArtId
    <3>6. art'[b].producer = art[b].producer
      BY <1>11, <3>3
    <3>7. QED
      BY <1>8, <1>21, <2>2, <3>4, <3>5, <3>6 DEF ArtId, WorkId
  <2>3. QED
    BY <2>1, <2>2
<1>25. QED
  BY <1>18, <1>22, <1>23, <1>24 DEF TInv, Numbered

LEMMA TInvSubmit ==
  ASSUME TInv, NEW t \in Task, NEW f \in Fragment, SubmitTask(t, f)
  PROVE  TInv'
<1>1. PICK lastWork \in nextWork - 1 .. MaxWork, lastArt \in nextArt - 1 .. MaxArt :
        \E m \in Numberings(FreshWork(f, t), nextWork, lastWork),
           n \in Numberings(DOMAIN f.artifacts \ Hits(f, t), nextArt, lastArt) :
             /\ Graft(t, f, m, n)
             /\ nextWork' = lastWork + 1 /\ nextArt' = lastArt + 1
  BY Zenon DEF SubmitTask
<1>2. PICK m \in Numberings(FreshWork(f, t), nextWork, lastWork),
           n \in Numberings(DOMAIN f.artifacts \ Hits(f, t), nextArt, lastArt) :
             /\ Graft(t, f, m, n)
             /\ nextWork' = lastWork + 1 /\ nextArt' = lastArt + 1
  BY <1>1
<1>3. ValidFragment(f) /\ now' = now
  BY Zenon DEF SubmitTask
<1>4. QED
  BY <1>1, <1>2, <1>3, TInvGraft

-----------------------------------------------------------------------------
(* Every step.                                                             *)

LEMMA TInvNext == ASSUME TInv, [Next]_vars PROVE TInv'
<1>1. CASE \E t \in Task, f \in Fragment : SubmitTask(t, f)
  BY <1>1, TInvSubmit
<1>2. CASE \E c \in WorkId, t \in Task, i \in Identity \cup {None}, age \in Age, g \in Agent :
             ResolveArtifact(c, t, i, age, g)
  BY <1>2, TInvResolve
<1>3. CASE \E w \in WorkId, s \in Assignment : Assign(w, s) \/ Start(w, s)
  BY <1>3, TInvAssign
<1>4. CASE \E w \in WorkId, s \in Assignment, complete \in BOOLEAN, d \in Draft : CommitWork(w, s, complete, d)
  BY <1>4, TInvCommit
<1>5. CASE \E w \in WorkId, s \in Assignment : FailWork(w, s) \/ \E complete \in BOOLEAN : RejectWork(w, s, complete)
  BY <1>5, TInvFail
<1>6. CASE UNCHANGED vars \/ \E w \in WorkId, s \in Assignment : RepeatCommit(w, s)
  <2>1. UNCHANGED vars
    BY <1>6 DEF RepeatCommit
  <2>2. TypeOK' /\ Numbered'
    BY <2>1 DEF TInv, TypeOK, Numbered, vars, graph
  <2>3. QED
    BY <2>2 DEF TInv
<1>7. CASE \E w \in WorkId, s \in Assignment, g \in Capable, i \in Identity \cup {None}, age \in Age, d \in Draft :
             ExpandWork(w, s, g, i, age, d)
  BY <1>7, TInvExpand, AgentAssumption
<1>8. CASE \E a \in ArtId : InvalidateArtifact(a)
  <2>1. PICK a \in ArtId : InvalidateArtifact(a)
    BY <1>8
  <2>2. art[a].state # "ABSENT"
    BY <2>1 DEF InvalidateArtifact
  <2>3. QED
    BY <2>1, <2>2, TInvInvalidate DEF InvalidateArtifact
<1>9. CASE SweepExpired \/ RefreshReadiness
  <2>1. Expire
    BY <1>9 DEF SweepExpired, RefreshReadiness
  <2>2. Expired \in SUBSET ArtId /\ \A a \in Expired : art[a].state # "ABSENT"
    BY DEF Expired
  <2>3. QED
    BY <2>1, <2>2, TInvInvalidate DEF Expire
<1>10. CASE \E t \in Task, success \in BOOLEAN : EvaluateTask(t, success)
  BY <1>10, TInvEvaluate
<1>11. CASE RebuildArtifactIndex
  BY <1>11, TInvRebuild
<1>12. CASE Tick
  BY <1>12, TInvTick
<1>13. QED
  BY <1>1, <1>2, <1>3, <1>4, <1>5, <1>6, <1>7, <1>8, <1>9, <1>10, <1>11, <1>12, Zenon DEF Next, Operate

\* Every reachable state of the steward has the type the code gives its record:
\* edges join the kinds of node _validate_record asks for, whatever fragments
\* are submitted and whatever WORK expands, fails or is invalidated.
THEOREM TypeCorrect == Spec => []TypeOK
<1>1. Init => TInv
  BY TInvInit
<1>2. TInv /\ [Next]_vars => TInv'
  BY TInvNext
<1>3. TInv => TypeOK
  BY DEF TInv
<1>4. QED
  BY <1>1, <1>2, <1>3, PTL DEF Spec

-----------------------------------------------------------------------------
(* ControlOrder and TaskOutcome are inductive together with the type       *)
(* invariant: an operation ends with a refresh, and what has to be shown   *)
(* of it is only what it does to WORK the refresh leaves alone.            *)

SafeInv == TInv /\ ControlOrder /\ TaskOutcome

-----------------------------------------------------------------------------
(* What a refresh leaves to be shown.                                      *)

LEMMA RefreshKeepsOrder ==
  ASSUME TypeOK', NEW mid \in [WorkId -> WorkStatus],
         status' = SettledWork(mid, work', art'),
         \A v \in WorkId : mid[v] \notin {"ABSENT", "BLOCKED", "READY"} =>
                             \A p \in work'[v].preds : mid[p] = "DONE"
  PROVE  ControlOrder'
<1> SUFFICES ASSUME NEW v \in WorkId, status'[v] \notin {"ABSENT", "BLOCKED"}, NEW p \in work'[v].preds
             PROVE  status'[p] = "DONE"
  BY DEF ControlOrder
<1>1. p \in WorkId
  BY DEF TypeOK, WorkRecord
<1>2. mid[p] = "DONE"
  <2>1. CASE mid[v] \in {"BLOCKED", "READY"}
    <3>1. Runnable(v, mid, work', art')
      BY <2>1 DEF SettledWork
    <3>2. QED
      BY <3>1 DEF Runnable
  <2>2. CASE mid[v] \notin {"BLOCKED", "READY"}
    <3>1. status'[v] = mid[v]
      BY <2>2 DEF SettledWork
    <3>2. QED
      BY <2>2, <3>1
  <2>3. QED
    BY <2>1, <2>2
<1>3. QED
  BY <1>1, <1>2 DEF SettledWork

LEMMA RefreshKeepsOutcome ==
  ASSUME NEW mid \in [WorkId -> WorkStatus], status' = SettledWork(mid, work', art'),
         NEW tk \in [Task -> TaskRecord], task' = SettledTasks(tk, status'),
         \A t \in Task : tk[t].status = "DONE" =>
                           tk[t].terminals # {} /\ \A v \in tk[t].terminals : mid[v] = "DONE"
  PROVE  TaskOutcome'
<1> SUFFICES ASSUME NEW t \in Task, task'[t].status \in {"READY_FOR_EVALUATION", "DONE"}
             PROVE  task'[t].terminals # {} /\ \A v \in task'[t].terminals : status'[v] = "DONE"
  BY DEF TaskOutcome
<1>1. tk[t] \in TaskRecord /\ tk[t].terminals \subseteq WorkId
  BY DEF TaskRecord
<1>2. CASE tk[t].status \in {"ABSENT", "DONE", "FAILED"}
  <2>1. task'[t] = tk[t]
    BY <1>2 DEF SettledTasks
  <2>2. tk[t].status = "DONE"
    BY <1>2, <2>1
  <2>3. \A v \in tk[t].terminals : status'[v] = "DONE"
    BY <1>1, <2>2 DEF SettledWork
  <2>4. QED
    BY <2>1, <2>2, <2>3
<1>3. CASE tk[t].status \notin {"ABSENT", "DONE", "FAILED"}
  <2>1. task'[t].terminals = tk[t].terminals /\ task'[t].status = TaskVerdict(tk[t].terminals, status')
    BY <1>1, <1>3 DEF SettledTasks, TaskRecord
  <2>2. QED
    BY <2>1 DEF TaskVerdict
<1>4. QED
  BY <1>2, <1>3

-----------------------------------------------------------------------------
(* The operations.                                                         *)

LEMMA SafeFresh == Fresh => SafeInv
<1>1. Fresh => ControlOrder /\ TaskOutcome
  BY DEF Fresh, ControlOrder, TaskOutcome, NoTask
<1>2. QED
  BY <1>1, TInvFresh DEF SafeInv

LEMMA SafeInit == Init => SafeInv
BY InitIsFresh, SafeFresh

LEMMA SafeAssign ==
  ASSUME SafeInv, NEW w \in WorkId, NEW s \in Assignment, Assign(w, s) \/ Start(w, s)
  PROVE  SafeInv'
<1>1. TInv'
  BY TInvAssign DEF SafeInv
<1>2. /\ work' = work /\ task' = task /\ status[w] \in {"READY", "ASSIGNED"}
      /\ status' \in {[status EXCEPT ![w] = "ASSIGNED"], [status EXCEPT ![w] = "RUNNING"]}
      /\ status \in [WorkId -> WorkStatus]
      /\ \A v \in WorkId : work[v].preds \subseteq WorkId
      /\ \A t \in Task : task[t].terminals \subseteq WorkId
  BY DEF SafeInv, TInv, TypeOK, Assign, Start, WorkRecord, TaskRecord
<1>3. \A v \in WorkId : /\ status[v] = "DONE" => status'[v] = "DONE"
                        /\ status[v] \in {"ABSENT", "BLOCKED"} => status'[v] = status[v]
  BY <1>2
<1>4. ControlOrder'
  BY <1>2, <1>3 DEF SafeInv, ControlOrder
<1>5. TaskOutcome'
  BY <1>2, <1>3 DEF SafeInv, TaskOutcome
<1>6. QED
  BY <1>1, <1>4, <1>5 DEF SafeInv

\* The WORK that finishes was started after its predecessors were DONE.
LEMMA SafeFinish ==
  ASSUME SafeInv, TInv', NEW w \in WorkId, NEW st \in {"DONE", "FAILED"}, NEW how,
         status[w] = "RUNNING", Finish(w, st, how)
  PROVE  SafeInv'
<1> DEFINE mid == [status EXCEPT ![w] = st]
<1>1. /\ mid \in [WorkId -> WorkStatus] /\ task \in [Task -> TaskRecord]
      /\ \A v \in WorkId : work[v].preds \subseteq WorkId
      /\ \A t \in Task : task[t].terminals \subseteq WorkId
  BY DEF SafeInv, TInv, TypeOK, WorkStatus, WorkRecord, TaskRecord
<1>2. work' = work /\ status' = SettledWork(mid, work', art') /\ task' = SettledTasks(task, status')
  BY DEF Finish
<1>3. \A v \in WorkId : status[v] = "DONE" => mid[v] = "DONE"
  BY DEF SafeInv, TInv, TypeOK
<1>4. \A v \in WorkId : mid[v] \notin {"ABSENT", "BLOCKED", "READY"} => status[v] \notin {"ABSENT", "BLOCKED"}
  BY DEF SafeInv, TInv, TypeOK
<1> HIDE DEF mid
<1>5. ControlOrder'
  <2>1. \A v \in WorkId : mid[v] \notin {"ABSENT", "BLOCKED", "READY"} => \A p \in work'[v].preds : mid[p] = "DONE"
    BY <1>1, <1>2, <1>3, <1>4 DEF SafeInv, ControlOrder
  <2>2. TypeOK'
    BY DEF TInv
  <2>3. QED
    BY <1>1, <1>2, <2>1, <2>2, RefreshKeepsOrder
<1>6. TaskOutcome'
  <2>1. \A t \in Task : task[t].status = "DONE" =>
                          task[t].terminals # {} /\ \A v \in task[t].terminals : mid[v] = "DONE"
    BY <1>1, <1>3 DEF SafeInv, TaskOutcome
  <2>2. QED
    BY <1>1, <1>2, <2>1, RefreshKeepsOutcome
<1>7. QED
  BY <1>5, <1>6 DEF SafeInv

\* A refresh after artifacts were invalidated
LEMMA SafeRefresh ==
  ASSUME SafeInv, TInv', work' = work,
         status' = SettledWork(status, work, art'), task' = SettledTasks(task, status')
  PROVE  SafeInv'
<1>1. status \in [WorkId -> WorkStatus] /\ task \in [Task -> TaskRecord] /\ TypeOK'
  BY DEF SafeInv, TInv, TypeOK
<1>2. ControlOrder'
  <2>1. \A v \in WorkId : status[v] \notin {"ABSENT", "BLOCKED", "READY"} => \A p \in work'[v].preds : status[p] = "DONE"
    BY DEF SafeInv, ControlOrder
  <2>2. QED
    BY <1>1, <2>1, RefreshKeepsOrder
<1>3. TaskOutcome'
  <2>1. \A t \in Task : task[t].status = "DONE" =>
                          task[t].terminals # {} /\ \A v \in task[t].terminals : status[v] = "DONE"
    BY DEF SafeInv, TaskOutcome
  <2>2. QED
    BY <1>1, <2>1, RefreshKeepsOutcome
<1>4. QED
  BY <1>2, <1>3 DEF SafeInv

LEMMA SafeEvaluate ==
  ASSUME SafeInv, NEW t \in Task, NEW success \in BOOLEAN, EvaluateTask(t, success)
  PROVE  SafeInv'
<1>1. TInv'
  BY TInvEvaluate DEF SafeInv
<1>2. ControlOrder'
  BY DEF SafeInv, ControlOrder, EvaluateTask
<1>3. TaskOutcome'
  <2> SUFFICES ASSUME NEW u \in Task, task'[u].status \in {"READY_FOR_EVALUATION", "DONE"}
               PROVE  task'[u].terminals # {} /\ \A v \in task'[u].terminals : status'[v] = "DONE"
    BY DEF TaskOutcome
  <2>1. task \in [Task -> TaskRecord]
    BY DEF SafeInv, TInv, TypeOK
  <2>2. task'[u].terminals = task[u].terminals /\ status' = status
    BY <2>1 DEF EvaluateTask, TaskRecord
  <2>3. task[u].status \in {"READY_FOR_EVALUATION", "DONE"}
    BY <2>1 DEF EvaluateTask, TaskRecord
  <2>4. QED
    BY <2>2, <2>3 DEF SafeInv, TaskOutcome
<1>4. QED
  BY <1>1, <1>2, <1>3 DEF SafeInv

\* Operations that touch neither WORK nor tasks
LEMMA SafeElsewhere ==
  ASSUME SafeInv, TInv', work' = work, status' = status, task' = task
  PROVE  SafeInv'
BY DEF SafeInv, ControlOrder, TaskOutcome

\* A new provider has no predecessors; nothing else changes its predecessors.
LEMMA SafeResolve ==
  ASSUME SafeInv, NEW c \in WorkId, NEW t \in Task, NEW i \in Identity \cup {None}, NEW age \in Age,
         NEW g \in Agent, ResolveArtifact(c, t, i, age, g)
  PROVE  SafeInv'
<1> DEFINE k == KeyOf(i, t)
           hit == Reusable(k, age)
           a == IF hit THEN active[k] ELSE nextArt
           p == IF hit THEN art[a].producer ELSE nextWork
           mid == IF hit THEN status ELSE [status EXCEPT ![p] = "BLOCKED"]
           tk == [task EXCEPT ![t].work = @ \cup {p}, ![t].arts = @ \cup {a}]
           provider == IF hit THEN [work[p] EXCEPT !.tasks = @ \cup {t}]
                       ELSE [NoWork EXCEPT !.agent = g, !.outs = {a}, !.tasks = {t}]
           need == [art |-> a, maxAge |-> age]
<1>1. TInv' /\ TInv
  BY TInvResolve DEF SafeInv
<1>2. /\ ~hit => nextWork <= MaxWork /\ nextArt <= MaxArt
      /\ status' = SettledWork(mid, work', art')
      /\ task' = SettledTasks(tk, status')
      /\ work' = [[work EXCEPT ![p] = provider] EXCEPT ![c].inputs = @ \cup {need}]
  BY Zenon DEF ResolveArtifact
<1>3. /\ ~hit => p = nextWork /\ a = nextArt /\ p \in WorkId /\ a \in ArtId /\ status[p] = "ABSENT"
      /\ hit => p \in WorkId /\ a \in ArtId
  <2>1. CASE hit
    <3>1. k \in Key \cup {None}
      BY KeyOfType
    <3>2. QED
      BY <1>1, <2>1, <3>1, ReusableHit
  <2>2. CASE ~hit
    <3>1. p = nextWork /\ a = nextArt /\ nextWork <= MaxWork /\ nextArt <= MaxArt
      BY <1>2, <2>2
    <3>2. nextWork \in 1 .. MaxWork + 1 /\ nextArt \in 1 .. MaxArt + 1
      BY <1>1 DEF TInv, TypeOK
    <3> HIDE DEF p, a, hit
    <3>3. p \in WorkId /\ a \in ArtId
      BY <3>1, <3>2, BoundAssumption DEF WorkId, ArtId
    <3>4. status[p] = "ABSENT"
      BY <1>1, <3>1, <3>2, <3>3 DEF TInv, Numbered
    <3>5. QED
      BY <2>2, <3>1, <3>3, <3>4
  <2>3. QED
    BY <2>1, <2>2
<1> HIDE DEF k, hit, a, p, need
<1>4. /\ status \in [WorkId -> WorkStatus] /\ work \in [WorkId -> WorkRecord] /\ task \in [Task -> TaskRecord]
      /\ mid \in [WorkId -> WorkStatus]
      /\ \A v \in WorkId : work[v].preds \subseteq WorkId
      /\ \A u \in Task : task[u].terminals \subseteq WorkId
  BY <1>1 DEF TInv, TypeOK, WorkStatus, WorkRecord, TaskRecord
<1>5. \A v \in WorkId : /\ status[v] = "DONE" => mid[v] = "DONE"
                        /\ mid[v] \notin {"ABSENT", "BLOCKED", "READY"} => mid[v] = status[v]
  BY <1>3, <1>4
<1>6. /\ tk \in [Task -> TaskRecord]
      /\ \A u \in Task : tk[u].status = task[u].status /\ tk[u].terminals = task[u].terminals
  <2>1. p \in WorkId /\ a \in ArtId
    BY <1>3
  <2>2. tk \in [Task -> TaskRecord]
    <3> HIDE DEF mid, tk, provider
    <3>1. task \in [Task -> TaskRecord]
      BY <1>4
    <3>2. QED
      BY <2>1, <3>1 DEF tk, TaskRecord
  <2>3. \A u \in Task : tk[u].status = task[u].status /\ tk[u].terminals = task[u].terminals
    BY <1>4 DEF TaskRecord
  <2>4. QED
    BY <2>2, <2>3
<1>7. \A v \in WorkId : work'[v].preds \in {work[v].preds, {}}
  <2>1. provider.preds \in {work[p].preds, {}}
    <3>1. CASE hit
      BY <1>3, <1>4, <3>1 DEF WorkRecord
    <3>2. CASE ~hit
      BY <3>2 DEF NoWork
    <3>3. QED
      BY <3>1, <3>2
  <2>2. provider \in [agent : {provider.agent}, preds : {provider.preds}, inputs : {provider.inputs},
                      outs : {provider.outs}, tasks : {provider.tasks}]
    <3>1. CASE hit
      BY <1>3, <1>4, <3>1 DEF WorkRecord
    <3>2. CASE ~hit
      BY <3>2 DEF NoWork
    <3>3. QED
      BY <3>1, <3>2
  <2> HIDE DEF provider
  <2>3. QED
    BY <1>2, <1>3, <1>4, <2>1, <2>2 DEF WorkRecord
<1> HIDE DEF mid, tk, provider
<1>8. ControlOrder'
  <2>1. \A v \in WorkId : mid[v] \notin {"ABSENT", "BLOCKED", "READY"} => \A x \in work'[v].preds : mid[x] = "DONE"
    BY <1>4, <1>5, <1>7 DEF SafeInv, ControlOrder
  <2>2. TypeOK'
    BY <1>1 DEF TInv
  <2>3. QED
    BY <1>2, <1>4, <2>1, <2>2, RefreshKeepsOrder
<1>9. TaskOutcome'
  <2>1. \A u \in Task : tk[u].status = "DONE" =>
                          tk[u].terminals # {} /\ \A v \in tk[u].terminals : mid[v] = "DONE"
    BY <1>4, <1>5, <1>6 DEF SafeInv, TaskOutcome
  <2>2. QED
    BY <1>2, <1>4, <1>6, <2>1, RefreshKeepsOutcome
<1>10. QED
  BY <1>1, <1>8, <1>9 DEF SafeInv

\* The successors of a WORK that expands are BLOCKED, for it is RUNNING; so they
\* may wait for its continuation instead.  A task that was evaluated as a success
\* has no RUNNING terminal that could be replaced.
LEMMA SafeExpand ==
  ASSUME SafeInv, NEW w \in WorkId, NEW s \in Assignment, NEW g \in Agent, NEW i \in Identity \cup {None},
         NEW age \in Age, NEW d \in Draft, ExpandWork(w, s, g, i, age, d)
  PROVE  SafeInv'
<1> DEFINE ts == work[w].tasks
           k == ExpansionKey(i, ts)
           hit == Reusable(k, age)
           c == nextWork
           checkpoint == nextArt
           a == IF hit THEN active[k] ELSE nextArt + 1
           p == IF hit THEN art[a].producer ELSE nextWork + 1
           continuation == [agent |-> work[w].agent, preds |-> {w}, outs |-> {}, tasks |-> ts,
                            inputs |-> {[art |-> checkpoint, maxAge |-> None], [art |-> a, maxAge |-> age]}]
           provider == [NoWork EXCEPT !.agent = g, !.outs = {a}, !.tasks = ts]
           mid == [v \in WorkId |-> IF v = w THEN "DONE"
                                   ELSE IF v = c \/ (v = p /\ ~hit) THEN "BLOCKED" ELSE status[v]]
           tk == [u \in Task |->
                    IF u \in ts
                    THEN [task[u] EXCEPT !.terminals = Replace(@, w, c), !.work = @ \cup {p, c},
                                         !.arts = @ \cup {checkpoint, a}]
                    ELSE task[u]]
<1>1. TInv' /\ TInv
  BY TInvExpand DEF SafeInv
<1>2. /\ status' = SettledWork(mid, work', art')
      /\ task' = SettledTasks(tk, status')
      /\ status[w] = "RUNNING"
      /\ work' = [v \in WorkId |->
           IF v = c THEN continuation
           ELSE IF v = p /\ ~hit THEN provider
           ELSE IF v = w THEN [work[w] EXCEPT !.outs = @ \cup {checkpoint}]
           ELSE IF <<"PRECEDES", w, v>> \in edges THEN [work[v] EXCEPT !.preds = Replace(@, w, c)]
           ELSE work[v]]
      /\ nextWork' = IF hit THEN nextWork + 1 ELSE nextWork + 2
      /\ nextArt' = IF hit THEN nextArt + 1 ELSE nextArt + 2
      /\ nextWork' <= MaxWork + 1 /\ nextArt' <= MaxArt + 1
      /\ ts # {}
  BY Zenon DEF ExpandWork, Holds
<1>3. /\ \A v \in WorkId : v = c \/ (v = p /\ ~hit) => status[v] = "ABSENT"
      /\ a \in ArtId /\ p \in WorkId /\ c \in WorkId /\ checkpoint \in ArtId
  <2> USE BoundAssumption
  <2>1. /\ nextWork \in 1 .. MaxWork + 1 /\ nextArt \in 1 .. MaxArt + 1 /\ c = nextWork /\ checkpoint = nextArt
        /\ ~hit => p = nextWork + 1 /\ a = nextArt + 1
    BY <1>1 DEF TInv, TypeOK
  <2>2. hit => p \in WorkId /\ a \in ArtId
    <3>1. ts \subseteq Task /\ ts # {}
      BY <1>1, <1>2 DEF TInv, TypeOK, WorkRecord
    <3>2. (CHOOSE t \in ts : TRUE) \in Task
      BY <3>1
    <3>3. k \in Key \cup {None}
      BY <3>2, KeyOfType DEF ExpansionKey
    <3>4. QED
      BY <1>1, <3>3, ReusableHit
  <2> HIDE DEF c, p, hit, a, checkpoint, ts
  <2>3. \A v \in WorkId : v = c \/ (v = p /\ ~hit) => status[v] = "ABSENT"
    BY <1>1, <2>1 DEF TInv, TypeOK, Numbered
  <2>4. c \in WorkId /\ checkpoint \in ArtId /\ (~hit => p \in WorkId /\ a \in ArtId)
    <3>1. CASE hit
      <4>1. nextWork' = nextWork + 1 /\ nextArt' = nextArt + 1 /\ nextWork' <= MaxWork + 1 /\ nextArt' <= MaxArt + 1
        BY <1>2, <3>1
      <4>2. QED
        BY <2>1, <3>1, <4>1 DEF WorkId, ArtId
    <3>2. CASE ~hit
      <4>1. nextWork' = nextWork + 2 /\ nextArt' = nextArt + 2 /\ nextWork' <= MaxWork + 1 /\ nextArt' <= MaxArt + 1
        BY <1>2, <3>2
      <4>2. QED
        BY <2>1, <3>2, <4>1 DEF WorkId, ArtId
    <3>3. QED
      BY <3>1, <3>2
  <2>5. QED
    BY <2>2, <2>3, <2>4
<1> HIDE DEF ts, k, hit, c, checkpoint, a, p, continuation, provider
<1>4. /\ status \in [WorkId -> WorkStatus] /\ work \in [WorkId -> WorkRecord] /\ task \in [Task -> TaskRecord]
      /\ mid \in [WorkId -> WorkStatus]
      /\ \A v \in WorkId : work[v].preds \subseteq WorkId
      /\ \A u \in Task : task[u].terminals \subseteq WorkId
  BY <1>1 DEF TInv, TypeOK, WorkStatus, WorkRecord, TaskRecord
<1>5. \A v \in WorkId : /\ status[v] = "DONE" => mid[v] = "DONE"
                        /\ mid[v] \notin {"ABSENT", "BLOCKED", "READY"} =>
                             v # c /\ ~(v = p /\ ~hit) /\ status[v] \notin {"ABSENT", "BLOCKED"}
  BY <1>2, <1>3, <1>4
<1> HIDE DEF mid
<1>6. ASSUME NEW v \in WorkId, v # c, ~(v = p /\ ~hit), status[v] \notin {"ABSENT", "BLOCKED"}
      PROVE  work'[v].preds = work[v].preds
  <2>1. w \notin work[v].preds
    BY <1>2, <1>6 DEF SafeInv, ControlOrder
  <2>2. Replace(work[v].preds, w, c) = work[v].preds
    BY <2>1 DEF Replace
  <2>3. work'[v] \in {work[v], [work[v] EXCEPT !.outs = @ \cup {checkpoint}],
                      [work[v] EXCEPT !.preds = Replace(@, w, c)]}
    BY <1>2, <1>6
  <2>4. QED
    BY <1>4, <2>2, <2>3 DEF WorkRecord
<1>7. ControlOrder'
  <2>1. \A v \in WorkId : mid[v] \notin {"ABSENT", "BLOCKED", "READY"} => \A x \in work'[v].preds : mid[x] = "DONE"
    BY <1>4, <1>5, <1>6 DEF SafeInv, ControlOrder
  <2>2. TypeOK'
    BY <1>1 DEF TInv
  <2>3. QED
    BY <1>2, <1>4, <2>1, <2>2, RefreshKeepsOrder
<1>8. TaskOutcome'
  <2>1. \A S \in SUBSET WorkId : Replace(S, w, c) \in SUBSET WorkId /\ (w \notin S => Replace(S, w, c) = S)
    BY <1>3 DEF Replace
  <2>2. ASSUME NEW u \in Task
        PROVE  /\ tk[u] \in TaskRecord
               /\ tk[u].status = task[u].status
               /\ task[u].status = "DONE" => tk[u].terminals = task[u].terminals
    <3>1. task[u] \in TaskRecord /\ task[u].terminals \in SUBSET WorkId
      BY <1>4 DEF TaskRecord
    <3>2. CASE u \in ts
      <4>1. tk[u] = [task[u] EXCEPT !.terminals = Replace(@, w, c), !.work = @ \cup {p, c},
                                    !.arts = @ \cup {checkpoint, a}]
        BY <3>2
      <4>2. Replace(task[u].terminals, w, c) \in SUBSET WorkId
        BY <2>1, <3>1
      <4> HIDE DEF tk, ts
      <4>3. tk[u] \in TaskRecord /\ tk[u].status = task[u].status /\ tk[u].terminals = Replace(task[u].terminals, w, c)
        <5> DEFINE wk == task[u].work \cup {p, c}
                   ar == task[u].arts \cup {checkpoint, a}
                   ends == Replace(task[u].terminals, w, c)
        <5>1. wk \in SUBSET WorkId /\ ar \in SUBSET ArtId
          BY <1>3, <3>1 DEF TaskRecord
        <5>2. tk[u] = [task[u] EXCEPT !.terminals = ends, !.work = wk, !.arts = ar]
          BY <4>1
        <5> HIDE DEF wk, ar
        <5>3. ends \in SUBSET WorkId
          BY <4>2
        <5> HIDE DEF ends
        <5>4. tk[u] \in TaskRecord /\ tk[u].status = task[u].status /\ tk[u].terminals = ends
          BY <3>1, <5>1, <5>2, <5>3 DEF TaskRecord
        <5>5. QED
          BY <5>4 DEF ends
      <4>4. task[u].status = "DONE" => w \notin task[u].terminals
        BY <1>2 DEF SafeInv, TaskOutcome
      <4>5. QED
        BY <2>1, <3>1, <4>3, <4>4
    <3>3. CASE u \notin ts
      BY <3>1, <3>3
    <3>4. QED
      BY <3>2, <3>3
  <2>3. tk = [u \in Task |-> tk[u]]
    OBVIOUS
  <2> HIDE DEF tk
  <2>4. tk \in [Task -> TaskRecord]
    BY <2>2, <2>3
  <2>5. \A u \in Task : tk[u].status = "DONE" =>
                          tk[u].terminals # {} /\ \A v \in tk[u].terminals : mid[v] = "DONE"
    BY <1>4, <1>5, <2>2 DEF SafeInv, TaskOutcome
  <2>6. QED
    BY <1>2, <1>4, <2>4, <2>5, RefreshKeepsOutcome
<1>9. QED
  BY <1>1, <1>7, <1>8 DEF SafeInv

\* Control edges of a fragment end in new WORK only: a WORK whose result may be
\* answered by the index takes no part in them.
LEMMA SafeSubmit ==
  ASSUME SafeInv, NEW t \in Task, NEW f \in Fragment, SubmitTask(t, f)
  PROVE  SafeInv'
<1>1. TInv' /\ TInv
  BY TInvSubmit DEF SafeInv
<1>2. PICK lastWork \in nextWork - 1 .. MaxWork, lastArt \in nextArt - 1 .. MaxArt :
        \E m \in Numberings(FreshWork(f, t), nextWork, lastWork),
           n \in Numberings(DOMAIN f.artifacts \ Hits(f, t), nextArt, lastArt) :
             /\ Graft(t, f, m, n)
             /\ nextWork' = lastWork + 1 /\ nextArt' = lastArt + 1
  BY Zenon DEF SubmitTask
<1>3. PICK m \in Numberings(FreshWork(f, t), nextWork, lastWork),
           n \in Numberings(DOMAIN f.artifacts \ Hits(f, t), nextArt, lastArt) :
             /\ Graft(t, f, m, n)
             /\ nextWork' = lastWork + 1 /\ nextArt' = lastArt + 1
  BY <1>2
<1>4. ValidFragment(f) /\ task[t].status = "ABSENT"
  BY Zenon DEF SubmitTask
<1>5. Located(t, f, m, n, lastWork, lastArt)
  BY <1>1, <1>2, <1>3, LocalMaps
<1> DEFINE A == GlobalArt(f, t, n)
           W == GlobalWork(f, t, m)
           fresh == FreshWork(f, t)
           created == {m[l] : l \in fresh}
           mid == [v \in WorkId |-> IF v \in created THEN "BLOCKED" ELSE status[v]]
           tk == [task EXCEPT ![t] =
                    [status |-> "ACTIVE", terminals |-> Terminals(f, W, edges'),
                     work |-> {W[l] : l \in DOMAIN W}, arts |-> {A[i] : i \in DOMAIN f.artifacts}]]
<1>6. /\ \A v \in WorkId : work'[v].preds = work[v].preds \cup {W[e[1]] : e \in {x \in f.control : W[x[2]] = v}}
      /\ status' = SettledWork(mid, work', art')
      /\ task' = SettledTasks(tk, status')
  BY <1>3 DEF Graft
<1>7. created = nextWork .. lastWork
  BY <1>5 DEF Located
<1>8. \A v \in created : v \in WorkId => status[v] = "ABSENT"
  <2> HIDE DEF created
  <2>1. nextWork \in 1 .. MaxWork + 1 /\ \A v \in WorkId : status[v] = "ABSENT" <=> v >= nextWork
    BY <1>1 DEF TInv, TypeOK, Numbered
  <2>2. QED
    BY <1>7, <2>1, BoundAssumption DEF WorkId
<1>9. \A e \in f.control : W[e[2]] \in created
  <2> SUFFICES ASSUME NEW e \in f.control PROVE W[e[2]] \in created
    OBVIOUS
  <2>1. e[2] \in DOMAIN f.work
    <3> DEFINE locals == DOMAIN f.work
    <3>1. f.control \subseteq locals \X locals
      BY <1>4, FragmentShape
    <3> HIDE DEF locals
    <3>2. e[2] \in locals
      BY <3>1
    <3>3. QED
      BY <3>2 DEF locals
  <2>2. e[2] \notin {f.artifacts[i].producer : i \in DOMAIN f.artifacts}
    BY <1>4, Zenon DEF ValidFragment
  <2>3. e[2] \in fresh
    BY <2>1, <2>2 DEF FreshWork, Hits
  <2>4. W[e[2]] = m[e[2]]
    BY <2>1, <2>3 DEF GlobalWork
  <2>5. QED
    BY <2>3, <2>4
<1> HIDE DEF A, W, fresh, created
<1>10. /\ status \in [WorkId -> WorkStatus] /\ work \in [WorkId -> WorkRecord] /\ task \in [Task -> TaskRecord]
       /\ mid \in [WorkId -> WorkStatus]
       /\ \A v \in WorkId : work[v].preds \subseteq WorkId
       /\ \A u \in Task : task[u].terminals \subseteq WorkId
  BY <1>1 DEF TInv, TypeOK, WorkStatus, WorkRecord, TaskRecord
<1>11. \A v \in WorkId : /\ status[v] = "DONE" => mid[v] = "DONE"
                         /\ mid[v] \notin {"ABSENT", "BLOCKED", "READY"} =>
                              v \notin created /\ status[v] \notin {"ABSENT", "BLOCKED"}
  BY <1>8, <1>10
<1>12. ASSUME NEW v \in WorkId, v \notin created PROVE work'[v].preds = work[v].preds
  <2>1. {x \in f.control : W[x[2]] = v} = {}
    BY <1>9, <1>12
  <2>2. {W[e[1]] : e \in {x \in f.control : W[x[2]] = v}} = {}
    BY <2>1
  <2>3. QED
    BY <1>6, <2>2
<1>13. tk \in [Task -> TaskRecord]
  <2>1. \A l \in DOMAIN f.work : W[l] \in WorkId
    BY <1>5 DEF Located, W
  <2>2. \A i \in DOMAIN f.artifacts : A[i] \in ArtId
    BY <1>5 DEF Located, A
  <2>3. DOMAIN W = DOMAIN f.work
    BY DEF W, GlobalWork
  <2>4. f.terminals \subseteq DOMAIN f.work
    BY <1>4, FragmentShape
  <2>5. {W[l] : l \in DOMAIN W} \in SUBSET WorkId /\ {A[i] : i \in DOMAIN f.artifacts} \in SUBSET ArtId
    BY <2>1, <2>2, <2>3
  <2>6. Terminals(f, W, edges') \in SUBSET WorkId
    <3>1. {W[l] : l \in f.terminals} \in SUBSET WorkId
      BY <2>1, <2>4
    <3>2. QED
      BY <2>5, <3>1 DEF Terminals
  <2>7. [status |-> "ACTIVE", terminals |-> Terminals(f, W, edges'),
         work |-> {W[l] : l \in DOMAIN W}, arts |-> {A[i] : i \in DOMAIN f.artifacts}] \in TaskRecord
    BY <2>5, <2>6 DEF TaskRecord, TaskStatus
  <2>8. QED
    BY <1>10, <2>7
<1>14. \A u \in Task : tk[u].status = "DONE" => task[u].status = "DONE" /\ tk[u].terminals = task[u].terminals
  BY <1>10
<1> HIDE DEF mid, tk
<1>15. ControlOrder'
  <2>1. \A v \in WorkId : mid[v] \notin {"ABSENT", "BLOCKED", "READY"} => \A x \in work'[v].preds : mid[x] = "DONE"
    BY <1>10, <1>11, <1>12 DEF SafeInv, ControlOrder
  <2>2. TypeOK'
    BY <1>1 DEF TInv
  <2>3. QED
    BY <1>6, <1>10, <2>1, <2>2, RefreshKeepsOrder
<1>16. TaskOutcome'
  <2>1. \A u \in Task : tk[u].status = "DONE" =>
                          tk[u].terminals # {} /\ \A v \in tk[u].terminals : mid[v] = "DONE"
    BY <1>10, <1>11, <1>14 DEF SafeInv, TaskOutcome
  <2>2. QED
    BY <1>6, <1>10, <1>13, <2>1, RefreshKeepsOutcome
<1>17. QED
  BY <1>1, <1>15, <1>16 DEF SafeInv

-----------------------------------------------------------------------------
(* Every step.                                                             *)

LEMMA SafeNext == ASSUME SafeInv, [Next]_vars PROVE SafeInv'
<1> TInv /\ TInv'
  BY TInvNext DEF SafeInv
<1>1. CASE \E t \in Task, f \in Fragment : SubmitTask(t, f)
  BY <1>1, SafeSubmit
<1>2. CASE \E c \in WorkId, t \in Task, i \in Identity \cup {None}, age \in Age, g \in Agent :
             ResolveArtifact(c, t, i, age, g)
  BY <1>2, SafeResolve
<1>3. CASE \E w \in WorkId, s \in Assignment : Assign(w, s) \/ Start(w, s)
  BY <1>3, SafeAssign
<1>4. CASE \E w \in WorkId, s \in Assignment :
             \/ \E complete \in BOOLEAN, d \in Draft : CommitWork(w, s, complete, d)
             \/ \E complete \in BOOLEAN : RejectWork(w, s, complete)
             \/ FailWork(w, s)
  <2>1. PICK w \in WorkId, s \in Assignment :
               \/ \E complete \in BOOLEAN, d \in Draft : CommitWork(w, s, complete, d)
               \/ \E complete \in BOOLEAN : RejectWork(w, s, complete)
               \/ FailWork(w, s)
    BY <1>4
  <2>2. status[w] = "RUNNING" /\ \E st \in {"DONE", "FAILED"}, how \in {"completed", "failed"} : Finish(w, st, how)
    BY <2>1 DEF CommitWork, RejectWork, FailWork, Holds
  <2>3. QED
    BY <2>2, SafeFinish
<1>5. CASE \/ UNCHANGED vars \/ Tick \/ RebuildArtifactIndex
           \/ \E w \in WorkId, s \in Assignment : RepeatCommit(w, s)
  <2>1. work' = work /\ status' = status /\ task' = task
    BY <1>5 DEF RepeatCommit, Tick, RebuildArtifactIndex, vars, graph
  <2>2. QED
    BY <2>1, SafeElsewhere
<1>6. CASE \E w \in WorkId, s \in Assignment, g \in Capable, i \in Identity \cup {None}, age \in Age, d \in Draft :
             ExpandWork(w, s, g, i, age, d)
  BY <1>6, SafeExpand, AgentAssumption
<1>7. CASE SweepExpired \/ RefreshReadiness \/ \E a \in ArtId : InvalidateArtifact(a)
  <2>1. work' = work /\ status' = SettledWork(status, work, art') /\ task' = SettledTasks(task, status')
    BY <1>7 DEF SweepExpired, RefreshReadiness, Expire, InvalidateArtifact
  <2>2. QED
    BY <2>1, SafeRefresh
<1>8. CASE \E t \in Task, success \in BOOLEAN : EvaluateTask(t, success)
  BY <1>8, SafeEvaluate
<1>9. QED
  BY <1>1, <1>2, <1>3, <1>4, <1>5, <1>6, <1>7, <1>8, Zenon DEF Next, Operate

\* No WORK is offered, runs or has run before all its control predecessors are
\* DONE, however expansions rewire the graph under it.
THEOREM ControlOrderHolds == Spec => []ControlOrder
<1>1. SafeInv /\ [Next]_vars => SafeInv'
  BY SafeNext
<1>2. SafeInv => ControlOrder
  BY DEF SafeInv
<1>3. QED
  BY SafeInit, <1>1, <1>2, PTL DEF Spec

\* A task is offered for evaluation, or stands as a success, only with terminal
\* WORK that is all DONE, whatever replaced that WORK since the submission.
THEOREM TaskOutcomeHolds == Spec => []TaskOutcome
<1>1. SafeInv /\ [Next]_vars => SafeInv'
  BY SafeNext
<1>2. SafeInv => TaskOutcome
  BY DEF SafeInv
<1>3. QED
  BY SafeInit, <1>1, <1>2, PTL DEF Spec

-----------------------------------------------------------------------------
(* READY is current.                                                       *)

\* The operation ends with a refresh of the graph it leaves.
Refreshes == \E mid : status' = SettledWork(mid, work', art')

\* No artifact was observed in the future.
Punctual == \A a \in ArtId : art[a].validFrom # None => art[a].validFrom <= now

\* No executor dates what it hands in: the steward takes the time of the commit.
Undated == \A d \in Draft : d.observedAt \in {None, 0}

LEMMA RefreshIsCurrent == ASSUME TInv', now' = now, Refreshes PROVE ReadinessCurrent'
<1>1. PICK mid : status' = SettledWork(mid, work', art')
  BY DEF Refreshes
<1>2. \A v \in WorkId :
        status'[v] = IF mid[v] \in {"BLOCKED", "READY"}
                     THEN IF Runnable(v, mid, work', art') THEN "READY" ELSE "BLOCKED"
                     ELSE mid[v]
  BY <1>1 DEF SettledWork
<1>3. \A v \in WorkId : /\ status'[v] = "READY" => Runnable(v, mid, work', art')
                        /\ status'[v] = "BLOCKED" => ~Runnable(v, mid, work', art')
                        /\ status'[v] = "DONE" <=> mid[v] = "DONE"
  BY <1>2, Zenon
<1>4. \A v \in WorkId : work'[v].preds \subseteq WorkId
  BY DEF TInv, TypeOK, WorkRecord
<1>5. ASSUME NEW v \in WorkId, status'[v] = "READY"
      PROVE  \A r \in work'[v].inputs : art'[r.art].state = "CONCRETE"
  BY <1>3, <1>5 DEF Runnable, Satisfies
<1>6. ASSUME NEW v \in WorkId, status'[v] = "BLOCKED" PROVE ~Runnable(v, status, work, art)'
  <2>1. (\A p \in work'[v].preds : status'[p] = "DONE") <=> (\A p \in work'[v].preds : mid[p] = "DONE")
    BY <1>3, <1>4
  <2>2. ~Runnable(v, mid, work', art')
    BY <1>3, <1>6
  <2>3. \A x, age : Satisfies(x, age)' <=> Satisfies(x, age)
    BY DEF Satisfies
  <2>4. QED
    BY <2>1, <2>2, <2>3 DEF Runnable, Satisfies
<1>7. QED
  BY <1>5, <1>6 DEF ReadinessCurrent

LEMMA OperationRefreshes ==
  ASSUME Operate
  PROVE  \/ Refreshes /\ now' = now
         \/ \E w \in WorkId, s \in Assignment : Assign(w, s) \/ Start(w, s)
         \/ UNCHANGED <<work, status, art, now>>
<1>1. ASSUME NEW t \in Task, NEW f \in Fragment, SubmitTask(t, f) PROVE Refreshes /\ now' = now
  <2>1. PICK lastWork \in nextWork - 1 .. MaxWork, lastArt \in nextArt - 1 .. MaxArt :
          \E m \in Numberings(FreshWork(f, t), nextWork, lastWork),
             n \in Numberings(DOMAIN f.artifacts \ Hits(f, t), nextArt, lastArt) : Graft(t, f, m, n)
    BY <1>1, Zenon DEF SubmitTask
  <2>2. PICK m \in Numberings(FreshWork(f, t), nextWork, lastWork),
             n \in Numberings(DOMAIN f.artifacts \ Hits(f, t), nextArt, lastArt) : Graft(t, f, m, n)
    BY <2>1
  <2>3. Refreshes
    BY <2>2, Zenon DEF Graft, Refreshes
  <2>4. QED
    BY <1>1, <2>3, Zenon DEF SubmitTask
<1>2. ASSUME NEW c \in WorkId, NEW t \in Task, NEW i \in Identity \cup {None}, NEW age \in Age, NEW g \in Agent,
             ResolveArtifact(c, t, i, age, g)
      PROVE  Refreshes /\ now' = now
  BY <1>2, Zenon DEF ResolveArtifact, Refreshes
<1>3. ASSUME NEW w \in WorkId, NEW s \in Assignment, NEW g \in Capable, NEW i \in Identity \cup {None},
             NEW age \in Age, NEW d \in Draft, ExpandWork(w, s, g, i, age, d)
      PROVE  Refreshes /\ now' = now
  BY <1>3, Zenon DEF ExpandWork, Refreshes
<1>4. ASSUME NEW w \in WorkId, NEW s \in Assignment,
             \/ \E complete \in BOOLEAN, d \in Draft : CommitWork(w, s, complete, d)
             \/ \E complete \in BOOLEAN : RejectWork(w, s, complete)
             \/ FailWork(w, s)
      PROVE  Refreshes /\ now' = now
  <2>1. \E st, how : Finish(w, st, how)
    BY <1>4, Zenon DEF CommitWork, RejectWork, FailWork
  <2>2. QED
    BY <2>1, Zenon DEF Finish, Refreshes
<1>5. ASSUME SweepExpired \/ RefreshReadiness \/ \E a \in ArtId : InvalidateArtifact(a)
      PROVE  Refreshes /\ now' = now
  BY <1>5 DEF SweepExpired, RefreshReadiness, Expire, InvalidateArtifact, Refreshes
<1>6. ASSUME \/ RebuildArtifactIndex
             \/ \E t \in Task, success \in BOOLEAN : EvaluateTask(t, success)
             \/ \E w \in WorkId, s \in Assignment : RepeatCommit(w, s)
      PROVE  UNCHANGED <<work, status, art, now>>
  BY <1>6 DEF RebuildArtifactIndex, EvaluateTask, RepeatCommit, vars, graph
<1>7. QED
  BY <1>1, <1>2, <1>3, <1>4, <1>5, <1>6, Zenon DEF Operate

\* Between refreshes, only the clock can change what is ready: it makes artifacts
\* older, and readies nothing as long as none is from the future.
LEMMA ReadinessNext ==
  ASSUME TInv, TInv', Punctual, ReadinessCurrent, [Next]_vars
  PROVE  ReadinessCurrent'
<1>1. CASE Refreshes /\ now' = now
  BY <1>1, RefreshIsCurrent
<1>2. CASE \E w \in WorkId, s \in Assignment : Assign(w, s) \/ Start(w, s)
  <2>1. PICK w \in WorkId : /\ work' = work /\ art' = art /\ now' = now
                            /\ status[w] \in {"READY", "ASSIGNED"}
                            /\ status' \in {[status EXCEPT ![w] = "ASSIGNED"], [status EXCEPT ![w] = "RUNNING"]}
    BY <1>2 DEF Assign, Start
  <2>2. status \in [WorkId -> WorkStatus] /\ \A v \in WorkId : work[v].preds \subseteq WorkId
    BY DEF TInv, TypeOK, WorkRecord
  <2>3. \A v \in WorkId : /\ status'[v] = "DONE" <=> status[v] = "DONE"
                          /\ status'[v] \in {"READY", "BLOCKED"} => status'[v] = status[v]
    BY <2>1, <2>2
  <2>4. \A v \in WorkId : Runnable(v, status, work, art)' => Runnable(v, status, work, art)
    BY <2>1, <2>2, <2>3 DEF Runnable, Satisfies
  <2>5. QED
    BY <2>1, <2>3, <2>4 DEF ReadinessCurrent
<1>3. CASE UNCHANGED <<work, status, art>> /\ now' \in {now, now + 1}
  <2>1. \A r \in Requirement : Satisfies(art[r.art], r.maxAge)' => Satisfies(art[r.art], r.maxAge)
    <3> SUFFICES ASSUME NEW r \in Requirement, Satisfies(art[r.art], r.maxAge)'
                 PROVE  Satisfies(art[r.art], r.maxAge)
      OBVIOUS
    <3> DEFINE x == art[r.art]
               age == r.maxAge
    <3>1. /\ x \in ArtRecord /\ age \in Nat \cup {None} /\ now \in Nat
          /\ x.validFrom # None => x.validFrom <= now
      <4>1. r.art \in ArtId /\ r.maxAge \in Age
        BY DEF Requirement
      <4>2. art \in [ArtId -> ArtRecord] /\ now \in 0 .. MaxTime
        BY DEF TInv, TypeOK, Time
      <4>3. age \in Nat \cup {None}
        BY <4>1, AgeAssumption DEF Age
      <4>4. x \in ArtRecord /\ (x.validFrom # None => x.validFrom <= now)
        BY <4>1, <4>2 DEF Punctual
      <4>5. QED
        BY <4>2, <4>3, <4>4, BoundAssumption
    <3>2. /\ x.state = "CONCRETE"
          /\ x.validUntil # None => now' <= x.validUntil
          /\ age # None => x.observedAt # None /\ now' - x.observedAt <= age
      BY <1>3 DEF Satisfies
    <3>3. x.validUntil \in Nat \cup {None} /\ x.observedAt \in Nat \cup {None} /\ x.validFrom \in Nat \cup {None}
      BY <3>1 DEF ArtRecord
    <3> HIDE DEF x, age
    <3>4. /\ x.validUntil # None => now <= x.validUntil
          /\ age # None => now - x.observedAt <= age
          /\ x.validFrom # None => now >= x.validFrom
      BY <1>3, <3>1, <3>2, <3>3
    <3>5. Satisfies(x, age)
      BY <3>2, <3>4 DEF Satisfies
    <3>6. QED
      BY <3>5 DEF x, age
  <2>2. \A v \in WorkId : work[v].inputs \subseteq Requirement
    BY DEF TInv, TypeOK, WorkRecord
  <2>3. \A v \in WorkId : Runnable(v, status, work, art)' => Runnable(v, status, work, art)
    BY <1>3, <2>1, <2>2 DEF Runnable
  <2>4. QED
    BY <1>3, <2>3 DEF ReadinessCurrent
<1>4. Operate \/ Tick \/ UNCHANGED vars
  BY DEF Next
<1>5. CASE Tick \/ UNCHANGED vars
  BY <1>3, <1>5 DEF Tick, vars, graph
<1>6. CASE Operate
  BY <1>1, <1>2, <1>3, <1>6, OperationRefreshes, Zenon
<1>7. QED
  BY <1>4, <1>5, <1>6

\* READY is never stale: whatever is submitted, resolved, expanded, withdrawn or
\* finished, READY WORK requires concrete artifacts only and no WORK that could run
\* is left BLOCKED, as long as no artifact is dated in the future.
THEOREM ReadinessHolds == Spec /\ []Punctual => []ReadinessCurrent
<1>1. Init => TInv /\ ReadinessCurrent
  <2>1. Init => ReadinessCurrent
    BY DEF Init, ReadinessCurrent
  <2>2. QED
    BY <2>1, TInvInit
<1>2. TInv /\ [Next]_vars => TInv'
  BY TInvNext
<1>3. TInv /\ TInv' /\ Punctual /\ ReadinessCurrent /\ [Next]_vars => ReadinessCurrent'
  BY ReadinessNext
<1>4. QED
  BY <1>1, <1>2, <1>3, PTL DEF Spec

\* An operation dates an artifact now, or not at all.
Dates == \A a \in ArtId : art'[a].validFrom \in {art[a].validFrom, None, now}

LEMMA OperationDates ==
  ASSUME Undated, TInv, Operate
  PROVE  Dates /\ now' = now
<1> USE NoneAssumption
<1>0. art \in [ArtId -> ArtRecord] /\ NoArtifact \in ArtRecord /\ NoArtifact.validFrom = None
  BY DEF TInv, TypeOK, NoArtifact, ArtRecord, ArtifactState
<1>1. \A as : \A a \in ArtId : Invalidated(art, as)[a].validFrom = art[a].validFrom
  BY <1>0 DEF Invalidated, ArtRecord
<1>2. \A x \in ArtRecord : \A cs, ts : Joined(x, cs, ts).validFrom = x.validFrom
  BY DEF Joined, ArtRecord
<1>3. ASSUME NEW t \in Task, NEW f \in Fragment, SubmitTask(t, f) PROVE Dates /\ now' = now
  <2>1. PICK lastWork \in nextWork - 1 .. MaxWork, lastArt \in nextArt - 1 .. MaxArt :
          \E m \in Numberings(FreshWork(f, t), nextWork, lastWork),
             n \in Numberings(DOMAIN f.artifacts \ Hits(f, t), nextArt, lastArt) : Graft(t, f, m, n)
    BY <1>3, Zenon DEF SubmitTask
  <2>2. PICK m \in Numberings(FreshWork(f, t), nextWork, lastWork),
             n \in Numberings(DOMAIN f.artifacts \ Hits(f, t), nextArt, lastArt) : Graft(t, f, m, n)
    BY <2>1
  <2> DEFINE A == GlobalArt(f, t, n)
             W == GlobalWork(f, t, m)
             keys == FragmentKeys(f, t)
             specs == DOMAIN f.artifacts
             new == specs \ Hits(f, t)
             stale == UNION {Stale(keys[i], f.artifacts[i].maxAge) : i \in specs}
             Consumers(i) == {W[l] : l \in f.artifacts[i].consumers}
             Joining(a) == UNION {Consumers(i) : i \in {j \in specs : A[j] = a}}
             source(a) == CHOOSE j \in new : n[j] = a
             made(a) == [NoArtifact EXCEPT !.state = "FUTURE", !.producer = W[f.artifacts[source(a)].producer],
                                   !.consumers = Consumers(source(a)), !.key = keys[source(a)], !.tasks = {t}]
             joined(a) == Joined(Invalidated(art, stale)[a], Joining(a), {x \in {t} : \E i \in specs : A[i] = a})
  <2>3. art' = [a \in ArtId |-> IF \E i \in new : n[i] = a THEN made(a) ELSE joined(a)]
    BY <2>2, Zenon DEF Graft
  <2>4. \A a \in ArtId : made(a).validFrom = None
    BY <1>0 DEF NoArtifact
  <2>5. \A a \in ArtId : joined(a).validFrom = art[a].validFrom
    <3>1. \A a \in ArtId : Invalidated(art, stale)[a] \in ArtRecord
      BY <1>0, InvalidatedType
    <3> HIDE DEF stale, Joining, A, specs
    <3>2. QED
      BY <1>1, <1>2, <3>1
  <2> HIDE DEF made, joined, new, A, W, keys, specs, stale, Consumers, Joining, source
  <2>6. Dates
    BY <2>3, <2>4, <2>5 DEF Dates
  <2>7. QED
    BY <1>3, <2>6, Zenon DEF SubmitTask
<1>4. ASSUME NEW c \in WorkId, NEW t \in Task, NEW i \in Identity \cup {None}, NEW age \in Age, NEW g \in Agent,
             ResolveArtifact(c, t, i, age, g)
      PROVE  Dates /\ now' = now
  <2> DEFINE k == KeyOf(i, t)
             hit == Reusable(k, age)
             a == IF hit THEN active[k] ELSE nextArt
             p == IF hit THEN art[a].producer ELSE nextWork
             asked == IF hit THEN Joined(art[a], {c}, {t})
                      ELSE [NoArtifact EXCEPT !.state = "FUTURE", !.producer = p, !.consumers = {c},
                                              !.key = k, !.tasks = {t}]
  <2>1. art' = [Invalidated(art, Stale(k, age)) EXCEPT ![a] = asked] /\ now' = now
    BY <1>4, Zenon DEF ResolveArtifact
  <2>2. a \in ArtId => asked.validFrom \in {art[a].validFrom, None}
    <3>1. CASE hit
      <4>1. a \in ArtId => art[a] \in ArtRecord
        BY <1>0
      <4>2. asked = Joined(art[a], {c}, {t})
        BY <3>1
      <4> HIDE DEF a, asked
      <4>3. QED
        BY <1>2, <4>1, <4>2
    <3>2. CASE ~hit
      BY <3>2 DEF NoArtifact
    <3>3. QED
      BY <3>1, <3>2
  <2>3. Invalidated(art, Stale(k, age)) \in [ArtId -> ArtRecord]
    BY <1>0, InvalidatedType
  <2> HIDE DEF k, hit, a, p, asked
  <2>4. QED
    BY <1>1, <2>1, <2>2, <2>3 DEF Dates
<1>5. ASSUME NEW w \in WorkId, NEW s \in Assignment, NEW g \in Capable, NEW i \in Identity \cup {None},
             NEW age \in Age, NEW d \in Draft, ExpandWork(w, s, g, i, age, d)
      PROVE  Dates /\ now' = now
  <2> DEFINE ts == work[w].tasks
             k == ExpansionKey(i, ts)
             hit == Reusable(k, age)
             c == nextWork
             a == IF hit THEN active[k] ELSE nextArt + 1
             p == IF hit THEN art[a].producer ELSE nextWork + 1
             checkpoint == [state |-> "CONCRETE", producer |-> w, consumers |-> {c}, key |-> None, tasks |-> ts,
                            observedAt |-> SeenAt(d), validFrom |-> now, validUntil |-> d.validUntil]
             made == [NoArtifact EXCEPT !.state = "FUTURE", !.producer = p, !.consumers = {c}, !.key = k, !.tasks = ts]
             joined == Joined(art[a], {c}, ts)
  <2>1. /\ art' = [b \in ArtId |-> IF b = nextArt THEN checkpoint
                                  ELSE IF b = a /\ hit THEN joined
                                  ELSE IF b = a THEN made
                                  ELSE Invalidated(art, Stale(k, age))[b]]
        /\ now' = now
    BY <1>5, Zenon DEF ExpandWork
  <2>2. checkpoint.validFrom = now /\ made.validFrom = None
    BY DEF NoArtifact
  <2>3. a \in ArtId => joined.validFrom = art[a].validFrom
    <3>1. a \in ArtId => art[a] \in ArtRecord
      BY <1>0
    <3> HIDE DEF a
    <3>2. QED
      BY <1>2, <3>1
  <2> HIDE DEF ts, k, hit, c, a, p, checkpoint, made, joined
  <2>4. QED
    BY <1>1, <2>1, <2>2, <2>3 DEF Dates
<1>6. ASSUME NEW w \in WorkId, NEW s \in Assignment, NEW complete \in BOOLEAN, NEW d \in Draft,
             CommitWork(w, s, complete, d)
      PROVE  Dates /\ now' = now
  <2>1. art' = Concretized(w, d) /\ now' = now
    BY <1>6, Zenon DEF CommitWork, Finish
  <2>2. SeenAt(d) = now
    BY DEF SeenAt, Undated
  <2>3. \A a \in ArtId : Concretized(w, d)[a].validFrom \in {art[a].validFrom, SeenAt(d)}
    BY <1>0 DEF Concretized, ArtRecord
  <2>4. QED
    BY <2>1, <2>2, <2>3 DEF Dates
<1>7. ASSUME NEW w \in WorkId, FailOutputs(w), now' = now PROVE Dates /\ now' = now
  BY <1>0, <1>7 DEF FailOutputs, Dates, ArtRecord
<1>8. ASSUME NEW as, art' = Invalidated(art, as), now' = now PROVE Dates /\ now' = now
  BY <1>1, <1>8 DEF Dates
<1>9. ASSUME art' = art, now' = now PROVE Dates /\ now' = now
  BY <1>9 DEF Dates
<1>10. ASSUME NEW w \in WorkId, NEW s \in Assignment,
              \/ Assign(w, s) \/ Start(w, s) \/ RepeatCommit(w, s) \/ FailWork(w, s)
              \/ \E complete \in BOOLEAN : RejectWork(w, s, complete)
       PROVE  Dates /\ now' = now
  <2>1. CASE Assign(w, s) \/ Start(w, s) \/ RepeatCommit(w, s)
    BY <1>9, <2>1 DEF Assign, Start, RepeatCommit, vars, graph
  <2>2. CASE FailWork(w, s) \/ \E complete \in BOOLEAN : RejectWork(w, s, complete)
    BY <1>7, <2>2 DEF FailWork, RejectWork, Finish
  <2>3. QED
    BY <1>10, <2>1, <2>2
<1>11. ASSUME \/ SweepExpired \/ RefreshReadiness \/ RebuildArtifactIndex
              \/ \E a \in ArtId : InvalidateArtifact(a)
              \/ \E t \in Task, success \in BOOLEAN : EvaluateTask(t, success)
       PROVE  Dates /\ now' = now
  <2>1. CASE SweepExpired \/ RefreshReadiness \/ \E a \in ArtId : InvalidateArtifact(a)
    BY <1>8, <2>1 DEF SweepExpired, RefreshReadiness, Expire, InvalidateArtifact
  <2>2. CASE RebuildArtifactIndex \/ \E t \in Task, success \in BOOLEAN : EvaluateTask(t, success)
    BY <1>9, <2>2 DEF RebuildArtifactIndex, EvaluateTask
  <2>3. QED
    BY <1>11, <2>1, <2>2
<1>12. QED
  BY <1>3, <1>4, <1>5, <1>6, <1>10, <1>11, Zenon DEF Operate

\* Executors that leave the date to the steward never make it read the future: the
\* clock only moves forward.
THEOREM ReadinessUndated ==
  ASSUME Undated
  PROVE  Spec => []ReadinessCurrent
<1>1. Init => TInv /\ Punctual
  <2>1. Init => Punctual
    BY DEF Init, Punctual, NoArtifact
  <2>2. QED
    BY <2>1, TInvInit
<1>2. TInv /\ Punctual /\ [Next]_vars => TInv' /\ Punctual'
  <2> SUFFICES ASSUME TInv, Punctual, [Next]_vars PROVE Punctual'
    BY TInvNext
  <2>1. art \in [ArtId -> ArtRecord] /\ now \in Nat
    BY BoundAssumption DEF TInv, TypeOK, Time
  <2>2. Dates /\ now' \in {now, now + 1}
    <3>1. CASE Operate
      BY <3>1, OperationDates
    <3>2. CASE Tick \/ UNCHANGED vars
      BY <3>2 DEF Tick, vars, graph, Dates
    <3>3. QED
      BY <3>1, <3>2 DEF Next
  <2>3. \A a \in ArtId : art[a].validFrom \in Nat \cup {None}
    BY <2>1 DEF ArtRecord
  <2>4. QED
    BY <2>1, <2>2, <2>3 DEF Punctual, Dates
<1>3. QED
  BY <1>1, <1>2, ReadinessHolds, PTL DEF Spec

===============================================================================
