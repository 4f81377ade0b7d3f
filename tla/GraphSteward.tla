---------------------------- MODULE GraphSteward ----------------------------
(***************************************************************************)
(* The GraphSteward: the only writer of the Global Execution Graph.        *)
(*                                                                         *)
(* Every mutator of the class takes the steward's lock, works on a copy    *)
(* of the record and of the ArtifactIndex, refreshes readiness,            *)
(* validates the copy and publishes it, so each is one atomic action       *)
(* here; a call that raises GraphError publishes nothing and is an         *)
(* action that is not enabled.  Nodes are numbered in the order they are   *)
(* created, which is the order of the identifiers "W000001", "A000001"     *)
(* and of created_order. Goals, payloads, metadata and the event log are   *)
(* left out.                                                               *)
(***************************************************************************)
EXTENDS Integers, Sequences

CONSTANTS
  Agent,        \* registered AppAgents
  Capable,      \* the agents that provide the capability an expansion asks for
  Task,         \* task ids that may be submitted
  Identity,     \* schema-normalised artifact identities, scope left out
  TaskScoped,   \* the identities whose schema has sharing_scope "task"
  TTL,          \* default_freshness_seconds of an identity's schema
  Assignment,   \* assignment ids
  Fragment,     \* task fragments that may be submitted
  MaxAge,       \* freshness requirements a consumer may ask for
  Draft,        \* observed_at and valid_until of the drafts an executor may hand in
  MaxWork,      \* bound: WORK nodes ever created
  MaxArt,       \* bound: Artifact nodes ever created
  MaxTime,      \* bound: readings of the clock
  None

WorkId == 1 .. MaxWork
ArtId  == 1 .. MaxArt
Time   == 0 .. MaxTime
Kind   == {"PRECEDES", "PRODUCES", "CONSUMES"}
Age    == MaxAge \cup {None}
Key    == Identity \X (Task \cup {None})

ASSUME BoundAssumption == MaxWork \in Nat /\ MaxArt \in Nat /\ MaxTime \in Nat
ASSUME NoneAssumption ==
  None \notin Nat /\ None \notin Key /\ None \notin Assignment /\ None \notin Identity
ASSUME OutcomeAssumption == None \notin {"completed", "failed", "checkpoint"}
ASSUME AgentAssumption == Capable \subseteq Agent /\ None \notin Agent
ASSUME AgeAssumption == MaxAge \subseteq Nat /\ TTL \in [Identity -> Nat \cup {None}]
ASSUME DraftAssumption ==
  Draft \subseteq [observedAt : Nat \cup {None}, validUntil : Nat \cup {None}]

\* WORK is a local position 1, 2, ... of the fragment; None as identity is an
\* unindexed artifact, {} as terminals is "not given".
ArtifactSpec == [producer : Nat, consumers : SUBSET Nat, identity : Identity \cup {None}, maxAge : Age]
ASSUME FragmentAssumption ==
  \A f \in Fragment :
    /\ f.work \in Seq(Agent)
    /\ f.control \in SUBSET (Nat \X Nat)
    /\ f.artifacts \in Seq(ArtifactSpec)
    /\ f.terminals \in SUBSET Nat

VARIABLES
  work,      \* WORK nodes: who runs them and how they hang in the graph
  status,    \* WorkStatus of each WORK node, "ABSENT" before it is created
  asg,       \* assignment_id of each WORK node
  outcome,   \* how a finished WORK node ended
  art,       \* Artifact nodes
  edges,     \* dependency edges <<kind, from, to>>
  active,    \* ArtifactIndex._active
  history,   \* ArtifactIndex._history, a set: node numbers give its order
  task,      \* TaskRecords
  nextWork, nextArt,
  now        \* the clock the steward reads

graph == <<work, status, asg, outcome, art, edges, active, history, task, nextWork, nextArt>>
vars  == <<graph, now>>

NoWork == [agent |-> None, preds |-> {}, inputs |-> {}, outs |-> {}, tasks |-> {}]
NoArtifact == [state |-> "ABSENT", producer |-> None, consumers |-> {}, key |-> None, tasks |-> {},
               observedAt |-> None, validFrom |-> None, validUntil |-> None]
NoTask == [status |-> "ABSENT", terminals |-> {}, work |-> {}, arts |-> {}]

-----------------------------------------------------------------------------
(* Identity, freshness and readiness.                                      *)

\* The scope of a task-scoped identity is the one task that asks for it.
KeyOf(i, t) == IF i = None THEN None ELSE <<i, IF i \in TaskScoped THEN t ELSE None>>

\* _artifact_satisfies
Satisfies(a, age) ==
  /\ a.state = "CONCRETE"
  /\ a.validFrom # None => now >= a.validFrom
  /\ a.validUntil # None => now <= a.validUntil
  /\ age # None => a.observedAt # None /\ now - a.observedAt <= age

\* _active_artifact: the index entry of k can serve a new consumer ...
Reusable(k, age) ==
  /\ k # None
  /\ active[k] # None
  /\ art[active[k]].state = "FUTURE" \/ Satisfies(art[active[k]], age)

StaleKept(k, age) == {}  \* mutant of Stale

\* ... or is invalidated because it is too old for it.
Stale(k, age) == IF k # None /\ ~Reusable(k, age) /\ active[k] # None THEN {active[k]} ELSE {}

RetiredToZero(index, as) == [k \in Key |-> IF index[k] \in as THEN 0 ELSE index[k]]  \* mutant of Retired

\* ArtifactIndex.retire for every artifact of a set
Retired(index, as) == [k \in Key |-> IF index[k] \in as THEN None ELSE index[k]]

Invalidated(ar, as) == [a \in ArtId |-> IF a \in as THEN [ar[a] EXCEPT !.state = "INVALIDATED"] ELSE ar[a]]

\* _attach_consumers
Joined(ar, cs, ts) == [ar EXCEPT !.consumers = @ \cup cs, !.tasks = @ \cup ts]

\* All control predecessors are DONE and all required artifacts are usable.
Runnable(v, st, wk, ar) ==
  /\ \A p \in wk[v].preds : st[p] = "DONE"
  /\ \A r \in wk[v].inputs : Satisfies(ar[r.art], r.maxAge)

SettledBlockedOnly(st, wk, ar) ==  \* mutant of SettledWork
  [v \in WorkId |-> IF st[v] = "BLOCKED" /\ Runnable(v, st, wk, ar) THEN "READY" ELSE st[v]]

\* _refresh, WORK part: only BLOCKED and READY nodes are reconsidered.
SettledWork(st, wk, ar) ==
  [v \in WorkId |-> IF st[v] \in {"BLOCKED", "READY"}
                    THEN IF Runnable(v, st, wk, ar) THEN "READY" ELSE "BLOCKED"
                    ELSE st[v]]

\* _refresh, task part: the task-scoped completion condition.
TaskVerdict(terminals, st) ==
  IF terminals # {} /\ \A v \in terminals : st[v] = "DONE" THEN "READY_FOR_EVALUATION"
  ELSE IF \E v \in terminals : st[v] = "FAILED" THEN "FAILED"
  ELSE "ACTIVE"

SettledTasks(tk, st) ==
  [t \in Task |-> IF tk[t].status \in {"ABSENT", "DONE", "FAILED"} THEN tk[t]
                  ELSE [tk[t] EXCEPT !.status = TaskVerdict(tk[t].terminals, st)]]

\* x must finish before y: by control, or through an artifact.
Feeds(E, x, y) ==
  \/ <<"PRECEDES", x, y>> \in E
  \/ \E a \in ArtId : <<"PRODUCES", x, a>> \in E /\ <<"CONSUMES", a, y>> \in E

IsLoopFree(E) == {v \in WorkId : Feeds(E, v, v)} = {}  \* mutant of IsAcyclic

\* _validate_acyclic: taking away nodes without a predecessor, one after the
\* other, leaves nothing; that is, there are no nodes that all wait for each other.
IsAcyclic(E) ==
  LET feeds == {e \in WorkId \X WorkId : Feeds(E, e[1], e[2])}
  IN  {S \in (SUBSET WorkId) \ {{}} : \A y \in S : \E x \in S : <<x, y>> \in feeds} = {}

-----------------------------------------------------------------------------
Init ==
  /\ work = [w \in WorkId |-> NoWork]
  /\ status = [w \in WorkId |-> "ABSENT"]
  /\ asg = [w \in WorkId |-> None]
  /\ outcome = [w \in WorkId |-> None]
  /\ art = [a \in ArtId |-> NoArtifact]
  /\ edges = {}
  /\ active = [k \in Key |-> None]
  /\ history = [k \in Key |-> {}]
  /\ task = [t \in Task |-> NoTask]
  /\ nextWork = 1 /\ nextArt = 1
  /\ now = 0

-----------------------------------------------------------------------------
(* submit_task_fragment                                                    *)

ValidWithoutHandoffRule(f) ==  \* mutant of ValidFragment
  LET locals == DOMAIN f.work
      specs  == DOMAIN f.artifacts
  IN  /\ locals # {}
      /\ f.control \subseteq locals \X locals
      /\ \A i \in specs : f.artifacts[i].producer \in locals /\ f.artifacts[i].consumers \subseteq locals
      /\ \A i, j \in specs : f.artifacts[i].producer = f.artifacts[j].producer => i = j
      /\ f.terminals \subseteq locals

ValidWithSeveralOutputs(f) ==  \* mutant of ValidFragment
  LET locals == DOMAIN f.work
      specs  == DOMAIN f.artifacts
      providers == {f.artifacts[i].producer : i \in specs}
  IN  /\ locals # {}
      /\ f.control \subseteq locals \X locals
      /\ \A e \in f.control : e[1] \notin providers /\ e[2] \notin providers
      /\ \A i \in specs : f.artifacts[i].producer \in locals /\ f.artifacts[i].consumers \subseteq locals
      /\ f.terminals \subseteq locals

\* _validate_fragment
ValidFragment(f) ==
  LET locals == DOMAIN f.work
      specs  == DOMAIN f.artifacts
      providers == {f.artifacts[i].producer : i \in specs}
  IN  /\ locals # {}
      /\ f.control \subseteq locals \X locals
      /\ \A e \in f.control : e[1] \notin providers /\ e[2] \notin providers
      /\ \A i \in specs : f.artifacts[i].producer \in locals /\ f.artifacts[i].consumers \subseteq locals
      /\ \A i, j \in specs : f.artifacts[i].producer = f.artifacts[j].producer => i = j
      /\ f.terminals \subseteq locals

\* The numberings of the positions ps, in their order, by first .. last.
Numberings(ps, first, last) ==
  {m \in [ps -> first .. last] :
     /\ \A i, j \in ps : i < j => m[i] < m[j]
     /\ \A g \in first .. last : \E i \in ps : m[i] = g}

FragmentKeys(f, t) == [i \in DOMAIN f.artifacts |-> KeyOf(f.artifacts[i].identity, t)]

\* Artifacts of the fragment that an active artifact already answers.
Hits(f, t) == {i \in DOMAIN f.artifacts : Reusable(FragmentKeys(f, t)[i], f.artifacts[i].maxAge)}

\* Every local WORK becomes a new node, except the provider of a hit.
FreshWork(f, t) == {l \in DOMAIN f.work : \A i \in Hits(f, t) : f.artifacts[i].producer # l}

\* local_map, for artifacts and for WORK
GlobalArt(f, t, n) ==
  [i \in DOMAIN f.artifacts |-> IF i \in Hits(f, t) THEN active[FragmentKeys(f, t)[i]] ELSE n[i]]
GlobalWork(f, t, m) ==
  [l \in DOMAIN f.work |->
     IF l \in FreshWork(f, t) THEN m[l]
     ELSE art[active[FragmentKeys(f, t)[CHOOSE i \in Hits(f, t) : f.artifacts[i].producer = l]]].producer]

\* Explicit terminals, or the referenced WORK that precedes and produces nothing.
Terminals(f, W, E) ==
  IF f.terminals # {} THEN {W[l] : l \in f.terminals}
  ELSE {W[l] : l \in DOMAIN W} \ {e[2] : e \in {x \in E : x[1] \in {"PRECEDES", "PRODUCES"}}}

\* The graph once fragment f of task t is in, m and n numbering its new nodes.
Graft(t, f, m, n) ==
  LET A == GlobalArt(f, t, n)
      W == GlobalWork(f, t, m)
      keys == FragmentKeys(f, t)
      specs == DOMAIN f.artifacts
      new == specs \ Hits(f, t)
      stale == UNION {Stale(keys[i], f.artifacts[i].maxAge) : i \in specs}
      created == {m[l] : l \in FreshWork(f, t)}
      Consumers(i) == {W[l] : l \in f.artifacts[i].consumers}
      Joining(a) == UNION {Consumers(i) : i \in {j \in specs : A[j] = a}}
      Registered(k) == {i \in new : keys[i] = k}
  IN
  /\ work' = [v \in WorkId |->
       [agent  |-> IF v \in created THEN f.work[CHOOSE l \in FreshWork(f, t) : m[l] = v] ELSE work[v].agent,
        preds  |-> work[v].preds \cup {W[e[1]] : e \in {x \in f.control : W[x[2]] = v}},
        inputs |-> work[v].inputs \cup {[art |-> A[i], maxAge |-> f.artifacts[i].maxAge] :
                                          i \in {j \in specs : v \in Consumers(j)}},
        outs   |-> work[v].outs \cup {A[i] : i \in {j \in new : W[f.artifacts[j].producer] = v}},
        tasks  |-> work[v].tasks \cup {x \in {t} : \E l \in DOMAIN W : W[l] = v}]]
  /\ asg' = asg /\ outcome' = outcome
  /\ art' = [a \in ArtId |->
       IF \E i \in new : n[i] = a
       THEN LET i == CHOOSE j \in new : n[j] = a
            IN  [NoArtifact EXCEPT !.state = "FUTURE", !.producer = W[f.artifacts[i].producer],
                                   !.consumers = Consumers(i), !.key = keys[i], !.tasks = {t}]
       ELSE Joined(Invalidated(art, stale)[a], Joining(a), {x \in {t} : \E i \in specs : A[i] = a})]
  /\ edges' = edges
       \cup {<<"PRECEDES", W[e[1]], W[e[2]]>> : e \in f.control}
       \cup {<<"PRODUCES", W[f.artifacts[i].producer], A[i]>> : i \in new}
       \cup UNION {{<<"CONSUMES", A[i], v>> : v \in Consumers(i)} : i \in specs}
  /\ active' = [k \in Key |-> IF Registered(k) # {} THEN A[CHOOSE i \in Registered(k) : TRUE]
                              ELSE Retired(active, stale)[k]]
  /\ history' = [k \in Key |-> history[k] \cup {A[i] : i \in Registered(k)}]
  /\ status' = SettledWork([v \in WorkId |-> IF v \in created THEN "BLOCKED" ELSE status[v]], work', art')
  /\ task' = SettledTasks([task EXCEPT ![t] =
       [status |-> "ACTIVE", terminals |-> Terminals(f, W, edges'),
        work |-> {W[l] : l \in DOMAIN W}, arts |-> {A[i] : i \in specs}]], status')

SubmitTask(t, f) ==
  /\ task[t].status = "ABSENT"
  /\ ValidFragment(f)
  /\ \A i, j \in DOMAIN f.artifacts :
       FragmentKeys(f, t)[i] = FragmentKeys(f, t)[j] => i = j \/ FragmentKeys(f, t)[i] = None
  /\ \E lastWork \in nextWork - 1 .. MaxWork, lastArt \in nextArt - 1 .. MaxArt :
     \E m \in Numberings(FreshWork(f, t), nextWork, lastWork),
        n \in Numberings(DOMAIN f.artifacts \ Hits(f, t), nextArt, lastArt) :
          /\ Graft(t, f, m, n)
          /\ nextWork' = lastWork + 1 /\ nextArt' = lastArt + 1
  /\ IsAcyclic(edges')
  /\ UNCHANGED now

-----------------------------------------------------------------------------
(* resolve_artifact                                                        *)

\* Consumer c of task t asks for the artifact identified by i, at most age old;
\* agent g would produce it.
ResolveArtifact(c, t, i, age, g) ==
  LET k == KeyOf(i, t)
      hit == Reusable(k, age)
      a == IF hit THEN active[k] ELSE nextArt
      p == IF hit THEN art[a].producer ELSE nextWork
      provider == IF hit THEN [work[p] EXCEPT !.tasks = @ \cup {t}]
                  ELSE [NoWork EXCEPT !.agent = g, !.outs = {a}, !.tasks = {t}]
      asked == IF hit THEN Joined(art[a], {c}, {t})
               ELSE [NoArtifact EXCEPT !.state = "FUTURE", !.producer = p, !.consumers = {c},
                                       !.key = k, !.tasks = {t}]
  IN
  /\ status[c] \in {"BLOCKED", "READY"}
  /\ task[t].status # "ABSENT"
  /\ ~hit => nextWork <= MaxWork /\ nextArt <= MaxArt
  /\ nextWork' = IF hit THEN nextWork ELSE nextWork + 1
  /\ nextArt' = IF hit THEN nextArt ELSE nextArt + 1
  /\ work' = [[work EXCEPT ![p] = provider] EXCEPT ![c].inputs = @ \cup {[art |-> a, maxAge |-> age]}]
  /\ art' = [Invalidated(art, Stale(k, age)) EXCEPT ![a] = asked]
  /\ edges' = edges \cup {<<"PRODUCES", p, a>>, <<"CONSUMES", a, c>>}
  /\ active' = [x \in Key |-> IF x = k THEN a ELSE active[x]]
  /\ history' = [x \in Key |-> IF x = k THEN history[x] \cup {a} ELSE history[x]]
  /\ status' = SettledWork(IF hit THEN status ELSE [status EXCEPT ![p] = "BLOCKED"], work', art')
  /\ task' = SettledTasks([task EXCEPT ![t].work = @ \cup {p}, ![t].arts = @ \cup {a}], status')
  /\ IsAcyclic(edges')
  /\ UNCHANGED <<asg, outcome, now>>

-----------------------------------------------------------------------------
(* Assignments, completion and failure                                     *)

\* _transition_assignment; the graph is not refreshed
Assign(w, s) ==
  /\ status[w] = "READY"
  /\ status' = [status EXCEPT ![w] = "ASSIGNED"]
  /\ asg' = [asg EXCEPT ![w] = s]
  /\ UNCHANGED <<work, outcome, art, edges, active, history, task, nextWork, nextArt, now>>

Start(w, s) ==
  /\ status[w] = "ASSIGNED"
  /\ asg[w] = s
  /\ status' = [status EXCEPT ![w] = "RUNNING"]
  /\ UNCHANGED <<work, asg, outcome, art, edges, active, history, task, nextWork, nextArt, now>>

\* _require_assignment
Holds(w, s) == status[w] = "RUNNING" /\ asg[w] = s

RejectsIncomplete(w, complete) == work[w].outs # {} /\ ~complete  \* mutant of Rejects

\* _completion_rejection: complete says that the drafts match the outputs one
\* to one, each with a value and evidence.
Rejects(w, complete) ==
  /\ work[w].outs # {}
  /\ complete => {a \in work[w].outs : art[a].state # "FUTURE" \/ art[a].producer # w} # {}

\* observed_at or now: the time 0 counts as not given
SeenAt(d) == IF d.observedAt \in {None, 0} THEN now ELSE d.observedAt

\* _concretize_outputs
Concretized(w, d) ==
  LET seen == SeenAt(d)
      Until(k) == IF d.validUntil # None \/ k = None THEN d.validUntil
                  ELSE IF TTL[k[1]] = None THEN None ELSE seen + TTL[k[1]]
  IN  [a \in ArtId |->
         IF a \in work[w].outs
         THEN [art[a] EXCEPT !.state = "CONCRETE", !.observedAt = seen, !.validFrom = seen,
                             !.validUntil = Until(art[a].key)]
         ELSE art[a]]

UnfinishedIndexed(w) ==  \* mutant of Unfinished
  {a \in work[w].outs : art[a].state = "FUTURE" /\ art[a].key # None}

\* _fail_outputs
Unfinished(w) == {a \in work[w].outs : art[a].state = "FUTURE"}

Finish(w, st, how) ==
  /\ outcome' = [outcome EXCEPT ![w] = how]
  /\ status' = SettledWork([status EXCEPT ![w] = st], work', art')
  /\ task' = SettledTasks(task, status')
  /\ UNCHANGED <<work, asg, edges, history, nextWork, nextArt, now>>

FailOutputsKeepIndex(w) ==  \* mutant of FailOutputs
  /\ art' = [a \in ArtId |-> IF a \in Unfinished(w) THEN [art[a] EXCEPT !.state = "FAILED"] ELSE art[a]]
  /\ active' = active

FailOutputs(w) ==
  /\ art' = [a \in ArtId |-> IF a \in Unfinished(w) THEN [art[a] EXCEPT !.state = "FAILED"] ELSE art[a]]
  /\ active' = Retired(active, Unfinished(w))

CommitWork(w, s, complete, d) ==
  /\ Holds(w, s)
  /\ ~Rejects(w, complete)
  /\ work' = work
  /\ art' = Concretized(w, d)
  /\ active' = active
  /\ Finish(w, "DONE", "completed")

RejectWork(w, s, complete) ==
  /\ Holds(w, s)
  /\ Rejects(w, complete)
  /\ work' = work
  /\ FailOutputs(w)
  /\ Finish(w, "FAILED", "failed")

\* A commit repeated by the assignment that finished the WORK is answered again.
RepeatCommit(w, s) ==
  /\ status[w] = "DONE"
  /\ asg[w] = s
  /\ UNCHANGED vars

FailWork(w, s) ==
  /\ Holds(w, s)
  /\ work' = work
  /\ FailOutputs(w)
  /\ Finish(w, "FAILED", "failed")

-----------------------------------------------------------------------------
(* expand_work                                                             *)

Keep(S, x, y) == S  \* mutant of Replace

Replace(S, x, y) == IF x \in S THEN (S \ {x}) \cup {y} ELSE S

RewiredToNobody(w, c) == {e \in edges : ~(e[1] = "PRECEDES" /\ e[2] = w)}  \* mutant of Rewired

\* The control edges out of w now leave from c.
Rewired(w, c) ==
  {IF e[1] = "PRECEDES" /\ e[2] = w THEN <<"PRECEDES", c, e[3]>> ELSE e : e \in edges}

ExpansionKeyAlways(i, ts) == TRUE  \* mutant of ExpansionKeyDefined

\* Key of an identity asked for by a WORK of the tasks ts: its schema has to
\* canonicalise it, and a task-scoped one needs exactly one task.
ExpansionKeyDefined(i, ts) ==
  /\ i \in Identity \cup {None}
  /\ i \in TaskScoped => \E t \in ts : ts = {t}
ExpansionKey(i, ts) == KeyOf(i, CHOOSE t \in ts : TRUE)

\* WORK w, running under s, checkpoints with draft d and asks agent g for the
\* artifact identified by i: a continuation c takes its place and consumes the
\* checkpoint and the requested artifact.
ExpandWork(w, s, g, i, age, d) ==
  LET ts == work[w].tasks
      k == ExpansionKey(i, ts)
      hit == Reusable(k, age)
      c == nextWork
      checkpoint == nextArt
      a == IF hit THEN active[k] ELSE nextArt + 1
      p == IF hit THEN art[a].producer ELSE nextWork + 1
  IN
  /\ Holds(w, s)
  /\ g \in Capable
  /\ ts # {}
  /\ ExpansionKeyDefined(i, ts)
  /\ nextWork' = IF hit THEN nextWork + 1 ELSE nextWork + 2
  /\ nextArt' = IF hit THEN nextArt + 1 ELSE nextArt + 2
  /\ nextWork' <= MaxWork + 1 /\ nextArt' <= MaxArt + 1
  /\ work' = [v \in WorkId |->
       IF v = c
       THEN [agent |-> work[w].agent, preds |-> {w}, outs |-> {}, tasks |-> ts,
             inputs |-> {[art |-> checkpoint, maxAge |-> None], [art |-> a, maxAge |-> age]}]
       ELSE IF v = p /\ ~hit THEN [NoWork EXCEPT !.agent = g, !.outs = {a}, !.tasks = ts]
       ELSE IF v = w THEN [work[w] EXCEPT !.outs = @ \cup {checkpoint}]
       ELSE IF <<"PRECEDES", w, v>> \in edges THEN [work[v] EXCEPT !.preds = Replace(@, w, c)]
       ELSE work[v]]
  /\ art' = [b \in ArtId |->
       IF b = checkpoint
       THEN [state |-> "CONCRETE", producer |-> w, consumers |-> {c}, key |-> None, tasks |-> ts,
             observedAt |-> SeenAt(d), validFrom |-> now, validUntil |-> d.validUntil]
       ELSE IF b = a /\ hit THEN Joined(art[a], {c}, ts)
       ELSE IF b = a
       THEN [NoArtifact EXCEPT !.state = "FUTURE", !.producer = p, !.consumers = {c}, !.key = k, !.tasks = ts]
       ELSE Invalidated(art, Stale(k, age))[b]]
  /\ edges' = Rewired(w, c) \cup
       {<<"PRODUCES", w, checkpoint>>, <<"CONSUMES", checkpoint, c>>, <<"PRODUCES", p, a>>,
        <<"CONSUMES", a, c>>, <<"PRECEDES", w, c>>}
  /\ active' = [x \in Key |-> IF x = k THEN a ELSE active[x]]
  /\ history' = [x \in Key |-> IF x = k THEN history[x] \cup {a} ELSE history[x]]
  /\ asg' = asg
  /\ outcome' = [outcome EXCEPT ![w] = "checkpoint"]
  /\ status' = SettledWork([v \in WorkId |-> IF v = w THEN "DONE"
                              ELSE IF v = c \/ (v = p /\ ~hit) THEN "BLOCKED" ELSE status[v]], work', art')
  /\ task' = SettledTasks([t \in Task |->
       IF t \in ts
       THEN [task[t] EXCEPT !.terminals = Replace(@, w, c), !.work = @ \cup {p, c}, !.arts = @ \cup {checkpoint, a}]
       ELSE task[t]], status')
  /\ UNCHANGED now

-----------------------------------------------------------------------------
(* Invalidation, expiry, evaluation and the clock                          *)

InvalidateArtifact(a) ==
  /\ art[a].state \in {"FUTURE", "CONCRETE"}
  /\ art' = Invalidated(art, {a})
  /\ active' = Retired(active, {a})
  /\ status' = SettledWork(status, work, art')
  /\ task' = SettledTasks(task, status')
  /\ UNCHANGED <<work, asg, outcome, edges, history, nextWork, nextArt, now>>

Expired == {a \in ArtId : art[a].state = "CONCRETE" /\ art[a].validUntil # None /\ now > art[a].validUntil}

\* Expired artifacts are invalidated and readiness is refreshed.
Expire ==
  /\ art' = Invalidated(art, Expired)
  /\ active' = Retired(active, Expired)
  /\ status' = SettledWork(status, work, art')
  /\ task' = SettledTasks(task, status')
  /\ UNCHANGED <<work, asg, outcome, edges, history, nextWork, nextArt, now>>

SweepExpired == Expired # {} /\ Expire

\* refresh_readiness publishes only when an artifact expired or a WORK changed.
NeedsRefresh == Expired # {} \/ SettledWork(status, work, Invalidated(art, Expired)) # status

RefreshReadiness == NeedsRefresh = TRUE /\ Expire

EvaluateAnyTask(t, success) ==  \* mutant of EvaluateTask
  /\ task[t].status # "ABSENT"
  /\ task' = [task EXCEPT ![t].status = IF success THEN "DONE" ELSE "FAILED"]
  /\ UNCHANGED <<work, status, asg, outcome, art, edges, active, history, nextWork, nextArt, now>>

EvaluateTask(t, success) ==
  /\ task[t].status # "ABSENT"
  /\ success => task[t].status = "READY_FOR_EVALUATION"
  /\ task' = [task EXCEPT ![t].status = IF success THEN "DONE" ELSE "FAILED"]
  /\ UNCHANGED <<work, status, asg, outcome, art, edges, active, history, nextWork, nextArt, now>>

\* ArtifactIndex.rebuild: the index computed again from the artifact nodes ar. It
\* raises when two of them would be active for one key.
Generations(ar, k) == {a \in ArtId : ar[a].key = k}
InUse(ar, k) == {a \in Generations(ar, k) : ar[a].state \in {"FUTURE", "CONCRETE"}}
Rebuildable(ar) == \A k \in Key : \A a, b \in InUse(ar, k) : a = b
RebuiltHistory(ar) == [k \in Key |-> Generations(ar, k)]
RebuiltActive(ar) ==
  [k \in Key |-> IF InUse(ar, k) = {} THEN None ELSE CHOOSE a \in ArtId : a \in InUse(ar, k)]

RebuildArtifactIndex ==
  /\ Rebuildable(art)
  /\ history' = RebuiltHistory(art)
  /\ active' = RebuiltActive(art)
  /\ UNCHANGED <<work, status, asg, outcome, art, edges, task, nextWork, nextArt, now>>

\* _validate_record, which every operation runs on the graph it publishes
ValidRecord(g) ==
  LET created == {w \in WorkId : g.status[w] # "ABSENT"}
      known   == {a \in ArtId : g.art[a].state # "ABSENT"}
  IN
  /\ g.edges \subseteq ({"PRECEDES"} \X created \X created) \cup ({"PRODUCES"} \X created \X known)
                        \cup ({"CONSUMES"} \X known \X created)
  /\ \A w \in created :
       /\ g.work[w].agent \in Agent
       /\ \A p \in g.work[w].preds : <<"PRECEDES", p, w>> \in g.edges
       /\ \A r \in g.work[w].inputs : <<"CONSUMES", r.art, w>> \in g.edges
       /\ \A a \in g.work[w].outs : <<"PRODUCES", w, a>> \in g.edges
       /\ g.status[w] \in {"ASSIGNED", "RUNNING"} => g.asg[w] # None
  /\ \A a \in known :
       /\ <<"PRODUCES", g.art[a].producer, a>> \in g.edges
       /\ \A c \in g.art[a].consumers : <<"CONSUMES", a, c>> \in g.edges
  /\ \A t \in Task : g.task[t].terminals \cup g.task[t].work \subseteq created /\ g.task[t].arts \subseteq known
  /\ IsAcyclic(g.edges)
  /\ Rebuildable(g.art) /\ g.history = RebuiltHistory(g.art) /\ g.active = RebuiltActive(g.art)

\* The record and its index, as export_checkpoint writes them
Exported ==
  [work |-> work, status |-> status, asg |-> asg, outcome |-> outcome, art |-> art, edges |-> edges,
   active |-> active, history |-> history, task |-> task, nextWork |-> nextWork, nextArt |-> nextArt]

Tick == now < MaxTime /\ now' = now + 1 /\ UNCHANGED graph

-----------------------------------------------------------------------------
Operate ==
  \/ \E t \in Task, f \in Fragment : SubmitTask(t, f)
  \/ \E c \in WorkId, t \in Task, i \in Identity \cup {None}, age \in Age, g \in Agent : ResolveArtifact(c, t, i, age, g)
  \/ \E w \in WorkId, s \in Assignment :
       \/ Assign(w, s)
       \/ Start(w, s)
       \/ \E complete \in BOOLEAN, d \in Draft : CommitWork(w, s, complete, d)
       \/ \E complete \in BOOLEAN : RejectWork(w, s, complete)
       \/ RepeatCommit(w, s)
       \/ FailWork(w, s)
       \/ \E g \in Capable, i \in Identity \cup {None}, age \in Age, d \in Draft : ExpandWork(w, s, g, i, age, d)
  \/ \E a \in ArtId : InvalidateArtifact(a)
  \/ SweepExpired
  \/ RefreshReadiness
  \/ \E t \in Task, success \in BOOLEAN : EvaluateTask(t, success)
  \/ RebuildArtifactIndex

Next == Operate \/ Tick

Spec == Init /\ [][Next]_vars

-----------------------------------------------------------------------------
(* Properties                                                              *)

WorkStatus == {"ABSENT", "BLOCKED", "READY", "ASSIGNED", "RUNNING", "DONE", "FAILED"}
ArtifactState == {"ABSENT", "FUTURE", "CONCRETE", "INVALIDATED", "FAILED"}
TaskStatus == {"ABSENT", "ACTIVE", "READY_FOR_EVALUATION", "DONE", "FAILED"}
Requirement == [art : ArtId, maxAge : Age]
WorkRecord == [agent : Agent \cup {None}, preds : SUBSET WorkId, inputs : SUBSET Requirement,
               outs : SUBSET ArtId, tasks : SUBSET Task]
ArtRecord == [state : ArtifactState,
              producer : WorkId \cup {None}, consumers : SUBSET WorkId, key : Key \cup {None},
              tasks : SUBSET Task, observedAt : Nat \cup {None}, validFrom : Nat \cup {None},
              validUntil : Nat \cup {None}]
TaskRecord == [status : TaskStatus,
               terminals : SUBSET WorkId, work : SUBSET WorkId, arts : SUBSET ArtId]
Edge == ({"PRECEDES"} \X WorkId \X WorkId) \cup ({"PRODUCES"} \X WorkId \X ArtId)
          \cup ({"CONSUMES"} \X ArtId \X WorkId)

\* Every variable has its type; the edges connect the kinds of node that
\* _validate_record asks for.
TypeOK ==
  /\ work \in [WorkId -> WorkRecord]
  /\ status \in [WorkId -> WorkStatus]
  /\ asg \in [WorkId -> Assignment \cup {None}]
  /\ outcome \in [WorkId -> {None, "completed", "failed", "checkpoint"}]
  /\ art \in [ArtId -> ArtRecord]
  /\ edges \subseteq Edge
  /\ active \in [Key -> ArtId \cup {None}]
  /\ history \in [Key -> SUBSET ArtId]
  /\ task \in [Task -> TaskRecord]
  /\ nextWork \in 1 .. MaxWork + 1
  /\ nextArt \in 1 .. MaxArt + 1
  /\ now \in Time

\* A WORK is offered, runs or has run only after every control predecessor is
\* DONE, whatever expansions replaced its predecessors in the meantime.
ControlOrder ==
  \A v \in WorkId : status[v] \notin {"ABSENT", "BLOCKED"} => \A p \in work[v].preds : status[p] = "DONE"

\* READY is never stale with respect to the graph: a READY WORK requires only
\* concrete artifacts, and no BLOCKED WORK was overlooked by a refresh.
ReadinessCurrent ==
  /\ \A v \in WorkId : status[v] = "READY" => \A r \in work[v].inputs : art[r.art].state = "CONCRETE"
  /\ \A v \in WorkId : status[v] = "BLOCKED" => ~Runnable(v, status, work, art)

\* A task is offered for evaluation, or was evaluated as a success, only if it
\* has terminal WORK and all of it is DONE.
TaskOutcome ==
  \A t \in Task : task[t].status \in {"READY_FOR_EVALUATION", "DONE"} =>
    task[t].terminals # {} /\ \A v \in task[t].terminals : status[v] = "DONE"

\* The ArtifactIndex is the one rebuild would compute: the history of a key is
\* the artifacts with that key, at most one of them FUTURE or CONCRETE, which is
\* then the active and the newest one.
IndexSound ==
  \A k \in Key :
    /\ history[k] = {a \in ArtId : art[a].key = k}
    /\ {a \in history[k] : art[a].state \in {"FUTURE", "CONCRETE"}} = {active[k]} \ {None}
    /\ active[k] # None => \A a \in history[k] : a <= active[k]

\* The record an operation leaves is one that _validate_record accepts: no legal
\* sequence of calls makes an operation, an export or a later restore raise.
RecordValid == ValidRecord(Exported)

\* The edges and what the nodes say of each other are the same graph.
EdgesMirrorNodes ==
  /\ \A v \in WorkId : work[v].preds = {p \in WorkId : <<"PRECEDES", p, v>> \in edges}
  /\ \A v \in WorkId : work[v].outs = {a \in ArtId : art[a].producer = v}
  /\ \A v \in WorkId : {r.art : r \in work[v].inputs} = {a \in ArtId : v \in art[a].consumers}
  /\ \A v \in WorkId, a \in ArtId : a \in work[v].outs <=> <<"PRODUCES", v, a>> \in edges
  /\ \A v \in WorkId, a \in ArtId : v \in art[a].consumers <=> <<"CONSUMES", a, v>> \in edges

\* The execution graph has no cycle: any group of WORK has a member that waits
\* for none of the group.  Submission and resolution check it; an
\* expansion, which rewires control edges and may join a producer anywhere in
\* the graph, keeps it without a check.
Acyclic == \A S \in SUBSET WorkId : S # {} => \E v \in S : \A x \in S : ~Feeds(edges, x, v)

\* A WORK that stopped at a checkpoint is replaced by its continuation, which
\* alone still waits for it; it is terminal WORK of no task, unless it provides an
\* indexed artifact, which later tasks can still find and join.
ContinuationInherits ==
  \A w \in WorkId : outcome[w] = "checkpoint" =>
    /\ \E c \in WorkId : {v \in WorkId : w \in work[v].preds} = {c}
                         /\ \E r \in work[c].inputs : art[r.art].producer = w /\ art[r.art].key = None
    /\ (\A a \in work[w].outs : art[a].key = None) => \A t \in Task : w \notin task[t].terminals

\* A producer that completed, failed or was rejected leaves no output FUTURE.
FinishedProducerSettles ==
  \A w \in WorkId : outcome[w] \in {"completed", "failed"} =>
    \A a \in work[w].outs : art[a].state # "FUTURE"

\* WORK that is not done owes at most one artifact, so that the one draft the UI loop
\* returns can serve it: only the checkpoint of an expansion is a second output.
OneOutput == \A w \in WorkId : status[w] # "DONE" => \A a, b \in work[w].outs : a = b

\* An artifact that is still FUTURE is being worked on, or will be: its producer
\* has not finished.  (README.md: the ArtifactIndex enables "in-flight producer
\* coalescing"; it hands a FUTURE artifact to every later consumer.)
FutureInFlight ==
  \A a \in ArtId : art[a].state = "FUTURE" => status[art[a].producer] \notin {"DONE", "FAILED"}

\* An artifact with a task-scoped identity, and the WORK that produces it,
\* belong to that one task.
TaskScopePrivate ==
  \A a \in ArtId : art[a].key # None /\ art[a].key[2] # None =>
    art[a].tasks = {art[a].key[2]} /\ work[art[a].producer].tasks = art[a].tasks

\* What clients see of the graph, as GraphContract names it
LifeOf(st) ==
  CASE st = "ABSENT" -> "absent"
    [] st \in {"BLOCKED", "READY"} -> "open"
    [] st \in {"ASSIGNED", "RUNNING"} -> "held"
    [] st = "DONE" -> "done"
    [] st = "FAILED" -> "failed"
StageOf(st) ==
  CASE st = "ABSENT" -> "absent"
    [] st = "FUTURE" -> "promised"
    [] st = "CONCRETE" -> "published"
    [] st = "INVALIDATED" -> "withdrawn"
    [] st = "FAILED" -> "failed"
Life == [w \in WorkId |-> LifeOf(status[w])]
Stage == [a \in ArtId |-> StageOf(art[a].state)]

Contract == INSTANCE GraphContract WITH
  Work <- WorkId, Artifact <- ArtId, life <- Life, holder <- asg, stage <- Stage,
  maker <- [a \in ArtId |-> art[a].producer], key <- [a \in ArtId |-> art[a].key], current <- active

\* The steward keeps its contract: whatever else an operation does to the graph,
\* what it means to clients is one step of GraphContract, or none.  So WORK in an
\* agent's hands is never taken over, finished WORK stays as it finished, no
\* artifact comes back or changes its producer, and a second producer for a key
\* appears only with the end of the first.
KeepsContract == Contract!Spec

=============================================================================
