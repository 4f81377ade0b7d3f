--------------------------- MODULE RuntimeProofs ---------------------------
(***************************************************************************)
(* Proofs about the composition: GraphScheduler and AppAgents never mix    *)
(* up who has which WORK and which resource, and forget no READY WORK, for *)
(* every number of threads, agents, resources and nodes.                   *)
(*                                                                         *)
(* The last part is about restarts: a process that restores a checkpoint   *)
(* repeats nothing an earlier process handed out, and the graph it goes on *)
(* with has every property of a graph that was never interrupted.          *)
(***************************************************************************)
EXTENDS Recovery, GraphStewardExpansionProofs, FiniteSetTheorems

-----------------------------------------------------------------------------
(* What an operation of the steward does to WORK, seen from outside.       *)

Waiting == {"BLOCKED", "READY"}

\* WORK that exists was given to an agent.
Staffed == \A v \in WorkId : status[v] # "ABSENT" => work[v].agent \in Agent

\* WORK v may appear or be refreshed; what an agent has in hand or finished stays.
Untouched(v) ==
  /\ asg'[v] = asg[v]
  /\ status[v] \in Waiting => status'[v] \in Waiting
  /\ status[v] = "ABSENT" => status'[v] \in Waiting \cup {"ABSENT"}
  /\ status[v] \notin Waiting \cup {"ABSENT"} => status'[v] = status[v]
  /\ status[v] # "ABSENT" => work'[v].agent = work[v].agent

Calm == Staffed' /\ \A v \in WorkId : Untouched(v)

\* WORK w was in hand under assignment s, and ends.
Ending(w, s) ==
  /\ status[w] = "RUNNING" /\ asg[w] = s /\ asg'[w] = asg[w]
  /\ status'[w] \in {"DONE", "FAILED"}
  /\ work'[w].agent = work[w].agent
  /\ \A v \in WorkId \ {w} : Untouched(v)
  /\ Staffed'

LEMMA RefreshCalm ==
  ASSUME TInv, Staffed, work' = work, asg' = asg, status' = SettledWork(status, work', art') \/ status' = status
  PROVE  Calm
<1>1. status \in [WorkId -> WorkStatus]
  BY DEF TInv, TypeOK
<1>2. \A v \in WorkId : Untouched(v)
  BY <1>1, SettledWorkType DEF Untouched, Waiting, WorkStatus
<1>3. \A v \in WorkId : status'[v] # "ABSENT" => status[v] # "ABSENT"
  BY <1>1, SettledWorkType
<1>4. Staffed'
  BY <1>3 DEF Staffed
<1>5. QED
  BY <1>2, <1>4 DEF Calm

LEMMA FinishEnding ==
  ASSUME TInv, Staffed, NEW w \in WorkId, NEW s, Holds(w, s), work' = work,
         NEW st \in {"DONE", "FAILED"}, NEW how, Finish(w, st, how)
  PROVE  Ending(w, s)
<1> DEFINE mid == [status EXCEPT ![w] = st]
<1>1. status' = SettledWork(mid, work', art') /\ asg' = asg
  BY DEF Finish
<1>2. mid \in [WorkId -> WorkStatus] /\ mid[w] = st /\ \A v \in WorkId \ {w} : mid[v] = status[v]
  BY DEF TInv, TypeOK, WorkStatus
<1> HIDE DEF mid
<1>3. \A v \in WorkId : IF mid[v] \in Waiting THEN status'[v] \in Waiting ELSE status'[v] = mid[v]
  BY <1>1, <1>2, SettledWorkType DEF Waiting
<1>4. status'[w] = st
  BY <1>2, <1>3 DEF Waiting
<1>5. \A v \in WorkId \ {w} : Untouched(v)
  BY <1>1, <1>2, <1>3 DEF Untouched, Waiting
<1>6. \A v \in WorkId : status'[v] # "ABSENT" => status[v] # "ABSENT"
  BY <1>2, <1>3 DEF Waiting, Holds
<1>7. Staffed'
  BY <1>6 DEF Staffed
<1>8. QED
  BY <1>1, <1>4, <1>5, <1>7 DEF Ending, Holds

LEMMA SubmitCalm ==
  ASSUME TInv, Staffed, NEW t \in Task, NEW f \in Fragment, SubmitTask(t, f)
  PROVE  Calm
<1>1. PICK lastWork \in nextWork - 1 .. MaxWork, lastArt \in nextArt - 1 .. MaxArt :
        \E m \in Numberings(FreshWork(f, t), nextWork, lastWork),
           n \in Numberings(DOMAIN f.artifacts \ Hits(f, t), nextArt, lastArt) : Graft(t, f, m, n)
  BY Zenon DEF SubmitTask
<1>2. PICK m \in Numberings(FreshWork(f, t), nextWork, lastWork),
           n \in Numberings(DOMAIN f.artifacts \ Hits(f, t), nextArt, lastArt) : Graft(t, f, m, n)
  BY <1>1
<1>3. Located(t, f, m, n, lastWork, lastArt)
  BY <1>1, <1>2, LocalMaps
<1> DEFINE fresh == FreshWork(f, t)
           created == {m[l] : l \in fresh}
           mid == [v \in WorkId |-> IF v \in created THEN "BLOCKED" ELSE status[v]]
           hand(v) == IF v \in created THEN f.work[CHOOSE l \in fresh : m[l] = v] ELSE work[v].agent
           W == GlobalWork(f, t, m)
           A == GlobalArt(f, t, n)
           needs(i) == {W[l] : l \in f.artifacts[i].consumers}
           before(v) == work[v].preds \cup {W[e[1]] : e \in {x \in f.control : W[x[2]] = v}}
           asked(v) == work[v].inputs \cup {[art |-> A[i], maxAge |-> f.artifacts[i].maxAge] :
                                               i \in {j \in DOMAIN f.artifacts : v \in needs(j)}}
           made(v) == work[v].outs \cup
                        {A[i] : i \in {j \in DOMAIN f.artifacts \ Hits(f, t) : W[f.artifacts[j].producer] = v}}
           for(v) == work[v].tasks \cup {x \in {t} : \E l \in DOMAIN W : W[l] = v}
<1>4. /\ \A v \in WorkId : work'[v].agent = hand(v)
      /\ status' = SettledWork(mid, work', art')
      /\ asg' = asg
  <2>1. /\ work' = [v \in WorkId |-> [agent |-> hand(v), preds |-> before(v), inputs |-> asked(v),
                                      outs |-> made(v), tasks |-> for(v)]]
        /\ status' = SettledWork(mid, work', art')
        /\ asg' = asg
    BY <1>2, Zenon DEF Graft
  <2> HIDE DEF fresh, created, mid, hand, W, A, needs, before, asked, made, for
  <2>2. QED
    BY <2>1
<1>5. /\ \A v \in created : v \in WorkId => status[v] = "ABSENT"
      /\ \A l \in fresh : f.work[l] \in Agent
  <2>1. created = nextWork .. lastWork /\ fresh \subseteq DOMAIN f.work
    BY <1>3 DEF Located, FreshWork
  <2>2. nextWork \in Nat /\ lastWork \in Int
    BY <1>1 DEF TInv, TypeOK
  <2>3. \A l \in DOMAIN f.work : f.work[l] \in Agent
    BY <1>3 DEF Located
  <2> HIDE DEF created, fresh
  <2>4. QED
    BY <2>1, <2>2, <2>3 DEF TInv, Numbered
<1>6. \A v \in created : f.work[CHOOSE l \in fresh : m[l] = v] \in Agent
  BY <1>5
<1>7. status \in [WorkId -> WorkStatus]
  BY DEF TInv, TypeOK
<1>8. mid \in [WorkId -> WorkStatus] /\ \A v \in WorkId : mid[v] = IF v \in created THEN "BLOCKED" ELSE status[v]
  BY <1>7 DEF WorkStatus
<1> HIDE DEF created, fresh, mid, W, A
<1>9. \A v \in WorkId : IF mid[v] \in Waiting THEN status'[v] \in Waiting ELSE status'[v] = mid[v]
  BY <1>4, <1>8, SettledWorkType DEF Waiting
<1>10. \A v \in WorkId : Untouched(v)
  BY <1>4, <1>5, <1>8, <1>9 DEF Untouched, Waiting
<1>11. Staffed'
  BY <1>4, <1>6, <1>8, <1>9 DEF Staffed, Waiting
<1>12. QED
  BY <1>10, <1>11 DEF Calm

LEMMA ResolveCalm ==
  ASSUME TInv, Staffed, NEW c \in WorkId, NEW t \in Task, NEW i \in Identity \cup {None}, NEW age \in Age,
         NEW g \in Agent, ResolveArtifact(c, t, i, age, g)
  PROVE  Calm
<1> DEFINE k == KeyOf(i, t)
           hit == Reusable(k, age)
           a == IF hit THEN active[k] ELSE nextArt
           p == IF hit THEN art[a].producer ELSE nextWork
           mid == IF hit THEN status ELSE [status EXCEPT ![p] = "BLOCKED"]
           provider == IF hit THEN [work[p] EXCEPT !.tasks = @ \cup {t}]
                       ELSE [NoWork EXCEPT !.agent = g, !.outs = {a}, !.tasks = {t}]
           need == [art |-> a, maxAge |-> age]
<1>1. /\ ~hit => nextWork <= MaxWork
      /\ status' = SettledWork(mid, work', art')
      /\ asg' = asg
      /\ work' = [[work EXCEPT ![p] = provider] EXCEPT ![c].inputs = @ \cup {need}]
  BY Zenon DEF ResolveArtifact
<1>2. k \in Key \cup {None}
  BY KeyOfType
<1>3. /\ status \in [WorkId -> WorkStatus] /\ work \in [WorkId -> WorkRecord]
      /\ nextWork \in Nat \ {0}
      /\ \A v \in WorkId : status[v] = "ABSENT" <=> v >= nextWork
  BY BoundAssumption DEF TInv, TypeOK, Numbered
<1>4. ~hit => p \in WorkId /\ status[p] = "ABSENT" /\ provider.agent = g
  <2>1. ~hit => p = nextWork /\ provider = [NoWork EXCEPT !.agent = g, !.outs = {a}, !.tasks = {t}]
    OBVIOUS
  <2>2. [NoWork EXCEPT !.agent = g, !.outs = {a}, !.tasks = {t}].agent = g
    BY DEF NoWork
  <2>3. nextWork <= MaxWork => nextWork \in WorkId /\ status[nextWork] = "ABSENT"
    BY <1>3, BoundAssumption DEF WorkId
  <2> HIDE DEF hit, p, provider, a
  <2>4. QED
    BY <1>1, <2>1, <2>2, <2>3
<1>5. hit => p \in WorkId /\ provider = [work[p] EXCEPT !.tasks = @ \cup {t}]
  <2>1. hit => p = art[active[k]].producer /\ provider = [work[p] EXCEPT !.tasks = @ \cup {t}]
    OBVIOUS
  <2>2. hit => art[active[k]].producer \in WorkId
    <3> HIDE DEF k
    <3>1. QED
      BY <1>2, ReusableHit
  <2> HIDE DEF hit, p, provider
  <2>3. QED
    BY <2>1, <2>2
<1> HIDE DEF k, hit, a, p, provider, need
<1>6. \A v \in WorkId : work'[v].agent = IF ~hit /\ v = p THEN g ELSE work[v].agent
  <2>1. \A v \in WorkId : [work EXCEPT ![p] = provider][v].agent = IF ~hit /\ v = p THEN g ELSE work[v].agent
    BY <1>3, <1>4, <1>5 DEF WorkRecord
  <2>2. QED
    BY <1>1, <1>3, <2>1
<1>7. mid \in [WorkId -> WorkStatus] /\ \A v \in WorkId : mid[v] = IF ~hit /\ v = p THEN "BLOCKED" ELSE status[v]
  BY <1>3, <1>4 DEF WorkStatus
<1> HIDE DEF mid
<1>8. \A v \in WorkId : IF mid[v] \in Waiting THEN status'[v] \in Waiting ELSE status'[v] = mid[v]
  BY <1>1, <1>7, SettledWorkType DEF Waiting
<1>9. \A v \in WorkId : Untouched(v)
  BY <1>1, <1>4, <1>6, <1>7, <1>8 DEF Untouched, Waiting
<1>10. Staffed'
  BY <1>6, <1>7, <1>8 DEF Staffed, Waiting
<1>11. QED
  BY <1>9, <1>10 DEF Calm

LEMMA ExpandEnding ==
  ASSUME TInv, Staffed, NEW w \in WorkId, NEW s \in Assignment, NEW g \in Agent, NEW i \in Identity \cup {None},
         NEW age \in Age, NEW d \in Draft, ExpandWork(w, s, g, i, age, d)
  PROVE  Ending(w, s)
<1> DEFINE ts == work[w].tasks
           k == ExpansionKey(i, ts)
           hit == Reusable(k, age)
           c == nextWork
           checkpoint == nextArt
           a == IF hit THEN active[k] ELSE nextArt + 1
           p == IF hit THEN art[a].producer ELSE nextWork + 1
           continuation == [agent |-> work[w].agent, preds |-> {w}, outs |-> {}, tasks |-> ts,
                            inputs |-> {[art |-> checkpoint, maxAge |-> None], [art |-> a, maxAge |-> age]}]
           provider == [NoWork EXCEPT !.agent = g, !.outs = {a}, !.tasks = ts]
           mid == [v \in WorkId |-> IF v = w THEN "DONE"
                                   ELSE IF v = c \/ (v = p /\ ~hit) THEN "BLOCKED" ELSE status[v]]
<1>1. /\ nextWork' = IF hit THEN nextWork + 1 ELSE nextWork + 2
      /\ work' = [v \in WorkId |->
           IF v = c THEN continuation
           ELSE IF v = p /\ ~hit THEN provider
           ELSE IF v = w THEN [work[w] EXCEPT !.outs = @ \cup {checkpoint}]
           ELSE IF <<"PRECEDES", w, v>> \in edges THEN [work[v] EXCEPT !.preds = Replace(@, w, c)]
           ELSE work[v]]
      /\ asg' = asg
      /\ status' = SettledWork(mid, work', art')
      /\ status[w] = "RUNNING" /\ asg[w] = s
  BY Zenon DEF ExpandWork, Holds
<1>2. /\ status \in [WorkId -> WorkStatus] /\ work \in [WorkId -> WorkRecord]
      /\ nextWork \in Nat \ {0}
      /\ \A v \in WorkId : status[v] = "ABSENT" <=> v >= nextWork
  BY BoundAssumption DEF TInv, TypeOK, Numbered
<1>3. continuation.agent = work[w].agent /\ provider.agent = g
  BY DEF NoWork
<1>4. ~hit => p = c + 1
  OBVIOUS
<1>5. w # c /\ (~hit => w # p) /\ \A v \in WorkId : v = c \/ (v = p /\ ~hit) => status[v] = "ABSENT"
  <2>1. c = nextWork
    OBVIOUS
  <2> HIDE DEF c, p, hit
  <2>2. QED
    BY <1>1, <1>2, <1>4, <2>1 DEF WorkId
<1>6. mid \in [WorkId -> WorkStatus] /\ \A v \in WorkId : mid[v] = IF v = w THEN "DONE"
                                   ELSE IF v = c \/ (v = p /\ ~hit) THEN "BLOCKED" ELSE status[v]
  BY <1>2 DEF WorkStatus
<1> HIDE DEF hit, c, checkpoint, a, p, continuation, provider, mid, ts
<1>7. \A v \in WorkId : work'[v].agent = IF v = c THEN work[w].agent ELSE IF v = p /\ ~hit THEN g ELSE work[v].agent
  <2> SUFFICES ASSUME NEW v \in WorkId
               PROVE  work'[v].agent = IF v = c THEN work[w].agent ELSE IF v = p /\ ~hit THEN g ELSE work[v].agent
    OBVIOUS
  <2>1. \A x \in WorkId : /\ [work[x] EXCEPT !.outs = @ \cup {checkpoint}].agent = work[x].agent
                          /\ [work[x] EXCEPT !.preds = Replace(@, w, c)].agent = work[x].agent
    BY <1>2 DEF WorkRecord
  <2>2. QED
    BY <1>1, <1>3, <2>1
<1>8. \A v \in WorkId : IF mid[v] \in Waiting THEN status'[v] \in Waiting ELSE status'[v] = mid[v]
  BY <1>1, <1>6, SettledWorkType DEF Waiting
<1>9. status'[w] = "DONE" /\ work'[w].agent = work[w].agent
  BY <1>5, <1>6, <1>7, <1>8 DEF Waiting
<1>10. \A v \in WorkId \ {w} : Untouched(v)
  BY <1>1, <1>5, <1>6, <1>7, <1>8 DEF Untouched, Waiting
<1>11. Staffed'
  <2>1. work[w].agent \in Agent
    BY <1>1 DEF Staffed
  <2>2. \A v \in WorkId : status'[v] # "ABSENT" => status[v] # "ABSENT" \/ v = c \/ (v = p /\ ~hit)
    BY <1>1, <1>6, <1>8 DEF Waiting
  <2>3. QED
    BY <1>7, <2>1, <2>2 DEF Staffed
<1>12. QED
  BY <1>1, <1>9, <1>10, <1>11 DEF Ending

-----------------------------------------------------------------------------
(* The invariant: who has which WORK, and which resource.                  *)

RTypes ==
  /\ pc \in [Thread -> {"idle", "notify", "refresh", "read", "assign", "claim", "execute"}]
  /\ mine \in [Worker -> Assignment \cup {None}]
  /\ candidates \subseteq WorkId
  /\ lock \in Thread \cup {None}
  /\ owner \in [Assignment -> WorkId \cup {None}]
  /\ leases \subseteq Assignment \X Resource
  /\ nextAsg \in 1 .. MaxAsg + 1

\* WORK that was assigned once, in this process or an earlier one
Taken(w) == status[w] \notin Waiting \cup {"ABSENT"}

\* The scheduler's table and the graph: a live assignment carries its WORK until
\* a schedule() finds it finished.
Tabled == \A s \in Assignment : owner[s] # None => asg[owner[s]] = s /\ Taken(owner[s])

\* WORK in an agent's hands is in the table.
Owned(w) == Live(w) => asg[w] \in Assignment /\ owner[asg[w]] = w

\* Assignments are handed out in order, and to one WORK each.
Counted ==
  /\ \A s \in Assignment : s >= nextAsg => owner[s] = None
  /\ \A w \in WorkId : asg[w] # None => asg[w] < nextAsg
  /\ \A v, w \in WorkId : asg[v] # None /\ asg[v] = asg[w] => v = w

Leasing ==
  /\ \A s \in Assignment, r \in Resource :
       <<s, r>> \in leases <=> owner[s] # None /\ r \in NeedsOf(owner[s], work[owner[s]].agent)
  /\ \A r \in Resource : Cardinality(Leased(r)) <= Capacity[r]

\* A thread that executes has RUNNING WORK of its own.
Executing ==
  /\ \A th \in Worker : pc[th] \in {"claim", "execute"} => mine[th] \in Assignment
  /\ \A th \in Worker : pc[th] = "execute" => owner[mine[th]] # None /\ status[owner[mine[th]]] = "RUNNING"
  /\ \A th, other \in Worker :
       th # other /\ pc[th] = "execute" /\ pc[other] = "execute" => mine[th] # mine[other]

\* What holds in every process, also in one that restored a checkpoint and finds
\* WORK in hand that is nobody's.
RCore == TInv /\ Staffed /\ RTypes /\ Tabled /\ Counted /\ Leasing /\ Executing

RInv == RCore /\ \A w \in WorkId : Owned(w)

\* What a step may do to the hands WORK is in: taken WORK stays taken and in the
\* table as long as it is live, and the table takes up WORK that was waiting.
Handover ==
  /\ \A w \in WorkId : Taken(w) => status'[w] \notin Waiting \cup {"ABSENT"}
  /\ \A w \in WorkId : Owned(w) /\ status'[w] \in {"ASSIGNED", "RUNNING"} =>
       asg'[w] \in Assignment /\ owner'[asg'[w]] = w
  /\ \A s \in Assignment : owner'[s] # None => owner'[s] = owner[s] \/ ~Taken(owner'[s])
  /\ nextAsg' \in {nextAsg, nextAsg + 1}

LEMMA RInvInit == RInit => RInv
<1> SUFFICES ASSUME RInit PROVE RInv
  OBVIOUS
<1> USE NoneAssumption
<1>1. TInv /\ \A w \in WorkId : status[w] = "ABSENT" /\ asg[w] = None
  BY TInvInit DEF RInit, Init
<1>2. /\ \A th \in Thread : pc[th] = "idle"
      /\ \A s \in Assignment : owner[s] = None
      /\ leases = {} /\ nextAsg = 1 /\ Worker \subseteq Thread
  BY DEF RInit, Thread
<1>3. RTypes
  BY ThreadAssumption DEF RInit, RTypes
<1>4. Leasing
  <2>1. \A r \in Resource : Leased(r) = {} /\ Capacity[r] \in Nat
    BY <1>2, ResourceAssumption DEF Leased
  <2>2. \A r \in Resource : Cardinality(Leased(r)) <= Capacity[r]
    BY <2>1, FS_EmptySet
  <2>3. QED
    BY <1>2, <2>2 DEF Leasing
<1>5. Staffed /\ Tabled /\ Counted /\ \A w \in WorkId : Owned(w)
  BY <1>1, <1>2 DEF Staffed, Tabled, Owned, Counted, Live
<1>6. Executing
  BY <1>2 DEF Executing
<1>7. QED
  BY <1>1, <1>3, <1>4, <1>5, <1>6 DEF RInv, RCore

LEMMA LeasedFinite == ASSUME RTypes, NEW r PROVE IsFiniteSet(Leased(r))
<1>1. IsFiniteSet(Assignment) /\ IsFiniteSet({r})
  <2>1. 1 \in Int /\ MaxAsg \in Int /\ Assignment = 1 .. MaxAsg
    BY ThreadAssumption
  <2>2. IsFiniteSet(1 .. MaxAsg)
    BY <2>1, FS_Interval
  <2>3. IsFiniteSet({r})
    BY FS_Singleton
  <2>4. QED
    BY <2>1, <2>2, <2>3
<1>2. IsFiniteSet(Assignment \X {r})
  BY <1>1, FS_Product
<1>3. Leased(r) \in SUBSET (Assignment \X {r})
  BY DEF Leased, RTypes
<1>4. QED
  BY <1>2, <1>3, FS_Subset

-----------------------------------------------------------------------------
(* What the steps do to it.                                                *)

\* No thread begins to execute, and a thread with a claim has an assignment.
Idles ==
  \A th \in Worker : /\ pc'[th] = "execute" => pc[th] = "execute" /\ mine'[th] = mine[th]
                     /\ pc'[th] = "claim" => mine'[th] \in Assignment

LEMMA CalmKeeps ==
  ASSUME RCore, TInv', RTypes', Calm, Idles, UNCHANGED <<owner, leases, nextAsg>>
  PROVE  RCore' /\ Handover
<1> USE NoneAssumption DEF RCore
<1>1. \A v \in WorkId : /\ asg'[v] = asg[v] /\ (Live(v)' <=> Live(v))
                        /\ Taken(v) => status'[v] = status[v]
  BY DEF Calm, Untouched, Live, Taken, Waiting, TInv, TypeOK, WorkStatus
<1>2. \A s \in Assignment : owner[s] # None => owner[s] \in WorkId
  BY DEF RTypes
<1>3. Tabled' /\ Handover
  BY <1>1, <1>2 DEF Tabled, Handover, Owned, Taken, Live
<1>4. Counted'
  BY <1>1 DEF Counted
<1>5. Leasing'
  <2>1. \A s \in Assignment : owner[s] # None => work'[owner[s]].agent = work[owner[s]].agent
    BY <1>2 DEF Tabled, Taken, Calm, Untouched
  <2>2. QED
    BY <2>1 DEF Leasing, Leased
<1>6. Executing'
  BY <1>1, <1>2 DEF Executing, Idles, Tabled
<1>7. QED
  BY <1>3, <1>4, <1>5, <1>6 DEF Calm

\* Thread th reports the end of WORK w.
LEMMA EndKeeps ==
  ASSUME RCore, TInv', RTypes', NEW th \in Worker, NEW w \in WorkId, pc[th] = "execute", asg[w] = mine[th],
         Ending(w, mine[th]), pc'[th] \notin {"claim", "execute"}, Idles, UNCHANGED <<owner, leases, nextAsg>>
  PROVE  RCore' /\ Handover
<1> USE NoneAssumption DEF RCore
<1>1. \A v \in WorkId : /\ asg'[v] = asg[v] /\ (Live(v)' => Live(v))
                        /\ Taken(v) => status'[v] \notin Waiting \cup {"ABSENT"}
  BY DEF Ending, Untouched, Live, Taken, Waiting, TInv, TypeOK, WorkStatus
<1>2. \A s \in Assignment : owner[s] # None => owner[s] \in WorkId
  BY DEF RTypes
<1>3. Tabled' /\ Handover
  BY <1>1, <1>2 DEF Tabled, Handover, Owned, Taken, Live
<1>4. Counted'
  BY <1>1 DEF Counted
<1>5. Leasing'
  <2>1. \A s \in Assignment : owner[s] # None => work'[owner[s]].agent = work[owner[s]].agent
    BY <1>2 DEF Tabled, Taken, Ending, Untouched
  <2>2. QED
    BY <2>1 DEF Leasing, Leased
<1>6. Executing'
  <2>1. ASSUME NEW other \in Worker, pc'[other] = "execute"
        PROVE  owner'[mine'[other]] # None /\ status'[owner'[mine'[other]]] = "RUNNING"
    <3>1. /\ other # th /\ pc[other] = "execute" /\ mine'[other] = mine[other] /\ mine[other] # mine[th]
          /\ mine[other] \in Assignment
      BY <2>1 DEF Idles, Executing
    <3>2. /\ owner[mine[other]] # None /\ owner[mine[other]] \in WorkId /\ status[owner[mine[other]]] = "RUNNING"
          /\ asg[owner[mine[other]]] = mine[other]
      BY <1>2, <3>1 DEF Executing, Tabled
    <3>3. owner[mine[other]] # w
      BY <3>1, <3>2
    <3>4. QED
      BY <3>1, <3>2, <3>3 DEF Ending, Untouched, Waiting
  <2>2. QED
    BY <2>1 DEF Executing, Idles
<1>7. Staffed'
  BY DEF Ending
<1>8. QED
  BY <1>3, <1>4, <1>5, <1>6, <1>7

LEMMA ClaimKeeps ==
  ASSUME RCore, NEW th \in Worker, RunClaim(th)
  PROVE  RCore' /\ Handover /\ Next
<1> USE NoneAssumption DEF RCore
<1> DEFINE s == mine[th]
           w == owner[s]
<1>1. /\ pc[th] = "claim" /\ pc' = [pc EXCEPT ![th] = "execute"] /\ owner[s] # None
      /\ Start(w, s)
      /\ UNCHANGED <<mine, candidates, lock, owner, leases, nextAsg>>
  BY DEF RunClaim, Goto, scheduler
<1>2. s \in Assignment /\ w \in WorkId /\ Worker \subseteq Thread
  BY <1>1 DEF Executing, RTypes, Thread
<1>3. /\ status[w] = "ASSIGNED" /\ asg[w] = s /\ status' = [status EXCEPT ![w] = "RUNNING"]
      /\ work' = work /\ asg' = asg
  BY <1>1 DEF Start
<1>4. status'[w] = "RUNNING" /\ \A v \in WorkId \ {w} : status'[v] = status[v]
  BY <1>2, <1>3 DEF TInv, TypeOK
<1>5. pc'[th] = "execute" /\ \A other \in Worker \ {th} : pc'[other] = pc[other]
  BY <1>1, <1>2 DEF RTypes
<1> HIDE DEF s, w
<1>6. Next
  BY <1>1, <1>2 DEF Next, Operate
<1>7. RTypes'
  BY <1>1, <1>2 DEF RTypes
<1>8. Tabled' /\ Handover
  BY <1>1, <1>2, <1>3, <1>4 DEF Tabled, Handover, Owned, Taken, Live, Waiting
<1>9. Counted' /\ Staffed'
  BY <1>1, <1>2, <1>3, <1>4 DEF Counted, Staffed
<1>10. Leasing'
  BY <1>1, <1>3 DEF Leasing, Leased
<1>11. Executing'
  <2>1. \A other \in Worker \ {th} : pc[other] = "execute" => mine[other] # s
    BY <1>2, <1>3 DEF Executing, w
  <2>2. \A other \in Worker : pc'[other] = "execute" =>
          owner'[mine'[other]] # None /\ status'[owner'[mine'[other]]] = "RUNNING"
    <3>1. \A other \in Worker : pc[other] = "execute" => owner[mine[other]] \in WorkId
      BY DEF Executing, RTypes
    <3>2. QED
      BY <1>1, <1>2, <1>3, <1>4, <1>5, <3>1 DEF Executing, s, w
  <2>3. QED
    BY <1>1, <1>2, <1>5, <2>1, <2>2 DEF Executing, s
<1>12. TInv'
  BY <1>6, TInvNext
<1>13. QED
  BY <1>6, <1>7, <1>8, <1>9, <1>10, <1>11, <1>12

LEMMA EnterKeeps ==
  ASSUME RCore, NEW th \in Thread, ScheduleEnter(th)
  PROVE  RCore' /\ Handover /\ UNCHANGED vars
<1> USE NoneAssumption DEF RCore
<1>1. /\ pc' = [pc EXCEPT ![th] = "refresh"]
      /\ leases' = Released(Finished)
      /\ owner' = [s \in Assignment |-> IF s \in Finished THEN None ELSE owner[s]]
      /\ lock' = th /\ UNCHANGED <<vars, mine, candidates, nextAsg>>
  BY DEF ScheduleEnter, Goto
<1>2. work' = work /\ status' = status /\ asg' = asg /\ TInv' /\ Staffed'
  <2>1. work' = work /\ status' = status /\ asg' = asg
    BY <1>1 DEF vars, graph
  <2>2. TInv'
    BY <1>1, TInvNext
  <2>3. QED
    BY <2>1, <2>2 DEF Staffed
<1>3. RTypes'
  BY <1>1 DEF RTypes, Released
<1>4. \A s \in Assignment : owner'[s] # None => owner'[s] = owner[s] /\ s \notin Finished
  BY <1>1
<1>5. Tabled' /\ Handover
  <2>1. \A w \in WorkId : Owned(w) /\ Live(w) => asg[w] \notin Finished
    BY DEF Owned, Finished, Live
  <2>2. QED
    BY <1>1, <1>2, <1>4, <2>1 DEF Tabled, Handover, Owned, Taken, Live
<1>6. Counted'
  BY <1>1, <1>2, <1>4 DEF Counted
<1>7. Leasing'
  <2>1. ASSUME NEW s \in Assignment, NEW r \in Resource
        PROVE  <<s, r>> \in leases' <=> owner'[s] # None /\ r \in NeedsOf(owner'[s], work'[owner'[s]].agent)
    <3>1. <<s, r>> \in leases' <=> <<s, r>> \in leases /\ s \notin Finished
      BY <1>1 DEF Released
    <3>2. owner'[s] = IF s \in Finished THEN None ELSE owner[s]
      BY <1>1
    <3>3. QED
      BY <1>2, <3>1, <3>2 DEF Leasing
  <2>2. ASSUME NEW r \in Resource PROVE Cardinality(Leased(r)') <= Capacity[r]
    <3>1. Leased(r)' \in SUBSET Leased(r)
      BY <1>1 DEF Leased, Released
    <3>2. IsFiniteSet(Leased(r))
      BY LeasedFinite
    <3>3. /\ Cardinality(Leased(r)') <= Cardinality(Leased(r)) /\ Cardinality(Leased(r)) <= Capacity[r]
          /\ Capacity[r] \in Nat
      BY <3>1, <3>2, FS_Subset, ResourceAssumption DEF Leasing
    <3>4. Cardinality(Leased(r)) \in Nat /\ Cardinality(Leased(r)') \in Nat
      BY <3>1, <3>2, FS_Subset, FS_CardinalityType
    <3>5. QED
      BY <3>3, <3>4
  <2>3. QED
    BY <2>1, <2>2 DEF Leasing
<1>8. Executing'
  <2>1. \A w \in Worker : pc'[w] \in {"claim", "execute"} => pc'[w] = pc[w]
    BY <1>1 DEF RTypes, Thread
  <2>2. \A w \in Worker : pc[w] = "execute" => mine[w] \in Assignment /\ mine[w] \notin Finished
    BY DEF Executing, Finished
  <2>3. QED
    BY <1>1, <1>2, <2>1, <2>2 DEF Executing
<1>9. QED
  BY <1>1, <1>2, <1>3, <1>5, <1>6, <1>7, <1>8

\* What a WORK leases are resources.
LEMMA NeedsFacts == \A w \in WorkId, g \in Agent : NeedsOf(w, g) \subseteq Resource
BY ResourceAssumption DEF NeedsOf

LEMMA AssignKeeps ==
  ASSUME RCore, NEW th \in Thread, NEW w \in WorkId, ScheduleAssign(th, w)
  PROVE  RCore' /\ Handover /\ Next
<1> USE NoneAssumption DEF RCore
<1> DEFINE s == nextAsg
           needs == NeedsOf(w, work[w].agent)
<1>1. /\ Available(needs) /\ s <= MaxAsg /\ Assign(w, s)
      /\ candidates' = candidates \ {w}
      /\ leases' = leases \cup {<<s, r>> : r \in needs}
      /\ owner' = [owner EXCEPT ![s] = w]
      /\ nextAsg' = s + 1
      /\ UNCHANGED <<pc, mine, lock>>
  BY DEF ScheduleAssign
<1>2. s \in Assignment /\ s \in Nat /\ (s = nextAsg)
  BY <1>1, ThreadAssumption DEF RTypes
<1>3. /\ status[w] = "READY" /\ status' = [status EXCEPT ![w] = "ASSIGNED"]
      /\ asg' = [asg EXCEPT ![w] = s] /\ work' = work
  BY <1>1 DEF Assign
<1>4. /\ status'[w] = "ASSIGNED" /\ asg'[w] = s
      /\ \A v \in WorkId \ {w} : status'[v] = status[v] /\ asg'[v] = asg[v]
  BY <1>3 DEF TInv, TypeOK
<1>5. needs \subseteq Resource
  BY <1>3, NeedsFacts DEF Staffed
<1>6. owner[s] = None /\ owner'[s] = w /\ \A x \in Assignment \ {s} : owner'[x] = owner[x]
  BY <1>1, <1>2 DEF RTypes, Counted
<1> HIDE DEF s, needs
<1>7. Next
  BY <1>1, <1>2 DEF Next, Operate
<1>8. TInv' /\ Staffed'
  <2>1. TInv'
    BY <1>7, TInvNext
  <2>2. QED
    BY <1>3, <1>4, <2>1 DEF Staffed
<1>9. RTypes'
  <2>1. nextAsg' \in 1 .. MaxAsg + 1
    BY <1>1, <1>2, ThreadAssumption
  <2>2. leases' \subseteq Assignment \X Resource
    BY <1>1, <1>2, <1>5 DEF RTypes
  <2>3. QED
    BY <1>1, <1>2, <2>1, <2>2 DEF RTypes
<1>10. \A x \in Assignment : owner[x] # None => owner[x] # w
  BY <1>3 DEF Tabled, Taken, Waiting
<1>11. Tabled' /\ Handover
  <2>1. ASSUME NEW v \in WorkId, Owned(v), status'[v] \in {"ASSIGNED", "RUNNING"}
        PROVE  asg'[v] \in Assignment /\ owner'[asg'[v]] = v
    <3>1. CASE v = w
      BY <1>2, <1>4, <1>6, <3>1
    <3>2. CASE v # w
      <4>1. Live(v)
        BY <1>4, <2>1, <3>2 DEF Live
      <4>2. asg[v] \in Assignment /\ owner[asg[v]] = v /\ v # None
        BY <2>1, <4>1 DEF Owned, WorkId
      <4>3. asg[v] # s
        BY <1>6, <4>2
      <4>4. QED
        BY <1>4, <1>6, <3>2, <4>2, <4>3
    <3>3. QED
      BY <3>1, <3>2
  <2>2. ASSUME NEW x \in Assignment, owner'[x] # None
        PROVE  /\ asg'[owner'[x]] = x /\ status'[owner'[x]] \notin Waiting \cup {"ABSENT"}
               /\ owner'[x] = owner[x] \/ ~Taken(owner'[x])
    <3>1. CASE x = s
      BY <1>3, <1>4, <1>6, <3>1 DEF Taken, Waiting
    <3>2. CASE x # s
      <4>1. owner'[x] = owner[x] /\ owner[x] \in WorkId /\ owner[x] # w
        BY <1>6, <1>10, <2>2, <3>2 DEF RTypes
      <4>2. QED
        BY <1>4, <2>2, <4>1 DEF Tabled, Taken
    <3>3. QED
      BY <3>1, <3>2
  <2>3. \A v \in WorkId : Taken(v) => status'[v] \notin Waiting \cup {"ABSENT"}
    BY <1>3, <1>4 DEF Taken, Waiting
  <2>4. QED
    BY <1>1, <1>2, <2>1, <2>2, <2>3 DEF Tabled, Handover, Taken
<1>12. Counted'
  <2>1. \A v \in WorkId : asg[v] # None => asg[v] < s /\ asg[v] \in Nat
    BY <1>2, ThreadAssumption DEF Counted, TInv, TypeOK, s
  <2>2. \A v \in WorkId : asg'[v] # None => asg'[v] < nextAsg'
    BY <1>1, <1>2, <1>4, <2>1
  <2>3. ASSUME NEW u \in WorkId, NEW v \in WorkId, asg'[v] # None, asg'[v] = asg'[u] PROVE v = u
    <3>1. CASE v # w /\ u # w
      BY <1>4, <2>3, <3>1 DEF Counted
    <3>2. CASE v = w \/ u = w
      BY <1>2, <1>4, <2>1, <2>3, <3>2
    <3>3. QED
      BY <3>1, <3>2
  <2>4. \A x \in Assignment : x >= nextAsg' => owner'[x] = None
    <3>1. \A x \in Assignment : x \in Nat
      BY ThreadAssumption
    <3>2. QED
      BY <1>1, <1>2, <1>6, <3>1 DEF Counted, s
  <2>5. QED
    BY <2>2, <2>3, <2>4 DEF Counted
<1>13. Leasing'
  <2>1. ASSUME NEW x \in Assignment, NEW r \in Resource
        PROVE  <<x, r>> \in leases' <=> owner'[x] # None /\ r \in NeedsOf(owner'[x], work'[owner'[x]].agent)
    <3>1. CASE x = s
      <4>1. <<s, r>> \notin leases /\ w # None
        BY <1>2, <1>6 DEF Leasing, WorkId
      <4>2. <<x, r>> \in leases' <=> r \in needs
        BY <1>1, <3>1, <4>1
      <4>3. QED
        BY <1>3, <1>6, <3>1, <4>1, <4>2 DEF needs
    <3>2. CASE x # s
      <4>1. <<x, r>> \in leases' <=> <<x, r>> \in leases
        BY <1>1, <3>2
      <4>2. QED
        BY <1>3, <1>6, <3>2, <4>1 DEF Leasing
    <3>3. QED
      BY <3>1, <3>2
  <2>2. ASSUME NEW r \in Resource PROVE Cardinality(Leased(r)') <= Capacity[r]
    <3>1. IsFiniteSet(Leased(r)) /\ Capacity[r] \in Nat /\ Cardinality(Leased(r)) <= Capacity[r]
      BY LeasedFinite, ResourceAssumption DEF Leasing
    <3>2. Cardinality(Leased(r)) \in Nat
      BY <3>1, FS_CardinalityType
    <3>3. CASE r \in needs
      <4>1. Leased(r)' = Leased(r) \cup {<<s, r>>}
        BY <1>1, <3>3 DEF Leased
      <4>2. Cardinality(Leased(r)) < Capacity[r]
        BY <1>1, <3>3 DEF Available
      <4>3. Cardinality(Leased(r)') <= Cardinality(Leased(r)) + 1
        <5>1. Cardinality(Leased(r) \cup {<<s, r>>}) \in {Cardinality(Leased(r)), Cardinality(Leased(r)) + 1}
          BY <3>1, FS_AddElement
        <5>2. QED
          BY <3>2, <4>1, <5>1
      <4>4. Cardinality(Leased(r)') \in Nat
        BY <3>1, <4>1, FS_AddElement, FS_CardinalityType
      <4>5. QED
        BY <3>1, <3>2, <4>2, <4>3, <4>4
    <3>4. CASE r \notin needs
      <4>1. Leased(r)' = Leased(r)
        BY <1>1, <3>4 DEF Leased
      <4>2. QED
        BY <3>1, <4>1
    <3>5. QED
      BY <3>3, <3>4
  <2>3. QED
    BY <2>1, <2>2 DEF Leasing
<1>14. Executing'
  <2>1. \A o \in Worker : pc[o] = "execute" => mine[o] # s /\ owner[mine[o]] # w /\ owner[mine[o]] \in WorkId
    BY <1>3, <1>6 DEF Executing, RTypes
  <2>2. QED
    BY <1>1, <1>4, <1>6, <2>1 DEF Executing
<1>15. QED
  BY <1>7, <1>8, <1>9, <1>11, <1>12, <1>13, <1>14

-----------------------------------------------------------------------------
(* Every step.                                                             *)

\* A thread other than the scheduler's moves on, without beginning to execute.
LEMMA GotoIdles ==
  ASSUME RCore, NEW th \in Thread, NEW to \in {"idle", "notify", "refresh", "read", "assign"},
         pc' = [pc EXCEPT ![th] = to],
         \A o \in Worker \ {th} : mine'[o] = mine[o]
  PROVE  Idles /\ pc'[th] \notin {"claim", "execute"}
<1>1. pc'[th] = to /\ \A o \in Worker \ {th} : o \in Thread /\ pc'[o] = pc[o]
  BY DEF RCore, RTypes, Thread
<1>2. QED
  BY <1>1 DEF Idles, RCore, Executing

\* The scheduler's steps
LEMMA ScheduleKeeps ==
  ASSUME RCore, NEW th \in Thread, Schedule(th)
  PROVE  RCore' /\ Handover /\ [Next]_vars
<1>1. CASE ScheduleEnter(th)
  BY <1>1, EnterKeeps
<1>2. CASE \E w \in WorkId : ScheduleAssign(th, w)
  BY <1>2, AssignKeeps
<1>3. CASE ScheduleRefresh(th)
  <2>1. /\ pc' = [pc EXCEPT ![th] = "read"]
        /\ Expire \/ UNCHANGED vars
        /\ RefreshReadiness \/ UNCHANGED vars
        /\ UNCHANGED <<mine, candidates, lock, owner, leases, nextAsg>>
    BY <1>3 DEF ScheduleRefresh, Goto, RefreshReadiness, scheduler
  <2>2. [Next]_vars
    BY <2>1 DEF Next, Operate
  <2>3. TInv'
    BY <2>2, TInvNext DEF RCore
  <2>4. Calm
    BY <2>1, RefreshCalm DEF RCore, Expire, vars, graph
  <2>5. RTypes'
    BY <2>1 DEF RCore, RTypes
  <2>6. Idles
    BY <2>1, GotoIdles
  <2>7. QED
    BY <2>1, <2>2, <2>3, <2>4, <2>5, <2>6, CalmKeeps
<1>4. CASE ScheduleRead(th) \/ ScheduleLeave(th) \/ \E w \in WorkId : ScheduleSkip(th, w) \/ ScheduleRaise(th, w)
  <2>1. /\ pc' = pc \/ pc' = [pc EXCEPT ![th] = "assign"] \/ pc' = [pc EXCEPT ![th] = "idle"]
        /\ candidates' \subseteq candidates \cup WorkId
        /\ lock' \in {lock, None}
        /\ UNCHANGED <<vars, mine, owner, leases, nextAsg>>
    BY <1>4 DEF ScheduleRead, ScheduleLeave, ScheduleSkip, ScheduleRaise, Goto
  <2>2. TInv'
    BY <2>1, TInvNext DEF RCore
  <2>3. Calm
    BY <2>1, RefreshCalm DEF RCore, vars, graph
  <2>4. RTypes'
    BY <2>1 DEF RCore, RTypes
  <2>5. Idles
    <3>1. CASE pc' = pc
      BY <2>1, <3>1 DEF Idles, RCore, Executing
    <3>2. CASE pc' # pc
      BY <2>1, <3>2, GotoIdles
    <3>3. QED
      BY <3>1, <3>2
  <2>6. QED
    BY <2>1, <2>2, <2>3, <2>4, <2>5, CalmKeeps
<1>5. QED
  BY <1>1, <1>2, <1>3, <1>4 DEF Schedule

\* The WORK of an executing thread
LEMMA CurrentWork ==
  ASSUME RCore, NEW th \in Worker, pc[th] = "execute"
  PROVE  /\ Current(th) \in WorkId /\ asg[Current(th)] = mine[th] /\ status[Current(th)] = "RUNNING"
         /\ mine[th] \in Assignment /\ owner[mine[th]] = Current(th)
<1>1. mine[th] \in Assignment /\ mine[th] # None
  BY NoneAssumption DEF RCore, Executing
<1>2. PICK w \in WorkId : w = owner[mine[th]] /\ asg[w] = mine[th] /\ status[w] = "RUNNING"
  BY <1>1 DEF RCore, RTypes, Tabled, Executing
<1>3. Current(th) \in WorkId /\ asg[Current(th)] = mine[th]
  BY <1>2, Zenon DEF Current
<1>4. Current(th) = w
  BY <1>1, <1>2, <1>3 DEF RCore, Counted
<1>5. QED
  BY <1>1, <1>2, <1>3, <1>4

\* The steps of an AppAgent
LEMMA RunKeeps ==
  ASSUME RCore, NEW th \in Worker, Run(th)
  PROVE  RCore' /\ Handover /\ [Next]_vars
<1> USE NoneAssumption
<1>1. th \in Thread
  BY DEF Thread
<1>2. CASE RunClaim(th)
  BY <1>2, ClaimKeeps
<1>3. CASE RunPick(th)
  <2>1. PICK s \in Assignment : mine' = [mine EXCEPT ![th] = s]
    BY <1>3 DEF RunPick, Pending
  <2>2. pc' = [pc EXCEPT ![th] = "claim"] /\ UNCHANGED <<vars, candidates, lock, owner, leases, nextAsg>>
    BY <1>3 DEF RunPick, Goto, scheduler
  <2>3. RTypes'
    BY <1>1, <2>1, <2>2 DEF RCore, RTypes
  <2>4. TInv' /\ Calm
    BY <2>2, TInvNext, RefreshCalm DEF RCore, vars, graph
  <2>5. Idles
    <3>1. pc'[th] = "claim" /\ mine'[th] = s
      BY <1>1, <2>1, <2>2 DEF RCore, RTypes
    <3>2. \A o \in Worker \ {th} : pc'[o] = pc[o] /\ mine'[o] = mine[o]
      BY <2>1, <2>2 DEF RCore, RTypes, Thread
    <3>3. QED
      BY <3>1, <3>2 DEF Idles, RCore, Executing
  <2>6. QED
    BY <2>2, <2>3, <2>4, <2>5, CalmKeeps
<1>4. CASE RunClaimRaise(th) \/ \E g \in Agent, i \in Identity \cup {None, Malformed} : RunExpandRaise(th, g, i)
  <2>1. /\ pc' = [pc EXCEPT ![th] = "idle"] /\ mine' = [mine EXCEPT ![th] = None]
        /\ UNCHANGED <<vars, candidates, lock, owner, leases, nextAsg>>
    BY <1>4 DEF RunClaimRaise, RunExpandRaise, Goto, scheduler
  <2>2. RTypes'
    BY <1>1, <2>1 DEF RCore, RTypes
  <2>3. TInv' /\ Calm
    BY <2>1, TInvNext, RefreshCalm DEF RCore, vars, graph
  <2>4. Idles
    <3>1. \A o \in Worker \ {th} : mine'[o] = mine[o]
      BY <2>1 DEF RCore, RTypes
    <3>2. QED
      BY <1>1, <2>1, <3>1, GotoIdles
  <2>5. QED
    BY <2>1, <2>2, <2>3, <2>4, CalmKeeps
<1>5. CASE RunCommit(th) \/ RunFail(th) \/
           \E g \in Agent, i \in Identity \cup {None}, age \in Age, d \in Draft : RunExpand(th, g, i, age, d)
  <2> DEFINE w == Current(th)
             s == mine[th]
  <2>1. /\ pc[th] = "execute" /\ pc' = [pc EXCEPT ![th] = "notify"] /\ mine' = [mine EXCEPT ![th] = None]
        /\ UNCHANGED <<candidates, lock, owner, leases, nextAsg>>
        /\ \/ \E complete \in BOOLEAN, d \in Draft : CommitWork(w, s, complete, d) \/ RejectWork(w, s, complete)
           \/ FailWork(w, s)
           \/ \E g \in Agent, i \in Identity \cup {None}, age \in Age, d \in Draft : ExpandWork(w, s, g, i, age, d)
    BY <1>5, Zenon DEF RunCommit, RunFail, RunExpand, Goto, scheduler
  <2>2. w \in WorkId /\ s \in Assignment /\ asg[w] = s
    BY <2>1, CurrentWork
  <2> HIDE DEF w
  <2>3. Ending(w, s) /\ Next
    <3>1. CASE \E complete \in BOOLEAN, d \in Draft : CommitWork(w, s, complete, d)
      <4>1. Holds(w, s) /\ work' = work /\ Finish(w, "DONE", "completed")
        BY <3>1 DEF CommitWork
      <4>2. QED
        BY <2>2, <3>1, <4>1, FinishEnding DEF RCore, Next, Operate
    <3>2. CASE FailWork(w, s) \/ \E complete \in BOOLEAN : RejectWork(w, s, complete)
      <4>1. Holds(w, s) /\ work' = work /\ Finish(w, "FAILED", "failed")
        BY <3>2 DEF FailWork, RejectWork
      <4>2. Next
        BY <2>2, <3>2 DEF Next, Operate
      <4>3. QED
        BY <2>2, <4>1, <4>2, FinishEnding DEF RCore
    <3>3. CASE \E g \in Agent, i \in Identity \cup {None}, age \in Age, d \in Draft : ExpandWork(w, s, g, i, age, d)
      <4>1. PICK g \in Agent, i \in Identity \cup {None}, age \in Age, d \in Draft : ExpandWork(w, s, g, i, age, d)
        BY <3>3
      <4>2. g \in Capable
        BY <4>1, Zenon DEF ExpandWork
      <4>3. Next
        BY <2>2, <4>1, <4>2, Zenon DEF Next, Operate
      <4>4. QED
        BY <2>2, <4>1, <4>3, ExpandEnding DEF RCore
    <3>4. QED
      BY <2>1, <3>1, <3>2, <3>3
  <2>4. TInv'
    BY <2>3, TInvNext DEF RCore
  <2>5. RTypes'
    BY <1>1, <2>1 DEF RCore, RTypes
  <2>6. Idles /\ pc'[th] \notin {"claim", "execute"}
    <3>1. \A o \in Worker \ {th} : mine'[o] = mine[o]
      BY <2>1 DEF RCore, RTypes
    <3>2. QED
      BY <1>1, <2>1, <3>1, GotoIdles
  <2>7. QED
    BY <2>1, <2>2, <2>3, <2>4, <2>5, <2>6, EndKeeps
<1>6. QED
  BY <1>2, <1>3, <1>4, <1>5 DEF Run, Report

\* The steps of a client
LEMMA ClientKeeps ==
  ASSUME RCore, NEW th \in Client,
         ClientSubmit(th) \/ ClientInvalidate(th) \/ ClientResolve(th) \/ ClientEvaluate(th)
  PROVE  RCore' /\ Handover /\ [Next]_vars
<1>1. th \in Thread /\ th \notin Worker
  BY ThreadAssumption DEF Thread
<1>2. /\ pc' = pc \/ pc' = [pc EXCEPT ![th] = "notify"]
      /\ UNCHANGED <<mine, candidates, lock, owner, leases, nextAsg>>
      /\ \/ \E t \in Task, f \in Fragment : SubmitTask(t, f)
         \/ SweepExpired \/ \E a \in ArtId : InvalidateArtifact(a)
         \/ \E c \in WorkId, t \in Task, i \in Identity \cup {None}, age \in Age, g \in Agent :
               ResolveArtifact(c, t, i, age, g)
         \/ \E t \in Task, success \in BOOLEAN : EvaluateTask(t, success)
  BY Zenon DEF ClientSubmit, ClientInvalidate, ClientResolve, ClientEvaluate, Goto, scheduler
<1>3. Next
  BY <1>2, Zenon DEF Next, Operate
<1>4. TInv'
  BY <1>3, TInvNext DEF RCore
<1>5. Calm
  <2>1. CASE SweepExpired \/ \E a \in ArtId : InvalidateArtifact(a)
    <3>1. work' = work /\ asg' = asg /\ status' = SettledWork(status, work, art')
      BY <2>1 DEF SweepExpired, Expire, InvalidateArtifact
    <3>2. QED
      BY <3>1, RefreshCalm DEF RCore
  <2>2. CASE \E t \in Task, success \in BOOLEAN : EvaluateTask(t, success)
    <3>1. work' = work /\ asg' = asg /\ status' = status
      BY <2>2 DEF EvaluateTask
    <3>2. QED
      BY <3>1, RefreshCalm DEF RCore
  <2>3. QED
    BY <1>2, <2>1, <2>2, SubmitCalm, ResolveCalm DEF RCore
<1>6. RTypes'
  BY <1>1, <1>2 DEF RCore, RTypes
<1>7. Idles
  <2>1. CASE pc' = pc
    BY <1>2, <2>1 DEF Idles, RCore, Executing
  <2>2. CASE pc' # pc
    BY <1>1, <1>2, <2>2, GotoIdles
  <2>3. QED
    BY <2>1, <2>2
<1>8. QED
  BY <1>2, <1>3, <1>4, <1>5, <1>6, <1>7, CalmKeeps

LEMMA RCoreNext == ASSUME RCore, [RNext]_rvars PROVE RCore' /\ Handover /\ [Next]_vars
<1>1. CASE \E th \in Thread : Schedule(th)
  BY <1>1, ScheduleKeeps
<1>2. CASE \E th \in Worker : Run(th)
  BY <1>2, RunKeeps
<1>3. CASE \E th \in Client : ClientSubmit(th) \/ ClientInvalidate(th) \/ ClientResolve(th) \/ ClientEvaluate(th)
  BY <1>3, ClientKeeps
<1>4. CASE RTick \/ UNCHANGED rvars
  <2>1. (Tick \/ UNCHANGED vars) /\ UNCHANGED <<pc, mine, candidates, lock, owner, leases, nextAsg>>
    BY <1>4 DEF RTick, rvars, scheduler
  <2>2. [Next]_vars
    BY <2>1 DEF Next
  <2>3. TInv'
    BY <2>2, TInvNext DEF RCore
  <2>4. work' = work /\ asg' = asg /\ status' = status
    BY <2>1 DEF Tick, vars, graph
  <2>5. Calm
    BY <2>4, RefreshCalm DEF RCore
  <2>6. RTypes' /\ Idles
    BY <2>1 DEF RCore, RTypes, Idles, Executing
  <2>7. QED
    BY <2>1, <2>2, <2>3, <2>5, <2>6, CalmKeeps
<1>5. QED
  BY <1>1, <1>2, <1>3, <1>4 DEF RNext

-----------------------------------------------------------------------------
(* What follows from the invariant, and the theorems.                      *)

LEMMA LeaseEquation == ASSUME RCore PROVE LeaseDiscipline
<1> DEFINE held == UNION {{<<s, r>> : r \in NeedsOf(owner[s], work[owner[s]].agent)} : s \in {x \in Assignment : owner[x] # None}}
<1>1. \A s \in Assignment : owner[s] # None => NeedsOf(owner[s], work[owner[s]].agent) \subseteq Resource
  BY NeedsFacts DEF RCore, RTypes, Tabled, Taken, Staffed
<1>2. \A s \in Assignment, r \in Resource : <<s, r>> \in leases <=> owner[s] # None /\ r \in NeedsOf(owner[s], work[owner[s]].agent)
  BY DEF RCore, Leasing
<1>3. ASSUME NEW l \in leases PROVE l \in held
  <2>1. PICK s \in Assignment, r \in Resource : l = <<s, r>>
    BY DEF RCore, RTypes
  <2>2. QED
    BY <1>2, <2>1
<1>4. ASSUME NEW l \in held PROVE l \in leases
  <2>1. PICK s \in {x \in Assignment : owner[x] # None} : l \in {<<s, r>> : r \in NeedsOf(owner[s], work[owner[s]].agent)}
    OBVIOUS
  <2>2. PICK r \in NeedsOf(owner[s], work[owner[s]].agent) : l = <<s, r>>
    BY <2>1
  <2>3. r \in Resource
    BY <1>1, <2>2
  <2>4. QED
    BY <1>2, <2>2, <2>3
<1>5. leases = held
  <2> HIDE DEF held
  <2>1. QED
    BY <1>3, <1>4
<1>6. QED
  BY <1>5 DEF LeaseDiscipline, RCore, Leasing

\* Each WORK in hand that needs a resource has a lease of it of its own, so there are
\* at most as many as leases.
LEMMA NoOverload == ASSUME RInv PROVE ResourceExclusion
<1> SUFFICES ASSUME NEW r \in Resource
             PROVE  Cardinality({w \in WorkId : Live(w) /\ r \in NeedsOf(w, work[w].agent)}) <= Capacity[r]
  BY DEF ResourceExclusion
<1> USE NoneAssumption
<1> DEFINE users == {w \in WorkId : Live(w) /\ r \in NeedsOf(w, work[w].agent)}
           lease == [w \in users |-> <<asg[w], r>>]
<1>1. ASSUME NEW w \in users PROVE lease[w] \in Leased(r)
  <2>1. asg[w] \in Assignment /\ owner[asg[w]] = w /\ w # None /\ r \in NeedsOf(w, work[w].agent)
    BY DEF RInv, Owned, WorkId
  <2>2. <<asg[w], r>> \in leases
    BY <2>1 DEF RInv, RCore, Leasing
  <2>3. QED
    BY <2>2 DEF Leased
<1>2. \A v, w \in users : lease[v] = lease[w] => v = w
  BY DEF RInv, Owned
<1>3. lease \in Injection(users, Leased(r))
  BY <1>1, <1>2 DEF Injection, IsInjective
<1>4. IsFiniteSet(Leased(r)) /\ Cardinality(Leased(r)) <= Capacity[r] /\ Capacity[r] \in Nat
  BY LeasedFinite, ResourceAssumption DEF RInv, RCore, Leasing
<1> HIDE DEF users, lease
<1>5. IsFiniteSet(users) /\ Cardinality(users) <= Cardinality(Leased(r))
  BY <1>3, <1>4, FS_Injection
<1>6. Cardinality(users) \in Nat /\ Cardinality(Leased(r)) \in Nat
  BY <1>4, <1>5, FS_CardinalityType
<1>7. QED
  BY <1>4, <1>5, <1>6 DEF users

LEMMA NoSharedWork == ASSUME RCore PROVE ExclusiveExecution
<1> SUFFICES ASSUME NEW th \in Worker, pc[th] = "execute"
             PROVE  /\ Holds(Current(th), mine[th])
                    /\ \A other \in Worker \ {th} : pc[other] = "execute" => Current(other) # Current(th)
  BY DEF ExclusiveExecution
<1>1. Holds(Current(th), mine[th])
  BY CurrentWork DEF Holds
<1>2. ASSUME NEW other \in Worker \ {th}, pc[other] = "execute" PROVE Current(other) # Current(th)
  <2>1. mine[other] # mine[th]
    BY <1>2 DEF RCore, Executing
  <2>2. asg[Current(other)] = mine[other] /\ asg[Current(th)] = mine[th]
    BY <1>2, CurrentWork
  <2>3. QED
    BY <2>1, <2>2
<1>3. QED
  BY <1>1, <1>2

\* A process that starts from nothing keeps all live WORK in the table.
LEMMA RInvNext == ASSUME RInv, [RNext]_rvars PROVE RInv' /\ [Next]_vars
<1>1. RCore' /\ Handover /\ [Next]_vars
  BY RCoreNext DEF RInv
<1>2. \A w \in WorkId : Owned(w)'
  BY <1>1 DEF RInv, Handover, Owned, Live
<1>3. QED
  BY <1>1, <1>2 DEF RInv

LEMMA Invariant == RSpec => []RInv
<1>1. RInv /\ [RNext]_rvars => RInv'
  BY RInvNext
<1>2. QED
  BY RInvInit, <1>1, PTL DEF RSpec

\* The composition changes the graph through the operations of the steward only,
\* each under an assignment and for a WORK that exist: what is proved of the
\* steward alone holds with the scheduler and the agents around it.
THEOREM UsesSteward == RSpec => Spec
<1>1. RInit => Init
  BY DEF RInit
<1>2. RInv /\ [RNext]_rvars => [Next]_vars
  BY RInvNext
<1>3. QED
  BY <1>1, <1>2, Invariant, PTL DEF RSpec, Spec

\* The tables of the scheduler have their types in every reachable state.
THEOREM RTypeCorrect == RSpec => []RTypeOK
<1>1. RInv => RTypeOK
  BY DEF RInv, RCore, RTypes, TInv, RTypeOK
<1>2. QED
  BY <1>1, Invariant, PTL

\* However calls of agents, clients and schedule() interleave, the scheduler's table
\* of assignments and the graph agree on who has which WORK.
THEOREM AgreementHolds == RSpec => []AssignmentAgreement
<1>1. RInv => AssignmentAgreement
  BY DEF RInv, RCore, Owned, Tabled, AssignmentAgreement
<1>2. QED
  BY <1>1, Invariant, PTL

\* No lease leaks, none is missing, and no resource is leased beyond its capacity.
THEOREM LeasesHold == RSpec => []LeaseDiscipline
<1>1. RInv => LeaseDiscipline
  BY LeaseEquation DEF RInv
<1>2. QED
  BY <1>1, Invariant, PTL

\* Agents that work at the same time never overload a resource, for any capacities
\* and any number of agents: a display is used by one of them.
THEOREM ExclusionHolds == RSpec => []ResourceExclusion
BY NoOverload, Invariant, PTL

\* No two threads execute the same WORK, and none has its report refused for
\* ownership.
THEOREM ExecutionHolds == RSpec => []ExclusiveExecution
<1>1. RInv => ExclusiveExecution
  BY NoSharedWork DEF RInv
<1>2. QED
  BY <1>1, Invariant, PTL

-----------------------------------------------------------------------------
(* No READY WORK is forgotten, if every operation but direct resolution is *)
(* used: who will still look at it, or what it lacks.                      *)

\* A thread is about to read the frontier again.
Owes(th) == pc[th] \in {"notify", "refresh", "read"}

Owed == \E th \in Thread : Owes(th)

\* What schedule() does under its lock is done by the thread that has it.
Inside == \A th \in Thread : pc[th] \in {"refresh", "read", "assign"} => lock = th

\* Leases of finished WORK wait for an event that is still to be answered.
Returned == Finished = {} \/ \E th \in Thread : pc[th] = "notify"

\* READY WORK is a candidate of a schedule() under way, or was found to lack a resource.
Considered ==
  \A w \in WorkId : status[w] = "READY" =>
    \/ ~Available(NeedsOf(w, work[w].agent))
    \/ w \in candidates /\ \E th \in Thread : pc[th] = "assign"

\* assign will not raise, so that the candidates that are left are all looked at.
Assignable == \A th \in Thread : pc[th] = "assign" => \A w \in candidates : status[w] = "READY"

Awaited == Inside /\ Returned /\ (Owed \/ (Considered /\ Assignable))

LEMMA AwaitedInit == RInit => Awaited
<1> SUFFICES ASSUME RInit PROVE Awaited
  OBVIOUS
<1>1. /\ \A th \in Thread : pc[th] = "idle"
      /\ \A s \in Assignment : owner[s] = None
      /\ \A w \in WorkId : status[w] = "ABSENT"
  BY DEF RInit, Init
<1>2. Inside /\ Finished = {}
  BY <1>1 DEF Inside, Finished
<1>3. Considered /\ Assignable
  BY <1>1 DEF Considered, Assignable
<1>4. QED
  BY <1>2, <1>3 DEF Awaited, Returned

\* An operation whose event the scheduler answers: its thread will read the frontier.
LEMMA NotifyAwaits ==
  ASSUME RTypes, Awaited, NEW th \in Thread, pc' = [pc EXCEPT ![th] = "notify"], lock' = lock
  PROVE  Awaited'
<1>1. pc'[th] = "notify" /\ \A o \in Thread \ {th} : pc'[o] = pc[o]
  BY DEF RTypes
<1>2. Inside'
  BY <1>1 DEF Awaited, Inside
<1>3. Returned' /\ Owed'
  BY <1>1 DEF Returned, Owed, Owes
<1>4. QED
  BY <1>2, <1>3 DEF Awaited

\* A step outside schedule() that leaves the frontier and the leases alone
LEMMA ElsewhereAwaits ==
  ASSUME Awaited, UNCHANGED <<work, candidates, lock, owner, leases>>,
         \A th \in Thread : \/ pc'[th] = pc[th]
                            \/ {pc[th], pc'[th]} \subseteq {"idle", "claim", "execute"},
         \A w \in WorkId : status'[w] = "READY" <=> status[w] = "READY",
         \A w \in WorkId : status'[w] \in {"DONE", "FAILED"} => status[w] \in {"DONE", "FAILED"},
         RTypes
  PROVE  Awaited'
<1>1. \A th \in Thread : \A at \in {"notify", "refresh", "read", "assign"} : pc'[th] = at <=> pc[th] = at
  OBVIOUS
<1>2. Inside' /\ (Owed => Owed')
  BY <1>1 DEF Awaited, Inside, Owed, Owes
<1>3. Returned'
  <2>1. Finished = {} => Finished' = {}
    BY DEF Finished, RTypes
  <2>2. QED
    BY <1>1, <2>1 DEF Awaited, Returned
<1>4. Considered => Considered'
  <2>1. \A w \in WorkId : Available(NeedsOf(w, work[w].agent))' <=> Available(NeedsOf(w, work[w].agent))
    BY DEF Available, Leased
  <2>2. (\E th \in Thread : pc[th] = "assign") <=> \E th \in Thread : pc'[th] = "assign"
    BY <1>1
  <2>3. QED
    BY <2>1, <2>2 DEF Considered
<1>5. Assignable => Assignable'
  <2>1. candidates' \subseteq WorkId
    BY DEF RTypes
  <2>2. QED
    BY <1>1, <2>1 DEF Assignable
<1>6. QED
  BY <1>2, <1>3, <1>4, <1>5 DEF Awaited

\* The steps of schedule()
LEMMA ScheduleAwaits ==
  ASSUME RInv, RInv', Awaited, NEW th \in Thread, Schedule(th)
  PROVE  Awaited'
<1> USE NoneAssumption
<1>1. RTypes /\ RTypes'
  BY DEF RInv, RCore
<1>2. \A o \in Thread \ {th} : pc'[o] = pc[o]
  BY <1>1 DEF Schedule, ScheduleEnter, ScheduleRefresh, ScheduleRead, ScheduleSkip, ScheduleAssign, ScheduleRaise,
              ScheduleLeave, Goto, RTypes
<1>3. CASE ScheduleEnter(th)
  <2>1. /\ lock = None /\ lock' = th /\ pc'[th] = "refresh"
        /\ owner' = [s \in Assignment |-> IF s \in Finished THEN None ELSE owner[s]]
        /\ status' = status
    BY <1>1, <1>3 DEF ScheduleEnter, Goto, RTypes, vars, graph
  <2>2. Finished' = {}
    BY <2>1 DEF Finished
  <2>3. th # None /\ None \notin Thread
    BY ThreadAssumption
  <2>4. Inside'
    BY <1>2, <2>1, <2>3 DEF Awaited, Inside
  <2>5. Owed'
    BY <2>1 DEF Owed, Owes
  <2>6. QED
    BY <2>2, <2>4, <2>5 DEF Awaited, Returned
<1>4. CASE ScheduleRefresh(th)
  <2>1. /\ pc[th] = "refresh" /\ pc'[th] = "read"
        /\ lock' = lock /\ owner' = owner
    BY <1>1, <1>4 DEF ScheduleRefresh, Goto, RTypes, scheduler
  <2>2. Inside' /\ Owed'
    BY <1>2, <2>1 DEF Awaited, Inside, Owed, Owes
  <2>3. status' = SettledWork(status, work', art') \/ status' = status
    BY <1>4 DEF ScheduleRefresh, RefreshReadiness, Expire, vars, graph
  <2>4. \A w \in WorkId : status'[w] \in {"DONE", "FAILED"} => status[w] \in {"DONE", "FAILED"}
    <3>1. status \in [WorkId -> WorkStatus]
      BY DEF RInv, RCore, TInv, TypeOK
    <3>2. QED
      BY <2>3, <3>1, SettledWorkType
  <2>5. Finished = {} => Finished' = {}
    BY <1>1, <2>1, <2>4 DEF Finished, RTypes
  <2>6. Returned'
    BY <1>2, <2>1, <2>5 DEF Awaited, Returned
  <2>7. QED
    BY <2>2, <2>6 DEF Awaited
<1>5. CASE ScheduleRead(th)
  <2>1. /\ pc[th] = "read" /\ pc'[th] = "assign"
        /\ candidates' = {w \in WorkId : status[w] = "READY"}
        /\ status' = status /\ lock' = lock /\ owner' = owner
    BY <1>1, <1>5 DEF ScheduleRead, Goto, RTypes, vars, graph
  <2>2. Inside'
    BY <1>2, <2>1 DEF Awaited, Inside
  <2>3. Returned'
    BY <1>2, <2>1 DEF Awaited, Returned, Finished
  <2>4. Considered' /\ Assignable'
    BY <2>1 DEF Considered, Assignable
  <2>5. QED
    BY <2>2, <2>3, <2>4 DEF Awaited
<1>6. CASE \E w \in WorkId : ScheduleSkip(th, w)
  <2>1. PICK w \in WorkId : ScheduleSkip(th, w)
    BY <1>6
  <2>2. /\ ~Available(NeedsOf(w, work[w].agent))
        /\ candidates' = candidates \ {w}
        /\ UNCHANGED <<status, work, pc, lock, owner, leases>>
    BY <2>1 DEF ScheduleSkip, vars, graph
  <2>3. Inside' /\ Returned' /\ (Owed => Owed')
    BY <2>2 DEF Awaited, Inside, Returned, Finished, Owed, Owes
  <2>4. Considered => Considered'
    <3>1. \A v \in WorkId : Available(NeedsOf(v, work[v].agent))' <=> Available(NeedsOf(v, work[v].agent))
      BY <2>2 DEF Available, Leased
    <3>2. QED
      BY <2>2, <3>1 DEF Considered
  <2>5. Assignable => Assignable'
    BY <2>2 DEF Assignable
  <2>6. QED
    BY <2>3, <2>4, <2>5 DEF Awaited
<1>7. CASE \E w \in WorkId : ScheduleAssign(th, w)
  <2>1. PICK w \in WorkId : ScheduleAssign(th, w)
    BY <1>7
  <2>2. /\ nextAsg \in Assignment
        /\ candidates' = candidates \ {w}
        /\ status' = [status EXCEPT ![w] = "ASSIGNED"]
        /\ owner' = [owner EXCEPT ![nextAsg] = w]
        /\ leases \subseteq leases'
        /\ UNCHANGED <<work, pc, lock>>
    BY <1>1, <2>1, ThreadAssumption DEF ScheduleAssign, Assign, RTypes
  <2>3. status'[w] = "ASSIGNED" /\ \A v \in WorkId \ {w} : status'[v] = status[v]
    BY <2>2 DEF RInv, RCore, TInv, TypeOK
  <2>4. Inside' /\ (Owed => Owed')
    BY <2>2 DEF Awaited, Inside, Owed, Owes
  <2>5. Returned'
    <3>1. Finished = {} => Finished' = {}
      BY <1>1, <2>2, <2>3 DEF Finished, RTypes
    <3>2. QED
      BY <2>2, <3>1 DEF Awaited, Returned
  <2>6. \A v \in WorkId : status[v] = "READY" /\ Available(NeedsOf(v, work[v].agent))' => Available(NeedsOf(v, work[v].agent))
    <3>1. ASSUME NEW r \in Resource, Cardinality(Leased(r)') < Capacity[r]
          PROVE  Cardinality(Leased(r)) < Capacity[r]
      <4>1. IsFiniteSet(Leased(r)')
        <5>1. RTypes => IsFiniteSet(Leased(r))
          BY LeasedFinite
        <5>2. (RTypes => IsFiniteSet(Leased(r)))'
          BY LeasedFinite, PTL
        <5>3. QED
          BY <1>1, <5>2
      <4>2. Leased(r) \subseteq Leased(r)'
        BY <2>2 DEF Leased
      <4>3. /\ IsFiniteSet(Leased(r))
            /\ Cardinality(Leased(r)) <= Cardinality(Leased(r)')
            /\ Cardinality(Leased(r)) \in Nat /\ Cardinality(Leased(r)') \in Nat
        BY <4>1, <4>2, FS_Subset, FS_CardinalityType
      <4>4. Capacity[r] \in Nat
        BY ResourceAssumption
      <4>5. QED
        BY <3>1, <4>3, <4>4
    <3>2. \A v \in WorkId : status[v] = "READY" => NeedsOf(v, work[v].agent) \subseteq Resource
      BY NeedsFacts DEF RInv, RCore, Staffed
    <3>3. QED
      BY <2>2, <3>1, <3>2 DEF Available
  <2>7. Considered => Considered'
    BY <2>2, <2>3, <2>6 DEF Considered
  <2>8. Assignable => Assignable'
    BY <1>1, <2>2, <2>3 DEF Assignable, RTypes
  <2>9. QED
    BY <2>4, <2>5, <2>7, <2>8 DEF Awaited
<1>8. CASE ScheduleLeave(th) \/ \E w \in WorkId : ScheduleRaise(th, w)
  <2>1. /\ pc[th] = "assign" /\ pc'[th] = "idle" /\ lock' = None
        /\ candidates' = {} /\ UNCHANGED <<status, work, owner, leases>>
        /\ candidates = {} \/ \E w \in candidates : status[w] # "READY"
    BY <1>1, <1>8 DEF ScheduleLeave, ScheduleRaise, Goto, RTypes, vars, graph
  <2>2. lock = th
    BY <2>1 DEF Awaited, Inside
  <2>3. \A o \in Thread : pc'[o] \notin {"refresh", "read", "assign"}
    BY <1>2, <2>1, <2>2 DEF Awaited, Inside
  <2>4. Inside' /\ Returned' /\ (Owed => Owed') /\ Assignable'
    BY <1>2, <2>1, <2>3 DEF Awaited, Inside, Returned, Finished, Owed, Owes, Assignable
  <2>5. Owed \/ Considered'
    <3>1. \A v \in WorkId : Available(NeedsOf(v, work[v].agent))' <=> Available(NeedsOf(v, work[v].agent))
      BY <2>1 DEF Available, Leased
    <3>2. Owed \/ candidates = {}
      BY <2>1 DEF Awaited, Assignable
    <3>3. QED
      BY <2>1, <3>1, <3>2 DEF Awaited, Considered
  <2>6. QED
    BY <2>4, <2>5 DEF Awaited
<1>9. QED
  BY <1>3, <1>4, <1>5, <1>6, <1>7, <1>8 DEF Schedule

LEMMA RunAwaits ==
  ASSUME RInv, Awaited, NEW th \in Worker, Run(th)
  PROVE  Awaited'
<1> USE NoneAssumption
<1>1. th \in Thread /\ RTypes
  BY DEF Thread, RInv, RCore
<1>2. CASE RunPick(th) \/ RunClaimRaise(th) \/ \E g \in Agent, i \in Identity \cup {None, Malformed} : RunExpandRaise(th, g, i)
  <2>1. /\ \E from, to \in {"idle", "claim", "execute"} : pc[th] = from /\ pc' = [pc EXCEPT ![th] = to]
        /\ UNCHANGED <<vars, candidates, lock, owner, leases>>
    BY <1>2 DEF RunPick, RunClaimRaise, RunExpandRaise, Goto, scheduler
  <2>2. \A o \in Thread : pc'[o] = pc[o] \/ {pc[o], pc'[o]} \subseteq {"idle", "claim", "execute"}
    BY <1>1, <2>1 DEF RTypes
  <2>3. work' = work /\ status' = status
    BY <2>1 DEF vars, graph
  <2>4. QED
    BY <1>1, <2>1, <2>2, <2>3, ElsewhereAwaits
<1>3. CASE RunClaim(th)
  <2>1. PICK w \in WorkId : w = owner[mine[th]] /\ Start(w, mine[th])
    <3>1. mine[th] \in Assignment /\ owner[mine[th]] # None /\ Start(owner[mine[th]], mine[th])
      BY <1>3 DEF RunClaim, Goto, RInv, RCore, Executing
    <3>2. QED
      BY <1>1, <3>1 DEF RTypes
  <2>2. /\ pc[th] = "claim" /\ pc' = [pc EXCEPT ![th] = "execute"]
        /\ status[w] = "ASSIGNED" /\ status' = [status EXCEPT ![w] = "RUNNING"]
        /\ UNCHANGED <<work, candidates, lock, owner, leases>>
    BY <1>3, <2>1 DEF RunClaim, Start, Goto, scheduler
  <2>3. \A o \in Thread : pc'[o] = pc[o] \/ {pc[o], pc'[o]} \subseteq {"idle", "claim", "execute"}
    BY <1>1, <2>2 DEF RTypes
  <2>4. status'[w] = "RUNNING" /\ \A v \in WorkId \ {w} : status'[v] = status[v]
    BY <2>2 DEF RInv, RCore, TInv, TypeOK
  <2>5. QED
    BY <1>1, <2>2, <2>3, <2>4, ElsewhereAwaits
<1>4. CASE RunCommit(th) \/ RunFail(th) \/
           \E g \in Agent, i \in Identity \cup {None}, age \in Age, d \in Draft : RunExpand(th, g, i, age, d)
  <2>1. pc' = [pc EXCEPT ![th] = "notify"] /\ lock' = lock
    BY <1>4 DEF RunCommit, RunFail, RunExpand, Goto, scheduler
  <2>2. QED
    BY <1>1, <2>1, NotifyAwaits
<1>5. QED
  BY <1>2, <1>3, <1>4 DEF Run, Report

LEMMA ClientAwaits ==
  ASSUME RInv, Awaited, NEW th \in Client, ClientSubmit(th) \/ ClientInvalidate(th) \/ ClientEvaluate(th)
  PROVE  Awaited'
<1>1. th \in Thread /\ RTypes
  BY DEF Thread, RInv, RCore
<1>2. CASE ClientSubmit(th) \/ ClientInvalidate(th)
  <2>1. pc' = [pc EXCEPT ![th] = "notify"] /\ lock' = lock
    BY <1>2 DEF ClientSubmit, ClientInvalidate, Goto, scheduler
  <2>2. QED
    BY <1>1, <2>1, NotifyAwaits
<1>3. CASE ClientEvaluate(th)
  <2>1. UNCHANGED <<work, status, pc, candidates, lock, owner, leases>>
    BY <1>3 DEF ClientEvaluate, EvaluateTask, scheduler
  <2>2. QED
    BY <1>1, <2>1, ElsewhereAwaits
<1>4. QED
  BY <1>2, <1>3

LEMMA AwaitedNext == ASSUME RInv, RInv', Awaited, [NotifyingNext]_rvars PROVE Awaited'
<1>1. CASE RTick \/ UNCHANGED rvars
  <2>1. UNCHANGED <<work, status, pc, candidates, lock, owner, leases>>
    BY <1>1 DEF RTick, Tick, rvars, vars, graph, scheduler
  <2>2. QED
    BY <2>1, ElsewhereAwaits DEF RInv, RCore
<1>2. QED
  BY <1>1, ScheduleAwaits, RunAwaits, ClientAwaits DEF NotifyingNext

\* When nobody has anything left to do, what READY WORK lacks is leased by live WORK:
\* each lease has a WORK in hand of its own, so there are at least as many as leases.
LEMMA LackingMeansUsed == ASSUME RInv, Awaited PROVE NoIdleFrontier
<1> SUFFICES ASSUME Quiet, NEW w \in WorkId, status[w] = "READY"
             PROVE  \E r \in NeedsOf(w, work[w].agent) :
                      Cardinality({v \in WorkId : Live(v) /\ r \in NeedsOf(v, work[v].agent)}) >= Capacity[r]
  BY DEF NoIdleFrontier
<1> USE NoneAssumption
<1>1. ~Available(NeedsOf(w, work[w].agent)) /\ Finished = {}
  BY DEF Quiet, Awaited, Returned, Owed, Owes, Considered
<1>2. PICK r \in NeedsOf(w, work[w].agent) : ~(Cardinality(Leased(r)) < Capacity[r])
  BY <1>1 DEF Available
<1>3. r \in Resource
  BY NeedsFacts DEF RInv, RCore, Staffed
<1> DEFINE users == {v \in WorkId : Live(v) /\ r \in NeedsOf(v, work[v].agent)}
           user == [l \in Leased(r) |-> owner[l[1]]]
<1>4. ASSUME NEW l \in Leased(r) PROVE user[l] \in users /\ l = <<asg[user[l]], r>>
  <2>1. PICK s \in Assignment : l = <<s, r>> /\ l \in leases
    BY DEF Leased, RInv, RCore, RTypes
  <2>2. owner[s] # None /\ r \in NeedsOf(owner[s], work[owner[s]].agent)
    BY <1>3, <2>1 DEF RInv, RCore, Leasing
  <2>3. owner[s] \in WorkId /\ asg[owner[s]] = s /\ Taken(owner[s])
    BY <2>2 DEF RInv, RCore, RTypes, Tabled
  <2>4. status[owner[s]] \notin {"DONE", "FAILED"}
    BY <1>1, <2>2 DEF Finished
  <2>5. status[owner[s]] \in WorkStatus
    BY <2>3 DEF RInv, RCore, TInv, TypeOK
  <2>6. Live(owner[s])
    BY <2>3, <2>4, <2>5 DEF Live, Taken, Waiting, WorkStatus
  <2>7. user[l] = owner[s]
    BY <2>1
  <2>8. QED
    BY <2>1, <2>2, <2>3, <2>6, <2>7
<1>5. user \in Injection(Leased(r), users)
  <2>1. \A k, l \in Leased(r) : user[k] = user[l] => k = l
    BY <1>4
  <2>2. QED
    BY <1>4, <2>1 DEF Injection, IsInjective
<1>6. IsFiniteSet(users)
  <2>1. IsFiniteSet(WorkId)
    <3>1. 1 \in Int /\ MaxWork \in Int /\ WorkId = 1 .. MaxWork
      BY BoundAssumption DEF WorkId
    <3>2. QED
      BY <3>1, FS_Interval
  <2>2. QED
    BY <2>1, FS_Subset
<1> HIDE DEF users, user
<1>7. IsFiniteSet(Leased(r)) /\ Cardinality(Leased(r)) <= Cardinality(users)
  BY <1>5, <1>6, FS_Injection
<1>8. Cardinality(users) \in Nat /\ Cardinality(Leased(r)) \in Nat /\ Capacity[r] \in Nat
  BY <1>3, <1>6, <1>7, FS_CardinalityType, ResourceAssumption
<1>9. Cardinality(users) >= Capacity[r]
  BY <1>2, <1>7, <1>8
<1>10. QED
  BY <1>2, <1>9 DEF users

\* As long as nobody resolves an artifact directly, whose event the scheduler ignores,
\* no READY WORK is forgotten: whatever schedule() skipped, whichever assign raised in
\* the middle of its candidates and whenever leases came back, some thread will read the
\* frontier again, or what the WORK lacks is used up by WORK in an agent's hands.
THEOREM NoIdleHolds == NotifyingSpec => []NoIdleFrontier
<1>1. [NotifyingNext]_rvars => [RNext]_rvars
  BY DEF NotifyingNext, RNext
<1>2. NotifyingSpec => []RInv
  BY <1>1, Invariant, PTL DEF NotifyingSpec, RSpec
<1>3. RInv /\ RInv' /\ Awaited /\ [NotifyingNext]_rvars => Awaited'
  BY AwaitedNext
<1>4. RInv /\ Awaited => NoIdleFrontier
  BY LackingMeansUsed
<1>5. QED
  BY AwaitedInit, <1>2, <1>3, <1>4, PTL DEF NotifyingSpec

-----------------------------------------------------------------------------
(* Restarts.                                                               *)
(*                                                                         *)
(* The invariant of the graph is stated twice, of the state and of the     *)
(* record in the checkpoint (Saved).  An export and a restore both end in  *)
(* a state whose record is the saved one, where the two agree.             *)

\* The graph in the checkpoint; a record has no clock.
Saved == INSTANCE GraphStewardExpansionProofs WITH
  work <- saved.work, status <- saved.status, asg <- saved.asg, outcome <- saved.outcome,
  art <- saved.art, edges <- saved.edges, active <- saved.active, history <- saved.history,
  task <- saved.task, nextWork <- saved.nextWork, nextArt <- saved.nextArt, now <- 0

-----------------------------------------------------------------------------
(* The invariant.                                                          *)

\* What holds of the graph, whoever runs it.
GraphInv == SInv /\ FInv /\ ControlOrder /\ TaskOutcome
SavedInv == Saved!SInv /\ Saved!FInv /\ Saved!ControlOrder /\ Saved!TaskOutcome

\* The checkpoint has the fields of a record, and its assignments were created
\* before, one for each WORK.
Past ==
  /\ saved = [work |-> saved.work, status |-> saved.status, asg |-> saved.asg, outcome |-> saved.outcome,
              art |-> saved.art, edges |-> saved.edges, active |-> saved.active, history |-> saved.history,
              task |-> saved.task, nextWork |-> saved.nextWork, nextArt |-> saved.nextArt]
  /\ \A w \in WorkId : saved.asg[w] # None => saved.asg[w] < nextAsg
  /\ \A v, w \in WorkId : saved.asg[v] # None /\ saved.asg[w] = saved.asg[v] => v = w

\* WORK an earlier process handed out was taken, and is nobody's; all other WORK
\* in hand is in the table.
Split ==
  /\ handedOut \subseteq WorkId
  /\ \A w \in handedOut : Taken(w)
  /\ \A w \in WorkId \ handedOut : Owned(w)
  /\ \A s \in Assignment : owner[s] \notin handedOut

RecInv ==
  /\ RCore /\ GraphInv /\ Split
  /\ saved # None => SavedInv /\ Past
  /\ restarts \in 0 .. MaxRestarts

-----------------------------------------------------------------------------
(* The checkpoint and the state.                                           *)

\* Names that do not depend on the state mean the same of both.
LEMMA SameNames ==
  /\ Saved!WorkId = WorkId /\ Saved!ArtId = ArtId /\ Saved!Key = Key /\ Saved!Age = Age
  /\ Saved!WorkStatus = WorkStatus /\ Saved!Requirement = Requirement
  /\ Saved!WorkRecord = WorkRecord /\ Saved!ArtRecord = ArtRecord /\ Saved!TaskRecord = TaskRecord
  /\ Saved!Edge = Edge /\ 0 \in Saved!Time
  /\ Saved!NoWork = NoWork /\ Saved!NoArtifact = NoArtifact
  /\ \A E, x, y : Saved!Feeds(E, x, y) <=> Feeds(E, x, y)
<1>1. Saved!WorkId = WorkId /\ Saved!ArtId = ArtId /\ Saved!Key = Key /\ Saved!Age = Age
  BY DEF WorkId, Saved!WorkId, ArtId, Saved!ArtId, Key, Saved!Key, Age, Saved!Age
<1>2. Saved!WorkStatus = WorkStatus /\ Saved!ArtifactState = ArtifactState /\ Saved!TaskStatus = TaskStatus
  BY DEF WorkStatus, Saved!WorkStatus, ArtifactState, Saved!ArtifactState, TaskStatus, Saved!TaskStatus
<1>3. Saved!Requirement = Requirement
  BY <1>1 DEF Requirement, Saved!Requirement
<1>4. Saved!WorkRecord = WorkRecord /\ Saved!ArtRecord = ArtRecord /\ Saved!TaskRecord = TaskRecord
  BY <1>1, <1>2, <1>3 DEF WorkRecord, Saved!WorkRecord, ArtRecord, Saved!ArtRecord, TaskRecord, Saved!TaskRecord
<1>5. Saved!Edge = Edge /\ 0 \in Saved!Time
  BY <1>1, BoundAssumption DEF Edge, Saved!Edge, Saved!Time
<1>6. Saved!NoWork = NoWork /\ Saved!NoArtifact = NoArtifact
  BY DEF NoWork, Saved!NoWork, NoArtifact, Saved!NoArtifact
<1>7. \A E, x, y : Saved!Feeds(E, x, y) <=> Feeds(E, x, y)
  BY <1>1 DEF Feeds, Saved!Feeds
<1>8. QED
  BY <1>1, <1>2, <1>3, <1>4, <1>5, <1>6, <1>7

\* In a state whose record is the saved one, the two invariants are the same.
LEMMA SameRecord == ASSUME saved = Exported, now \in Time PROVE SavedInv <=> GraphInv
<1>0. /\ saved.work = work /\ saved.status = status /\ saved.asg = asg /\ saved.outcome = outcome
      /\ saved.art = art /\ saved.edges = edges /\ saved.active = active /\ saved.history = history
      /\ saved.task = task /\ saved.nextWork = nextWork /\ saved.nextArt = nextArt
  BY DEF Exported
<1> USE <1>0, SameNames
<1>1. Saved!TInv <=> TInv
  <2>1. Saved!TypeOK <=> TypeOK
    BY DEF TypeOK, Saved!TypeOK
  <2>2. Saved!Numbered <=> Numbered
    BY DEF Numbered, Saved!Numbered
  <2>3. QED
    BY <2>1, <2>2 DEF TInv, Saved!TInv
<1>2. Saved!CInv <=> CInv
  <2>1. Saved!IndexSound <=> IndexSound
    BY DEF IndexSound, Saved!IndexSound
  <2>2. (Saved!Mirrored <=> Mirrored) /\ (Saved!Unmade <=> Unmade)
    BY DEF Mirrored, Saved!Mirrored, Unmade, Saved!Unmade
  <2>3. QED
    BY <1>1, <2>1, <2>2 DEF CInv, Saved!CInv
<1>3. Saved!Shape <=> Shape
  <2>1. \A v : (Saved!Made(v) <=> Made(v)) /\ (Saved!Known(v) <=> Known(v)) /\ Saved!Asks(v) = Asks(v)
    BY DEF Made, Saved!Made, Known, Saved!Known, Asks, Saved!Asks
  <2>2. (Saved!Blank <=> Blank) /\ (Saved!Grounded <=> Grounded) /\ (Saved!Listed <=> Listed)
    BY <2>1 DEF Blank, Saved!Blank, Grounded, Saved!Grounded, Listed, Saved!Listed
  <2>3. (Saved!Manned <=> Manned) /\ (Saved!Carried <=> Carried) /\ (Saved!Stopped <=> Stopped)
    BY <2>1 DEF Manned, Saved!Manned, Carried, Saved!Carried, Stopped, Saved!Stopped
  <2>4. QED
    BY <2>2, <2>3 DEF Shape, Saved!Shape
<1>4. /\ Saved!EdgesMirrorNodes <=> EdgesMirrorNodes
      /\ Saved!Acyclic <=> Acyclic
      /\ Saved!Layered <=> Layered
  BY DEF EdgesMirrorNodes, Saved!EdgesMirrorNodes, Acyclic, Saved!Acyclic, Layered, Saved!Layered
<1>5. /\ Saved!Enlisted <=> Enlisted
      /\ Saved!OneKeyed <=> OneKeyed
      /\ Saved!OneOutput <=> OneOutput
      /\ Saved!TaskScopePrivate <=> TaskScopePrivate
      /\ Saved!ContinuationInherits <=> ContinuationInherits
  BY DEF Enlisted, Saved!Enlisted, OneKeyed, Saved!OneKeyed, OneOutput, Saved!OneOutput, TaskScopePrivate, Saved!TaskScopePrivate,
         ContinuationInherits, Saved!ContinuationInherits
<1>6. Saved!SInv <=> SInv
  BY <1>2, <1>3, <1>4, <1>5 DEF SInv, Saved!SInv
<1>7. Saved!FInv <=> FInv
  BY <1>2 DEF FInv, Saved!FInv, FinishedProducerSettles, Saved!FinishedProducerSettles
<1>8. (Saved!ControlOrder <=> ControlOrder) /\ (Saved!TaskOutcome <=> TaskOutcome)
  BY DEF ControlOrder, Saved!ControlOrder, TaskOutcome, Saved!TaskOutcome
<1>9. QED
  BY <1>6, <1>7, <1>8 DEF SavedInv, GraphInv

\* The checkpoint keeps its meaning as long as it is not overwritten.
LEMMA SavedKept == ASSUME saved' = saved PROVE SavedInv' <=> SavedInv
<1>1. Saved!TInv' <=> Saved!TInv
  BY DEF Saved!TInv, Saved!TypeOK, Saved!Numbered
<1>2. Saved!CInv' <=> Saved!CInv
  <2>1. Saved!IndexSound' <=> Saved!IndexSound
    BY DEF Saved!IndexSound
  <2>2. (Saved!Mirrored' <=> Saved!Mirrored) /\ (Saved!Unmade' <=> Saved!Unmade)
    BY DEF Saved!Mirrored, Saved!Unmade
  <2>3. QED
    BY <1>1, <2>1, <2>2 DEF Saved!CInv
<1>3. Saved!Shape' <=> Saved!Shape
  <2>1. /\ Saved!Blank' <=> Saved!Blank
        /\ Saved!Grounded' <=> Saved!Grounded
        /\ Saved!Listed' <=> Saved!Listed
    BY DEF Saved!Blank, Saved!Grounded, Saved!Listed, Saved!Made, Saved!Known, Saved!Asks
  <2>2. /\ Saved!Manned' <=> Saved!Manned
        /\ Saved!Carried' <=> Saved!Carried
        /\ Saved!Stopped' <=> Saved!Stopped
    BY DEF Saved!Manned, Saved!Carried, Saved!Stopped, Saved!Made
  <2>3. QED
    BY <2>1, <2>2 DEF Saved!Shape
<1>4. /\ Saved!EdgesMirrorNodes' <=> Saved!EdgesMirrorNodes
      /\ Saved!Acyclic' <=> Saved!Acyclic
      /\ Saved!Layered' <=> Saved!Layered
  BY DEF Saved!EdgesMirrorNodes, Saved!Acyclic, Saved!Layered
<1>5. /\ Saved!Enlisted' <=> Saved!Enlisted
      /\ Saved!OneKeyed' <=> Saved!OneKeyed
      /\ Saved!OneOutput' <=> Saved!OneOutput
      /\ Saved!TaskScopePrivate' <=> Saved!TaskScopePrivate
      /\ Saved!ContinuationInherits' <=> Saved!ContinuationInherits
  BY DEF Saved!Enlisted, Saved!OneKeyed, Saved!OneOutput, Saved!TaskScopePrivate, Saved!ContinuationInherits
<1>6. Saved!SInv' <=> Saved!SInv
  BY <1>2, <1>3, <1>4, <1>5 DEF Saved!SInv
<1>7. Saved!FInv' <=> Saved!FInv
  BY <1>2 DEF Saved!FInv, Saved!FinishedProducerSettles
<1>8. (Saved!ControlOrder' <=> Saved!ControlOrder) /\ (Saved!TaskOutcome' <=> Saved!TaskOutcome)
  BY DEF Saved!ControlOrder, Saved!TaskOutcome
<1>9. QED
  BY <1>6, <1>7, <1>8 DEF SavedInv

-----------------------------------------------------------------------------
(* Every step.                                                             *)

LEMMA GraphFresh == Fresh => GraphInv
BY SafeFresh, SInvFresh, FinishedFresh DEF GraphInv, SafeInv

LEMMA GraphNext == ASSUME GraphInv, [Next]_vars PROVE GraphInv'
<1>1. SafeInv'
  BY SafeNext DEF GraphInv, SafeInv, FInv, CInv
<1>2. SInv' /\ FInv'
  BY SInvNext, FinishedStep DEF GraphInv
<1>3. QED
  BY <1>1, <1>2 DEF GraphInv, SafeInv

LEMMA RecInit == CInit => RecInv
<1> SUFFICES ASSUME CInit PROVE RecInv
  OBVIOUS
<1>1. RInv /\ GraphInv
  BY RInvInit, InitIsFresh, GraphFresh DEF CInit, RInit
<1>2. QED
  BY <1>1, RestartAssumption DEF RecInv, RInv, Split, CInit

\* The steps of the process, whatever it restored
LEMMA ProcessKeeps ==
  ASSUME RecInv, [RNext]_rvars, UNCHANGED <<saved, restarts, handedOut>>
  PROVE  RecInv'
<1>1. RCore' /\ Handover /\ [Next]_vars
  BY RCoreNext DEF RecInv
<1>2. GraphInv'
  BY <1>1, GraphNext DEF RecInv
<1>3. Split'
  <2>1. handedOut' \subseteq WorkId /\ \A w \in handedOut' : Taken(w)'
    BY <1>1 DEF RecInv, Split, Handover, Taken
  <2>2. \A w \in WorkId \ handedOut' : Owned(w)'
    BY <1>1 DEF RecInv, Split, Handover, Owned, Live
  <2>3. \A s \in Assignment : owner'[s] \notin handedOut'
    <3>1. None \notin WorkId
      BY NoneAssumption DEF WorkId
    <3>2. \A s \in Assignment : owner'[s] # None => owner'[s] = owner[s] \/ ~Taken(owner'[s])
      BY <1>1 DEF Handover
    <3>3. handedOut' = handedOut /\ handedOut \subseteq WorkId
      BY DEF RecInv, Split
    <3>4. QED
      BY <3>1, <3>2, <3>3 DEF RecInv, Split
  <2>4. QED
    BY <2>1, <2>2, <2>3 DEF Split
<1>4. saved' # None => SavedInv' /\ Past'
  <2>1. nextAsg \in Nat /\ nextAsg' \in {nextAsg, nextAsg + 1}
    BY <1>1, ThreadAssumption DEF RecInv, RCore, RTypes, Handover
  <2>2. ASSUME saved # None, NEW w \in WorkId, saved.asg[w] # None PROVE saved.asg[w] \in Nat
    <3>1. saved.asg \in [WorkId -> Assignment \cup {None}]
      BY <2>2, SameNames DEF RecInv, SavedInv, Saved!SInv, Saved!CInv, Saved!TInv, Saved!TypeOK
    <3>2. QED
      BY <2>2, <3>1, ThreadAssumption
  <2>3. saved # None => Past'
    BY <2>1, <2>2 DEF RecInv, Past
  <2>4. QED
    BY <2>3, SavedKept DEF RecInv
<1>5. QED
  BY <1>1, <1>2, <1>3, <1>4 DEF RecInv

LEMMA ExportKeeps == ASSUME RecInv, ExportCheckpoint PROVE RecInv'
<1>1. /\ saved' = Exported /\ UNCHANGED <<restarts, handedOut>>
      /\ UNCHANGED rvars /\ UNCHANGED vars /\ UNCHANGED <<owner, nextAsg>>
  BY DEF ExportCheckpoint, rvars, scheduler
<1>2. RCore' /\ Handover
  BY <1>1, RCoreNext DEF RecInv
<1>3. GraphInv'
  BY <1>1, GraphNext DEF RecInv
<1>4. saved' = Exported' /\ now' \in Time
  BY <1>1, <1>2 DEF Exported, vars, graph, RCore, TInv, TypeOK
<1>5. (saved = Exported /\ now \in Time => (SavedInv <=> GraphInv))'
  BY SameRecord, PTL
<1>6. SavedInv'
  BY <1>3, <1>4, <1>5
<1>7. Past'
  BY <1>1, <1>2 DEF RCore, Counted, Past, Exported, vars, graph
<1>8. Split'
  BY <1>1 DEF RecInv, Split, Taken, Owned, Live, vars, graph
<1>9. QED
  BY <1>1, <1>2, <1>3, <1>6, <1>7, <1>8 DEF RecInv

\* The process that starts after a crash is as empty as the first one.
LEMMA CrashKeeps == ASSUME RecInv, Crash PROVE RecInv'
<1> USE NoneAssumption
<1>1. /\ restarts < MaxRestarts /\ restarts' = restarts + 1
      /\ Load(NewRecord) /\ owner' = [s \in Assignment |-> None] /\ leases' = {}
      /\ pc' = [th \in Thread |-> "idle"] /\ mine' = [th \in Worker |-> None]
      /\ candidates' = {} /\ lock' = None /\ handedOut' = {}
      /\ UNCHANGED <<now, nextAsg, saved>>
  BY DEF Crash, AssignmentsLost
<1>2. now \in Time /\ nextAsg \in 1 .. MaxAsg + 1
  BY DEF RecInv, RCore, TInv, TypeOK, RTypes
<1>3. Fresh'
  BY <1>1, <1>2 DEF Load, NewRecord, Fresh
<1>4. (Fresh => GraphInv)'
  BY GraphFresh, PTL
<1>5. GraphInv' /\ TInv'
  BY <1>3, <1>4 DEF GraphInv, FInv, CInv
<1>6. \A w \in WorkId : status'[w] = "ABSENT" /\ asg'[w] = None
  BY <1>3 DEF Fresh
<1>7. RTypes'
  BY <1>1, <1>2 DEF RTypes
<1>8. Leasing'
  <2>1. \A r \in Resource : Leased(r)' = {} /\ Capacity[r] \in Nat
    BY <1>1, ResourceAssumption DEF Leased
  <2>2. \A r \in Resource : Cardinality(Leased(r)') <= Capacity[r]
    BY <2>1, FS_EmptySet
  <2>3. QED
    BY <1>1, <2>2 DEF Leasing
<1>9. Staffed' /\ Tabled' /\ Counted' /\ \A w \in WorkId : Owned(w)'
  BY <1>1, <1>6 DEF Staffed, Tabled, Counted, Owned, Live
<1>10. Executing'
  BY <1>1 DEF Executing, Thread
<1>11. Split'
  BY <1>1, <1>9 DEF Split
<1>12. saved' # None => SavedInv' /\ Past'
  BY <1>1, SavedKept DEF RecInv, Past
<1>13. restarts' \in 0 .. MaxRestarts
  BY <1>1, RestartAssumption DEF RecInv
<1>14. QED
  BY <1>5, <1>7, <1>8, <1>9, <1>10, <1>11, <1>12, <1>13 DEF RecInv, RCore

\* A record that validates has the index that restore_checkpoint computes again, so
\* what is loaded is what was saved.
LEMMA RestoresSaved ==
  ASSUME Past, RestoreCheckpoint
  PROVE  saved' = Exported' /\ saved' = saved
<1>1. /\ ValidRecord(saved) /\ saved' = saved
      /\ Load([saved EXCEPT !.active = RebuiltActive(saved.art), !.history = RebuiltHistory(saved.art)])
  BY DEF RestoreCheckpoint, Decoded
<1>2. saved.history = RebuiltHistory(saved.art) /\ saved.active = RebuiltActive(saved.art)
  BY <1>1 DEF ValidRecord
<1>3. /\ work' = saved.work /\ status' = saved.status /\ asg' = saved.asg /\ outcome' = saved.outcome
      /\ art' = saved.art /\ edges' = saved.edges /\ task' = saved.task
      /\ nextWork' = saved.nextWork /\ nextArt' = saved.nextArt
      /\ active' = saved.active /\ history' = saved.history
  <2> DEFINE g == [saved EXCEPT !.active = RebuiltActive(saved.art), !.history = RebuiltHistory(saved.art)]
  <2>1. /\ g.work = saved.work /\ g.status = saved.status /\ g.asg = saved.asg /\ g.outcome = saved.outcome
        /\ g.art = saved.art /\ g.edges = saved.edges /\ g.task = saved.task
        /\ g.nextWork = saved.nextWork /\ g.nextArt = saved.nextArt
        /\ g.active = RebuiltActive(saved.art) /\ g.history = RebuiltHistory(saved.art)
    BY DEF Past
  <2> HIDE DEF g
  <2>2. Load(g)
    BY <1>1 DEF g
  <2>3. QED
    BY <1>2, <2>1, <2>2 DEF Load
<1>4. QED
  BY <1>1, <1>3 DEF Past, Exported

\* Nobody works on a graph that is still empty, and the restored one belongs to no
\* one: whatever it has in hand was handed out by an earlier process.
LEMMA RestoreKeeps == ASSUME RecInv, RestoreCheckpoint PROVE RecInv'
<1> USE NoneAssumption
<1>1. /\ saved # None /\ Exported = NewRecord /\ handedOut' = HandedOut(saved)
      /\ UNCHANGED <<now, pc, mine, candidates, lock, owner, leases, nextAsg, saved, restarts>>
  BY DEF RestoreCheckpoint, scheduler
<1>2. SavedInv /\ Past
  BY <1>1 DEF RecInv
<1>3. saved' = Exported' /\ now' \in Time
  BY <1>1, <1>2, RestoresSaved DEF RecInv, RCore, TInv, TypeOK
<1>4. GraphInv'
  <2>1. (saved = Exported /\ now \in Time => (SavedInv <=> GraphInv))'
    BY SameRecord, PTL
  <2>2. QED
    BY <1>1, <1>2, <1>3, <2>1, SavedKept
<1>5. status' = saved.status /\ asg' = saved.asg
  BY <1>1, <1>3 DEF Exported
<1>6. TInv' /\ Staffed'
  BY <1>4 DEF GraphInv, SInv, CInv, Shape, Manned, Made, Staffed
<1>7. \A w \in WorkId : status[w] = "ABSENT"
  BY <1>1 DEF Exported, NewRecord
<1>8. \A s \in Assignment : owner[s] = None
  BY <1>7 DEF RecInv, RCore, RTypes, Tabled, Taken
<1>9. RTypes'
  BY <1>1 DEF RecInv, RCore, RTypes
<1>10. Tabled'
  BY <1>1, <1>8 DEF Tabled
<1>11. Counted'
  BY <1>1, <1>2, <1>5, <1>8 DEF Counted, Past
<1>12. Leasing'
  BY <1>1, <1>8 DEF RecInv, RCore, Leasing, Leased
<1>13. Executing'
  BY <1>1, <1>8 DEF RecInv, RCore, Executing
<1>14. Split'
  <2>1. status' \in [WorkId -> WorkStatus]
    BY <1>6 DEF TInv, TypeOK
  <2>2. handedOut' = {w \in WorkId : status'[w] \in {"ASSIGNED", "RUNNING", "DONE", "FAILED"}}
    BY <1>1, <1>5 DEF HandedOut
  <2>3. \A w \in handedOut' : w \in WorkId /\ Taken(w)'
    BY <2>2 DEF Taken, Waiting
  <2>4. \A w \in WorkId \ handedOut' : Owned(w)'
    BY <2>2 DEF Owned, Live
  <2>5. \A s \in Assignment : owner'[s] \notin handedOut'
    BY <1>1, <1>8, <2>3 DEF WorkId
  <2>6. QED
    BY <2>3, <2>4, <2>5 DEF Split
<1>15. SavedInv' /\ Past'
  BY <1>1, <1>2, SavedKept DEF Past
<1>16. QED
  BY <1>1, <1>4, <1>6, <1>9, <1>10, <1>11, <1>12, <1>13, <1>14, <1>15 DEF RecInv, RCore

LEMMA RecNext == ASSUME RecInv, [CNext]_cvars PROVE RecInv'
<1>1. CASE RNext /\ UNCHANGED <<saved, restarts, handedOut>>
  BY <1>1, ProcessKeeps
<1>2. CASE UNCHANGED cvars
  BY <1>2, ProcessKeeps DEF cvars
<1>3. QED
  BY <1>1, <1>2, ExportKeeps, CrashKeeps, RestoreKeeps DEF CNext

LEMMA RecInvariant == CSpec => []RecInv
<1>1. RecInv /\ [CNext]_cvars => RecInv'
  BY RecNext
<1>2. QED
  BY RecInit, <1>1, PTL DEF CSpec

-----------------------------------------------------------------------------
(* What follows, and the theorems.                                         *)

\* The state and the last checkpoint have their types, across crashes and restores.
THEOREM CTypeCorrect == CSpec => []CTypeOK
<1>1. RecInv => CTypeOK
  <2> SUFFICES ASSUME RecInv PROVE CTypeOK
    OBVIOUS
  <2>1. RTypeOK
    BY DEF RecInv, RCore, TInv, RTypes, RTypeOK
  <2>2. saved # None => Saved!TypeOK
    BY DEF RecInv, SavedInv, Saved!SInv, Saved!CInv, Saved!TInv
  <2>3. saved # None =>
          /\ saved.status \in [WorkId -> WorkStatus] /\ saved.asg \in [WorkId -> Assignment \cup {None}]
          /\ saved.active \in [Key -> ArtId \cup {None}] /\ saved.art \in [ArtId -> ArtRecord]
    BY <2>2, SameNames DEF Saved!TypeOK
  <2>4. QED
    BY <2>1, <2>3 DEF CTypeOK, RecInv, Split
<1>2. QED
  BY <1>1, RecInvariant, PTL

\* However often the process crashes and restores, its scheduler and its graph agree
\* on the WORK it handed out, and no live assignment refers to older WORK.
THEOREM RestartAgrees == CSpec => []RestartAgreement
<1>1. RecInv => RestartAgreement
  BY DEF RecInv, RCore, Split, Owned, Tabled, RestartAgreement
<1>2. QED
  BY <1>1, RecInvariant, PTL

\* No agent executes again what the checkpoint has as handed out.
THEOREM NothingRepeated == CSpec => []NotRepeated
<1>1. RecInv => NotRepeated
  <2> SUFFICES ASSUME RecInv, NEW th \in Worker, pc[th] = "execute" PROVE Current(th) \notin handedOut
    BY DEF NotRepeated
  <2>1. mine[th] \in Assignment /\ owner[mine[th]] = Current(th)
    BY CurrentWork DEF RecInv
  <2>2. QED
    BY <2>1 DEF RecInv, Split
<1>2. QED
  BY <1>1, RecInvariant, PTL

\* Each executing thread that needs a resource has a lease of its own.
LEMMA ExecutionLeased == ASSUME RCore PROVE ExecutionExclusion
<1> SUFFICES ASSUME NEW r \in Resource
             PROVE  Cardinality({th \in Worker : pc[th] = "execute" /\ r \in NeedsOf(Current(th), work[Current(th)].agent)})
                      <= Capacity[r]
  BY DEF ExecutionExclusion
<1> USE NoneAssumption
<1> DEFINE users == {th \in Worker : pc[th] = "execute" /\ r \in NeedsOf(Current(th), work[Current(th)].agent)}
           lease == [th \in users |-> <<mine[th], r>>]
<1>1. ASSUME NEW th \in users PROVE lease[th] \in Leased(r)
  <2>1. /\ mine[th] \in Assignment /\ owner[mine[th]] = Current(th) /\ Current(th) \in WorkId
        /\ r \in NeedsOf(Current(th), work[Current(th)].agent)
    BY CurrentWork
  <2>2. <<mine[th], r>> \in leases
    BY <2>1 DEF RCore, Leasing, WorkId
  <2>3. QED
    BY <2>2 DEF Leased
<1>2. \A th, other \in users : lease[th] = lease[other] => th = other
  BY DEF RCore, Executing
<1>3. lease \in Injection(users, Leased(r))
  BY <1>1, <1>2 DEF Injection, IsInjective
<1>4. IsFiniteSet(Leased(r)) /\ Cardinality(Leased(r)) <= Capacity[r] /\ Capacity[r] \in Nat
  BY LeasedFinite, ResourceAssumption DEF RCore, Leasing
<1> HIDE DEF users, lease
<1>5. IsFiniteSet(users) /\ Cardinality(users) <= Cardinality(Leased(r))
  BY <1>3, <1>4, FS_Injection
<1>6. Cardinality(users) \in Nat /\ Cardinality(Leased(r)) \in Nat
  BY <1>4, <1>5, FS_CardinalityType
<1>7. QED
  BY <1>4, <1>5, <1>6 DEF users

\* Threads that execute at the same time never overload a resource, although WORK
\* restored as RUNNING holds none.
THEOREM ExecutionExclusive == CSpec => []ExecutionExclusion
<1>1. RecInv => ExecutionExclusion
  BY ExecutionLeased DEF RecInv
<1>2. QED
  BY <1>1, RecInvariant, PTL

\* What is proved of a steward that is never interrupted holds of one that crashes
\* and restores checkpoints: its record always validates, so no export and no later
\* restore raises, and the graph stays acyclic, mirrored, in order and indexed.
THEOREM GraphOutlives ==
  CSpec => [](/\ RecordValid /\ EdgesMirrorNodes /\ Acyclic /\ IndexSound
              /\ ControlOrder /\ TaskOutcome /\ FinishedProducerSettles
              /\ ContinuationInherits /\ TaskScopePrivate /\ OneOutput)
<1>1. RecInv => /\ RecordValid /\ EdgesMirrorNodes /\ Acyclic /\ IndexSound
                /\ ControlOrder /\ TaskOutcome /\ FinishedProducerSettles
                /\ ContinuationInherits /\ TaskScopePrivate /\ OneOutput
  BY RecordsValid DEF RecInv, GraphInv, SInv, CInv, FInv
<1>2. QED
  BY <1>1, RecInvariant, PTL

\* Nor does a restart leak a lease, or let two threads execute one WORK.
THEOREM LeasesOutlive == CSpec => [](LeaseDiscipline /\ ExclusiveExecution)
<1>1. RecInv => LeaseDiscipline /\ ExclusiveExecution
  BY LeaseEquation, NoSharedWork DEF RecInv
<1>2. QED
  BY <1>1, RecInvariant, PTL

=============================================================================
