--------------------- MODULE GraphStewardStructureProofs ---------------------
(***************************************************************************)
(* Proofs about the shape of the execution graph: nodes and edges agree,   *)
(* there is no cycle, a continuation takes the place of its origin, WORK   *)
(* owes one artifact, and task-scoped artifacts stay with their task.      *)
(*                                                                         *)
(* Submission and resolution add nodes and edges (Adds), and every other   *)
(* operation but an expansion leaves the shape alone (ShapeKept).  Each    *)
(* part of the invariant is shown for these two effects, and each          *)
(* operation to have one.  GraphStewardExpansionProofs does the same for   *)
(* expansions and has the theorems.                                        *)
(***************************************************************************)
EXTENDS GraphStewardContractProofs

-----------------------------------------------------------------------------
(* The invariant.                                                          *)

Made(v) == status[v] # "ABSENT"
Known(a) == art[a].state # "ABSENT"

\* The artifacts WORK v requires
Asks(v) == {r.art : r \in work[v].inputs}

\* A node that was not created yet is empty.
Blank ==
  /\ \A v \in WorkId : ~Made(v) => work[v] = NoWork
  /\ \A a \in ArtId : ~Known(a) => art[a] = NoArtifact

\* A node refers to nodes that exist only.
Grounded ==
  /\ \A v \in WorkId : \A p \in work[v].preds : Made(p)
  /\ \A v \in WorkId : \A a \in Asks(v) : Known(a)
  /\ \A a \in ArtId : \A x \in art[a].consumers : Made(x)

\* A task refers to nodes that exist only.
Listed ==
  \A t \in Task : /\ \A v \in task[t].terminals \cup task[t].work : Made(v)
                  /\ \A a \in task[t].arts : Known(a)

Manned == \A v \in WorkId : Made(v) => work[v].agent \in Agent

Carried == \A v \in WorkId : status[v] \in {"ASSIGNED", "RUNNING"} => asg[v] # None

\* WORK that waits for control predecessors gives its artifacts to such WORK only,
\* and the index knows none of them: control never leads back to a provider.
Layered ==
  \A v \in WorkId : work[v].preds # {} =>
    \A a \in work[v].outs : art[a].key = None /\ \A x \in art[a].consumers : work[x].preds # {}

\* The terminal WORK of a task is done for it.
Enlisted == \A t \in Task : \A v \in task[t].terminals : t \in work[v].tasks

\* Of the artifacts of one WORK, the index knows one.
OneKeyed ==
  \A v \in WorkId : \A a, b \in work[v].outs : art[a].key # None /\ art[b].key # None => a = b

\* WORK that expanded is finished.
Stopped == \A w \in WorkId : outcome[w] = "checkpoint" => status[w] = "DONE"

Shape == Blank /\ Grounded /\ Listed /\ Manned /\ Carried /\ Stopped

SInv ==
  /\ CInv /\ Shape
  /\ EdgesMirrorNodes /\ Acyclic /\ Layered
  /\ Enlisted /\ OneKeyed /\ OneOutput /\ TaskScopePrivate
  /\ ContinuationInherits

-----------------------------------------------------------------------------
(* The three effects.                                                      *)

\* Artifacts keep their place in the graph, whatever becomes of them.
ArtsKept ==
  \A a \in ArtId :
    /\ Known(a)' <=> Known(a)
    /\ ~Known(a) => art'[a] = art[a]
    /\ art'[a].producer = art[a].producer /\ art'[a].consumers = art[a].consumers
    /\ art'[a].key = art[a].key /\ art'[a].tasks = art[a].tasks

\* Tasks keep what they refer to.
TasksKept ==
  \A t \in Task : /\ task'[t].terminals = task[t].terminals
                  /\ task'[t].work = task[t].work /\ task'[t].arts = task[t].arts

\* WORK is handed on and finishes, in the graph as it is.
ShapeKept ==
  /\ work' = work /\ edges' = edges /\ ArtsKept /\ TasksKept
  /\ \A v \in WorkId : /\ Made(v)' <=> Made(v)
                       /\ status'[v] \in {"ASSIGNED", "RUNNING"} => asg'[v] # None
                       /\ outcome'[v] = "checkpoint" => outcome[v] = "checkpoint" /\ status'[v] = "DONE"
                       /\ status[v] = "DONE" => status'[v] = "DONE"

\* A live artifact the index may give to task t
Shares(t, a) == a \in ArtId /\ Known(a) /\ art[a].key # None /\ art[a].key[2] \in {None, t}

\* The nodes ws and as are new.
AddsNodes(ws, as) ==
  /\ ws \subseteq WorkId /\ as \subseteq ArtId
  /\ \A v \in WorkId : /\ Made(v)' <=> Made(v) \/ v \in ws
                       /\ v \in ws => ~Made(v) /\ work'[v].agent \in Agent
                       /\ v \notin ws => work'[v].agent = work[v].agent
                       /\ ~Made(v)' => work'[v] = work[v]
  /\ \A a \in ArtId : /\ Known(a)' <=> Known(a) \/ a \in as
                      /\ a \in as => ~Known(a)
                      /\ a \notin as => art'[a].producer = art[a].producer /\ art'[a].key = art[a].key
                      /\ ~Known(a)' => art'[a] = art[a]

\* The edges E are new; control leads from new WORK to new WORK, and to none that
\* produces anything.
AddsEdges(t, ws, as, E) ==
  /\ edges' = edges \cup E
  /\ \A p, v \in WorkId : <<"PRECEDES", p, v>> \in E =>
       p \in ws /\ v \in ws /\ \A a \in ArtId : <<"PRODUCES", v, a>> \notin E
  /\ \A v \in WorkId, a \in ArtId : <<"PRODUCES", v, a>> \in E =>
       (v \in ws /\ a \in as) \/ <<"PRODUCES", v, a>> \in edges
  /\ \A v \in WorkId, a \in ArtId : <<"CONSUMES", a, v>> \in E =>
       Made(v)' /\ (a \in as \/ Shares(t, a))

\* The nodes say the same of them.
AddsMentions(E) ==
  \A v \in WorkId :
    /\ work'[v].preds = work[v].preds \cup {p \in WorkId : <<"PRECEDES", p, v>> \in E}
    /\ Asks(v)' = Asks(v) \cup {a \in ArtId : <<"CONSUMES", a, v>> \in E}
    /\ work[v].inputs \subseteq work'[v].inputs
    /\ \A a \in ArtId : /\ a \in work'[v].outs <=> a \in work[v].outs \/ <<"PRODUCES", v, a>> \in E
                        /\ v \in art'[a].consumers <=> v \in art[a].consumers \/ <<"CONSUMES", a, v>> \in E

\* WORK that task t may come to use: it is new, or produces what t shares.
Serves(t, ws, v) == v \in ws \/ \E a \in ArtId : Shares(t, a) /\ art[a].producer = v

\* The new nodes are of task t, which also joins some of the old ones.
AddsTasks(t, ws, as, E) ==
  /\ \A v \in WorkId : IF v \in ws THEN work'[v].tasks = {t}
                       ELSE work'[v].tasks = work[v].tasks
                            \/ (work'[v].tasks = work[v].tasks \cup {t} /\ Serves(t, ws, v))
  /\ \A a \in ArtId : IF a \in as THEN art'[a].tasks = {t} /\ (art'[a].key # None => art'[a].key[2] \in {None, t})
                      ELSE art'[a].tasks = art[a].tasks \/ (art'[a].tasks = art[a].tasks \cup {t} /\ Shares(t, a))
  /\ \A v \in WorkId : \A a, b \in as : <<"PRODUCES", v, a>> \in E /\ <<"PRODUCES", v, b>> \in E => a = b
  /\ \A u \in Task \ {t} : /\ task'[u].terminals = task[u].terminals
                           /\ task'[u].work = task[u].work /\ task'[u].arts = task[u].arts
  /\ \A v \in task'[t].terminals : v \in task[t].terminals \/ (t \in work'[v].tasks /\ Serves(t, ws, v))
  /\ \A v \in task'[t].terminals \cup task'[t].work : Made(v)'
  /\ \A a \in task'[t].arts : Known(a)'

\* WORK in hand stays in hand, and finished WORK finished.
HandsKept ==
  /\ asg' = asg /\ outcome' = outcome
  /\ \A v \in WorkId : /\ status'[v] \in {"ASSIGNED", "RUNNING"} => status'[v] = status[v]
                       /\ status[v] = "DONE" => status'[v] = "DONE"

Adds(t, ws, as, E) ==
  /\ AddsNodes(ws, as) /\ AddsEdges(t, ws, as, E) /\ AddsMentions(E) /\ AddsTasks(t, ws, as, E)
  /\ HandsKept /\ IsAcyclic(edges')

-----------------------------------------------------------------------------
(* What additions keep.                                                    *)

LEMMA AddsShape ==
  ASSUME SInv, CInv', NEW t \in Task, NEW ws, NEW as, NEW E, Adds(t, ws, as, E)
  PROVE  Shape'
<1>1. /\ AddsNodes(ws, as) /\ AddsEdges(t, ws, as, E) /\ AddsMentions(E) /\ AddsTasks(t, ws, as, E)
      /\ HandsKept
  BY DEF Adds
<1>2. Shape
  BY DEF SInv
<1>3. Blank'
  BY <1>1, <1>2 DEF Shape, Blank, AddsNodes, Made, Known
<1>4. Grounded'
  <2>1. ASSUME NEW v \in WorkId, NEW q \in work'[v].preds PROVE Made(q)'
    <3>1. q \in WorkId
      BY <2>1 DEF CInv, TInv, TypeOK, WorkRecord
    <3>2. q \in work[v].preds \/ <<"PRECEDES", q, v>> \in E
      BY <1>1, <2>1 DEF AddsMentions
    <3>3. q \in work[v].preds => Made(q)
      BY <1>2 DEF Shape, Grounded
    <3>4. QED
      BY <1>1, <3>1, <3>2, <3>3 DEF AddsEdges, AddsNodes
  <2>2. ASSUME NEW v \in WorkId, NEW a \in Asks(v)' PROVE Known(a)'
    <3>1. a \in Asks(v) \/ (a \in ArtId /\ <<"CONSUMES", a, v>> \in E)
      BY <1>1, <2>2 DEF AddsMentions
    <3>2. a \in Asks(v) => a \in ArtId /\ Known(a)
      BY <1>2 DEF Shape, Grounded, Asks, SInv, CInv, TInv, TypeOK, WorkRecord, Requirement
    <3>3. QED
      BY <1>1, <3>1, <3>2 DEF AddsEdges, AddsNodes, Shares
  <2>3. ASSUME NEW a \in ArtId, NEW x \in art'[a].consumers PROVE Made(x)'
    <3>1. x \in WorkId
      BY <2>3 DEF CInv, TInv, TypeOK, ArtRecord
    <3>2. x \in art[a].consumers \/ <<"CONSUMES", a, x>> \in E
      BY <1>1, <2>3, <3>1 DEF AddsMentions
    <3>3. QED
      BY <1>1, <1>2, <3>1, <3>2 DEF Shape, Grounded, AddsNodes, AddsEdges
  <2>4. QED
    BY <2>1, <2>2, <2>3 DEF Grounded
<1>5. Listed'
  <2>1. ASSUME NEW u \in Task
        PROVE  /\ \A v \in task'[u].terminals \cup task'[u].work : Made(v)'
               /\ \A a \in task'[u].arts : Known(a)'
    <3>1. CASE u = t
      BY <1>1, <3>1 DEF AddsTasks
    <3>2. CASE u # t
      <4>1. /\ task'[u].terminals = task[u].terminals /\ task'[u].work = task[u].work
            /\ task'[u].arts = task[u].arts
        BY <1>1, <3>2 DEF AddsTasks
      <4>2. task[u].terminals \cup task[u].work \subseteq WorkId /\ task[u].arts \subseteq ArtId
        BY DEF SInv, CInv, TInv, TypeOK, TaskRecord
      <4>3. QED
        BY <1>1, <1>2, <4>1, <4>2 DEF Shape, Listed, AddsNodes
    <3>3. QED
      BY <3>1, <3>2
  <2>2. QED
    BY <2>1 DEF Listed
<1>6. Manned'
  BY <1>1, <1>2 DEF Shape, Manned, AddsNodes
<1>7. Carried' /\ Stopped'
  BY <1>1, <1>2 DEF Shape, Carried, Stopped, HandsKept
<1>8. QED
  BY <1>3, <1>4, <1>5, <1>6, <1>7 DEF Shape

LEMMA AddsMirror ==
  ASSUME SInv, CInv', NEW t, NEW ws, NEW as, NEW E, Adds(t, ws, as, E)
  PROVE  EdgesMirrorNodes'
<1>1. edges' = edges \cup E /\ AddsMentions(E)
  BY DEF Adds, AddsEdges
<1>2. EdgesMirrorNodes
  BY DEF SInv
<1>3. \A v \in WorkId : work'[v].preds = {q \in WorkId : <<"PRECEDES", q, v>> \in edges'}
  BY <1>1, <1>2 DEF AddsMentions, EdgesMirrorNodes
<1>4. \A v \in WorkId : work'[v].outs = {a \in ArtId : art'[a].producer = v}
  BY DEF CInv, Mirrored, TInv, TypeOK, WorkRecord
<1>5. \A v \in WorkId : Asks(v)' = {a \in ArtId : v \in art'[a].consumers}
  <2>1. \A v \in WorkId : Asks(v) = {a \in ArtId : v \in art[a].consumers}
    BY <1>2 DEF EdgesMirrorNodes, Asks
  <2>2. QED
    BY <1>1, <2>1 DEF AddsMentions
<1>6. \A v \in WorkId, a \in ArtId : a \in work'[v].outs <=> <<"PRODUCES", v, a>> \in edges'
  BY <1>1, <1>2 DEF AddsMentions, EdgesMirrorNodes
<1>7. \A v \in WorkId, a \in ArtId : v \in art'[a].consumers <=> <<"CONSUMES", a, v>> \in edges'
  BY <1>1, <1>2 DEF AddsMentions, EdgesMirrorNodes
<1>8. QED
  BY <1>3, <1>4, <1>5, <1>6, <1>7 DEF EdgesMirrorNodes, Asks

\* The two ways to say that nodes wait for each other
LEMMA NoCycle ==
  ASSUME NEW E
  PROVE  IsAcyclic(E) <=> \A S \in SUBSET WorkId : S # {} => \E v \in S : \A x \in S : ~Feeds(E, x, v)
<1> DEFINE feeds == {e \in WorkId \X WorkId : Feeds(E, e[1], e[2])}
<1>1. \A x, y \in WorkId : <<x, y>> \in feeds <=> Feeds(E, x, y)
  OBVIOUS
<1>2. IsAcyclic(E) <=> {S \in (SUBSET WorkId) \ {{}} : \A y \in S : \E x \in S : <<x, y>> \in feeds} = {}
  BY Zenon DEF IsAcyclic
<1> HIDE DEF feeds
<1>3. ({S \in (SUBSET WorkId) \ {{}} : \A y \in S : \E x \in S : <<x, y>> \in feeds} = {})
        <=> \A S \in SUBSET WorkId : S # {} => ~(\A y \in S : \E x \in S : <<x, y>> \in feeds)
  OBVIOUS
<1>4. ASSUME NEW S \in SUBSET WorkId
      PROVE  ~(\A y \in S : \E x \in S : <<x, y>> \in feeds) <=> \E v \in S : \A x \in S : ~Feeds(E, x, v)
  BY <1>1
<1>5. QED
  BY <1>2, <1>3, <1>4

LEMMA AddsAcyclic ==
  ASSUME NEW t, NEW ws, NEW as, NEW E, Adds(t, ws, as, E)
  PROVE  Acyclic'
BY NoCycle DEF Adds, Acyclic

\* What was known under no key is given to nobody, and what new WORK produces goes
\* to no control predecessor.
LEMMA AddsLayers ==
  ASSUME SInv, CInv', NEW t, NEW ws, NEW as, NEW E, Adds(t, ws, as, E)
  PROVE  Layered'
<1>1. AddsNodes(ws, as) /\ AddsEdges(t, ws, as, E) /\ AddsMentions(E)
  BY DEF Adds
<1>2. Layered /\ Blank
  BY DEF SInv, Shape
<1> SUFFICES ASSUME NEW v \in WorkId, work'[v].preds # {}, NEW a \in work'[v].outs
             PROVE  art'[a].key = None /\ \A x \in art'[a].consumers : work'[x].preds # {}
  BY DEF Layered
<1>3. a \in ArtId
  BY DEF CInv, TInv, TypeOK, WorkRecord
<1>4. v \notin ws
  <2> SUFFICES ASSUME v \in ws PROVE FALSE
    OBVIOUS
  <2>1. work[v] = NoWork
    BY <1>1, <1>2 DEF AddsNodes, Blank
  <2>2. work[v].preds = {} /\ work[v].outs = {}
    BY <2>1 DEF NoWork
  <2>3. <<"PRODUCES", v, a>> \in E /\ \E q \in WorkId : <<"PRECEDES", q, v>> \in E
    BY <1>1, <1>3, <2>2 DEF AddsMentions
  <2>4. QED
    BY <1>1, <1>3, <2>3 DEF AddsEdges
<1>5. work'[v].preds = work[v].preds /\ work[v].preds # {}
  <2>1. work'[v].preds = work[v].preds \cup {q \in WorkId : <<"PRECEDES", q, v>> \in E}
    BY <1>1 DEF AddsMentions
  <2>2. {q \in WorkId : <<"PRECEDES", q, v>> \in E} = {}
    BY <1>1, <1>4 DEF AddsEdges
  <2>3. QED
    BY <2>1, <2>2
<1>6. a \in work[v].outs
  <2>1. a \in work[v].outs \/ <<"PRODUCES", v, a>> \in E
    BY <1>1, <1>3 DEF AddsMentions
  <2>2. <<"PRODUCES", v, a>> \in edges => a \in work[v].outs
    BY <1>3 DEF SInv, EdgesMirrorNodes
  <2>3. QED
    BY <1>1, <1>3, <1>4, <2>1, <2>2 DEF AddsEdges
<1>7. art[a].key = None /\ \A x \in art[a].consumers : work[x].preds # {}
  BY <1>2, <1>5, <1>6 DEF Layered
<1>8. a \notin as
  <2>1. art[a].producer = v
    BY <1>3, <1>6 DEF SInv, CInv, Mirrored
  <2>2. Known(a)
    <3> SUFFICES ASSUME ~Known(a) PROVE FALSE
      OBVIOUS
    <3>1. art[a].producer = None
      BY <1>3 DEF SInv, CInv, Unmade, Known
    <3>2. QED
      BY <2>1, <3>1, NoneAssumption DEF WorkId
  <2>3. QED
    BY <1>1, <1>3, <2>2 DEF AddsNodes
<1>9. art'[a].key = None
  BY <1>1, <1>3, <1>7, <1>8 DEF AddsNodes
<1>10. ASSUME NEW x \in art'[a].consumers PROVE work'[x].preds # {}
  <2>1. x \in WorkId
    BY <1>3 DEF CInv, TInv, TypeOK, ArtRecord
  <2>2. x \in art[a].consumers
    BY <1>1, <1>3, <1>7, <1>8, <1>10, <2>1 DEF AddsMentions, AddsEdges, Shares
  <2>3. QED
    BY <1>1, <1>7, <2>1, <2>2 DEF AddsMentions
<1>11. QED
  BY <1>9, <1>10

\* What a WORK produces exists, and so does the WORK.
LEMMA OutsKnown ==
  ASSUME CInv, NEW v \in WorkId, NEW a \in ArtId, a \in work[v].outs
  PROVE  Made(v) /\ Known(a) /\ art[a].producer = v
<1>1. art[a].producer = v
  BY DEF CInv, Mirrored
<1>2. v # None
  BY NoneAssumption DEF WorkId
<1>3. Known(a)
  BY <1>1, <1>2 DEF CInv, Unmade, Known
<1>4. Made(v)
  BY <1>1, <1>3, BoundAssumption DEF CInv, TInv, TypeOK, Numbered, Known, Made, WorkId
<1>5. QED
  BY <1>1, <1>3, <1>4

\* New WORK produces new artifacts, and old WORK no more than it did.
AddsOuts(ws, as, E) ==
  \A v \in WorkId, a \in ArtId : a \in work'[v].outs =>
    \/ v \in ws /\ a \in as /\ <<"PRODUCES", v, a>> \in E
    \/ v \notin ws /\ a \notin as /\ a \in work[v].outs

LEMMA AddsOutsOnly ==
  ASSUME SInv, NEW t, NEW ws, NEW as, NEW E, Adds(t, ws, as, E)
  PROVE  AddsOuts(ws, as, E)
<1> SUFFICES ASSUME NEW v \in WorkId, NEW a \in ArtId, a \in work'[v].outs
             PROVE  \/ v \in ws /\ a \in as /\ <<"PRODUCES", v, a>> \in E
                    \/ v \notin ws /\ a \notin as /\ a \in work[v].outs
  BY DEF AddsOuts
<1>1. AddsNodes(ws, as) /\ AddsEdges(t, ws, as, E) /\ AddsMentions(E)
  BY DEF Adds
<1>2. CASE a \in work[v].outs
  <2>1. Made(v) /\ Known(a)
    BY <1>2, OutsKnown DEF SInv
  <2>2. QED
    BY <1>1, <1>2, <2>1 DEF AddsNodes
<1>3. CASE a \notin work[v].outs
  <2>1. <<"PRODUCES", v, a>> \in E
    BY <1>1, <1>3 DEF AddsMentions
  <2>2. <<"PRODUCES", v, a>> \notin edges
    BY <1>3 DEF SInv, EdgesMirrorNodes
  <2>3. QED
    BY <1>1, <2>1, <2>2 DEF AddsEdges
<1>4. QED
  BY <1>2, <1>3

LEMMA AddsOneKeyed ==
  ASSUME SInv, CInv', NEW t, NEW ws, NEW as, NEW E, Adds(t, ws, as, E)
  PROVE  OneKeyed'
<1>1. AddsNodes(ws, as) /\ AddsTasks(t, ws, as, E)
  BY DEF Adds
<1>0. AddsOuts(ws, as, E)
  BY AddsOutsOnly
<1> SUFFICES ASSUME NEW v \in WorkId, NEW a \in work'[v].outs, NEW b \in work'[v].outs,
                    art'[a].key # None, art'[b].key # None
             PROVE  a = b
  BY DEF OneKeyed
<1>2. a \in ArtId /\ b \in ArtId
  BY DEF CInv, TInv, TypeOK, WorkRecord
<1>3. CASE v \in ws
  BY <1>0, <1>1, <1>2, <1>3 DEF AddsTasks, AddsOuts
<1>4. CASE v \notin ws
  <2>1. a \notin as /\ b \notin as /\ a \in work[v].outs /\ b \in work[v].outs
    BY <1>0, <1>2, <1>4 DEF AddsOuts
  <2>2. art'[a].key = art[a].key /\ art'[b].key = art[b].key
    BY <1>1, <1>2, <2>1 DEF AddsNodes
  <2>3. QED
    BY <2>1, <2>2 DEF SInv, OneKeyed
<1>5. QED
  BY <1>3, <1>4

LEMMA AddsOneOutput ==
  ASSUME SInv, CInv', NEW t, NEW ws, NEW as, NEW E, Adds(t, ws, as, E)
  PROVE  OneOutput'
<1>1. AddsTasks(t, ws, as, E) /\ HandsKept
  BY DEF Adds
<1>2. AddsOuts(ws, as, E)
  BY AddsOutsOnly
<1> SUFFICES ASSUME NEW v \in WorkId, status'[v] # "DONE", NEW a \in work'[v].outs, NEW b \in work'[v].outs
             PROVE  a = b
  BY DEF OneOutput
<1>3. a \in ArtId /\ b \in ArtId
  BY DEF CInv, TInv, TypeOK, WorkRecord
<1>4. CASE v \in ws
  BY <1>1, <1>2, <1>3, <1>4 DEF AddsTasks, AddsOuts
<1>5. CASE v \notin ws
  <2>1. a \in work[v].outs /\ b \in work[v].outs
    BY <1>2, <1>3, <1>5 DEF AddsOuts
  <2>2. status[v] # "DONE"
    BY <1>1 DEF HandsKept
  <2>3. QED
    BY <2>1, <2>2 DEF SInv, OneOutput
<1>6. QED
  BY <1>4, <1>5

LEMMA AddsEnlisted ==
  ASSUME SInv, NEW t \in Task, NEW ws, NEW as, NEW E, Adds(t, ws, as, E)
  PROVE  Enlisted'
<1>1. AddsNodes(ws, as) /\ AddsTasks(t, ws, as, E)
  BY DEF Adds
<1>2. ASSUME NEW u \in Task, NEW v \in task[u].terminals
      PROVE  u \in work'[v].tasks
  <2>1. v \in WorkId /\ Made(v) /\ u \in work[v].tasks
    BY DEF SInv, Shape, Listed, Enlisted, CInv, TInv, TypeOK, TaskRecord
  <2>2. v \notin ws
    BY <1>1, <2>1 DEF AddsNodes
  <2>3. QED
    BY <1>1, <2>1, <2>2 DEF AddsTasks
<1>3. ASSUME NEW u \in Task, NEW v \in task'[u].terminals
      PROVE  u \in work'[v].tasks
  <2>1. CASE u = t
    BY <1>1, <1>2, <2>1 DEF AddsTasks
  <2>2. CASE u # t
    BY <1>1, <1>2, <2>2 DEF AddsTasks
  <2>3. QED
    BY <2>1, <2>2
<1>4. QED
  BY <1>3 DEF Enlisted

\* A task joins a task-scoped artifact, or its producer, only if it is the task
\* of the scope.
LEMMA AddsScope ==
  ASSUME SInv, CInv', NEW t, NEW ws, NEW as, NEW E, Adds(t, ws, as, E)
  PROVE  TaskScopePrivate'
<1>1. AddsNodes(ws, as) /\ AddsTasks(t, ws, as, E)
  BY DEF Adds
<1>0. AddsOuts(ws, as, E)
  BY AddsOutsOnly
<1> SUFFICES ASSUME NEW a \in ArtId, art'[a].key # None, art'[a].key[2] # None
             PROVE  /\ art'[a].tasks = {art'[a].key[2]}
                    /\ work'[art'[a].producer].tasks = art'[a].tasks
  BY DEF TaskScopePrivate
<1> DEFINE v == art'[a].producer
           u == art'[a].key[2]
<1>2. v \in WorkId
  BY DEF CInv, TInv, Numbered, Unmade
<1>3. a \in work'[v].outs
  BY <1>2 DEF CInv, Mirrored
<1>4. CASE v \in ws /\ a \in as
  BY <1>1, <1>2, <1>4 DEF AddsTasks
<1>5. CASE v \notin ws /\ a \notin as /\ a \in work[v].outs
  <2>1. art[a].producer = v /\ art[a].key = art'[a].key
    BY <1>1, <1>5 DEF AddsNodes
  <2>2. art[a].tasks = {u} /\ work[v].tasks = {u}
    BY <2>1 DEF SInv, TaskScopePrivate
  <2>3. art'[a].tasks = {u}
    BY <1>1, <1>5, <2>1, <2>2 DEF AddsTasks, Shares
  <2>4. work'[v].tasks = {u}
    <3>1. work'[v].tasks = work[v].tasks \/ (work'[v].tasks = work[v].tasks \cup {t} /\ Serves(t, ws, v))
      BY <1>1, <1>2, <1>5 DEF AddsTasks
    <3>2. Serves(t, ws, v) => t = u
      <4> SUFFICES ASSUME NEW b \in ArtId, Shares(t, b), art[b].producer = v PROVE t = u
        BY <1>5 DEF Serves
      <4>1. b \in work[v].outs
        BY <1>2 DEF SInv, CInv, Mirrored
      <4>2. b = a
        BY <1>2, <1>5, <2>1, <4>1 DEF SInv, OneKeyed, Shares
      <4>3. QED
        BY <2>1, <4>2 DEF Shares
    <3>3. QED
      BY <2>2, <3>1, <3>2
  <2>5. QED
    BY <2>3, <2>4
<1>6. QED
  BY <1>0, <1>2, <1>3, <1>4, <1>5 DEF AddsOuts

\* Additions put nothing behind a WORK that checkpointed, and no task finds it
\* but through an indexed artifact.
LEMMA AddsInherits ==
  ASSUME SInv, CInv', NEW t, NEW ws, NEW as, NEW E, Adds(t, ws, as, E)
  PROVE  ContinuationInherits'
<1>1. /\ AddsNodes(ws, as) /\ AddsEdges(t, ws, as, E) /\ AddsMentions(E) /\ AddsTasks(t, ws, as, E)
      /\ HandsKept
  BY DEF Adds
<1> SUFFICES ASSUME NEW w \in WorkId, outcome'[w] = "checkpoint"
             PROVE  /\ \E c \in WorkId : {v \in WorkId : w \in work'[v].preds} = {c}
                         /\ \E r \in work'[c].inputs : art'[r.art].producer = w /\ art'[r.art].key = None
                    /\ (\A a \in work'[w].outs : art'[a].key = None) => \A u \in Task : w \notin task'[u].terminals
  BY DEF ContinuationInherits
<1>2. outcome[w] = "checkpoint"
  BY <1>1 DEF HandsKept
<1>3. status[w] = "DONE"
  BY <1>2 DEF SInv, Shape, Stopped
<1>4. Made(w) /\ w \notin ws
  BY <1>1, <1>3 DEF Made, AddsNodes
<1>5. \A v \in WorkId : w \in work'[v].preds <=> w \in work[v].preds
  <2>1. \A v \in WorkId : <<"PRECEDES", w, v>> \notin E
    BY <1>1, <1>4 DEF AddsEdges
  <2>2. \A v \in WorkId : w \in work'[v].preds <=> w \in work[v].preds \/ <<"PRECEDES", w, v>> \in E
    BY <1>1 DEF AddsMentions
  <2>3. QED
    BY <2>1, <2>2
<1>6. PICK c \in WorkId : {v \in WorkId : w \in work[v].preds} = {c}
                          /\ \E r \in work[c].inputs : art[r.art].producer = w /\ art[r.art].key = None
  BY <1>2 DEF SInv, ContinuationInherits
<1>7. PICK r \in work[c].inputs : art[r.art].producer = w /\ art[r.art].key = None
  BY <1>6
<1>8. r.art \in ArtId /\ Known(r.art)
  <2>1. r.art \in ArtId
    BY <1>7 DEF SInv, CInv, TInv, TypeOK, WorkRecord, Requirement
  <2>2. r.art \in Asks(c)
    BY <1>7 DEF Asks
  <2>3. QED
    BY <2>1, <2>2 DEF SInv, Shape, Grounded
<1>9. r \in work'[c].inputs /\ art'[r.art].producer = w /\ art'[r.art].key = None
  BY <1>1, <1>7, <1>8 DEF AddsMentions, AddsNodes
<1>10. {v \in WorkId : w \in work'[v].preds} = {c}
  BY <1>5, <1>6
<1>11. ASSUME \A a \in work'[w].outs : art'[a].key = None, NEW u \in Task
       PROVE  w \notin task'[u].terminals
  <2>1. \A a \in work[w].outs : art[a].key = None
    <3> SUFFICES ASSUME NEW a \in work[w].outs PROVE art[a].key = None
      OBVIOUS
    <3>1. a \in ArtId
      BY DEF SInv, CInv, TInv, TypeOK, WorkRecord
    <3>2. a \in work'[w].outs
      BY <1>1, <3>1 DEF AddsMentions
    <3>3. a \notin as
      BY <1>1, <3>1, OutsKnown DEF SInv, AddsNodes
    <3>4. QED
      BY <1>1, <1>11, <3>1, <3>2, <3>3 DEF AddsNodes
  <2>2. w \notin task[u].terminals /\ ~Serves(t, ws, w)
    <3>1. w \notin task[u].terminals
      BY <1>2, <2>1 DEF SInv, ContinuationInherits
    <3>2. ~Serves(t, ws, w)
      BY <1>4, <2>1 DEF SInv, CInv, Mirrored, Serves, Shares
    <3>3. QED
      BY <3>1, <3>2
  <2>3. QED
    BY <1>1, <2>2 DEF AddsTasks
<1>12. QED
  BY <1>9, <1>10, <1>11

LEMMA AddsKeeps ==
  ASSUME SInv, CInv', NEW t \in Task, NEW ws, NEW as, NEW E, Adds(t, ws, as, E)
  PROVE  SInv'
BY AddsShape, AddsMirror, AddsAcyclic, AddsLayers, AddsEnlisted, AddsOneKeyed, AddsOneOutput, AddsScope,
   AddsInherits DEF SInv

-----------------------------------------------------------------------------
(* What every other operation but an expansion keeps.                      *)

LEMMA KeptShape ==
  ASSUME SInv, CInv', ShapeKept
  PROVE  Shape'
<1>1. Blank'
  BY DEF SInv, Shape, Blank, ShapeKept, ArtsKept
<1>2. Grounded'
  <2>1. ASSUME NEW v \in WorkId, NEW q \in work[v].preds PROVE Made(q)'
    <3>1. q \in WorkId /\ Made(q)
      BY DEF SInv, Shape, Grounded, CInv, TInv, TypeOK, WorkRecord
    <3>2. QED
      BY <3>1 DEF ShapeKept
  <2>2. ASSUME NEW v \in WorkId, NEW a \in Asks(v) PROVE Known(a)'
    <3>1. a \in ArtId /\ Known(a)
      BY DEF SInv, Shape, Grounded, Asks, CInv, TInv, TypeOK, WorkRecord, Requirement
    <3>2. QED
      BY <3>1 DEF ShapeKept, ArtsKept
  <2>3. ASSUME NEW a \in ArtId, NEW x \in art[a].consumers PROVE Made(x)'
    <3>1. x \in WorkId /\ Made(x)
      BY DEF SInv, Shape, Grounded, CInv, TInv, TypeOK, ArtRecord
    <3>2. QED
      BY <3>1 DEF ShapeKept
  <2>4. QED
    BY <2>1, <2>2, <2>3 DEF Grounded, ShapeKept, ArtsKept, Asks
<1>3. Listed'
  <2>1. ASSUME NEW t \in Task
        PROVE  /\ \A v \in task[t].terminals \cup task[t].work : Made(v)'
               /\ \A a \in task[t].arts : Known(a)'
    <3>1. task[t].terminals \cup task[t].work \subseteq WorkId /\ task[t].arts \subseteq ArtId
      BY DEF SInv, CInv, TInv, TypeOK, TaskRecord
    <3>2. QED
      BY <3>1 DEF SInv, Shape, Listed, ShapeKept, ArtsKept
  <2>2. QED
    BY <2>1 DEF Listed, ShapeKept, TasksKept
<1>4. Manned' /\ Carried' /\ Stopped'
  BY DEF SInv, Shape, Manned, Carried, Stopped, ShapeKept
<1>5. QED
  BY <1>1, <1>2, <1>3, <1>4 DEF Shape

LEMMA KeptInv ==
  ASSUME SInv, CInv', ShapeKept
  PROVE  SInv'
<1>1. work' = work /\ edges' = edges
  BY DEF ShapeKept
<1>2. \A a \in ArtId : /\ art'[a].producer = art[a].producer /\ art'[a].consumers = art[a].consumers
                       /\ art'[a].key = art[a].key /\ art'[a].tasks = art[a].tasks
  BY DEF ShapeKept, ArtsKept
<1>3. \A v \in WorkId : work[v].outs \subseteq ArtId
  BY DEF SInv, CInv, TInv, TypeOK, WorkRecord
<1>4. EdgesMirrorNodes'
  <2>1. \A v \in WorkId : work'[v].preds = {q \in WorkId : <<"PRECEDES", q, v>> \in edges'}
    BY <1>1 DEF SInv, EdgesMirrorNodes
  <2>2. \A v \in WorkId : work'[v].outs = {a \in ArtId : art'[a].producer = v}
    BY <1>1, <1>2 DEF SInv, EdgesMirrorNodes
  <2>3. \A v \in WorkId : {r.art : r \in work'[v].inputs} = {a \in ArtId : v \in art'[a].consumers}
    BY <1>1, <1>2 DEF SInv, EdgesMirrorNodes
  <2>4. \A v \in WorkId, a \in ArtId : a \in work'[v].outs <=> <<"PRODUCES", v, a>> \in edges'
    BY <1>1 DEF SInv, EdgesMirrorNodes
  <2>5. \A v \in WorkId, a \in ArtId : v \in art'[a].consumers <=> <<"CONSUMES", a, v>> \in edges'
    BY <1>1, <1>2 DEF SInv, EdgesMirrorNodes
  <2>6. QED
    BY <2>1, <2>2, <2>3, <2>4, <2>5 DEF EdgesMirrorNodes
<1>5. Acyclic'
  BY <1>1 DEF SInv, Acyclic, Feeds
<1>6. Layered' /\ OneKeyed' /\ OneOutput'
  <2>1. Layered' /\ OneKeyed'
    BY <1>1, <1>2, <1>3 DEF SInv, Layered, OneKeyed
  <2>2. OneOutput'
    BY <1>1 DEF SInv, OneOutput, ShapeKept
  <2>3. QED
    BY <2>1, <2>2
<1>7. Enlisted'
  BY <1>1 DEF SInv, Enlisted, ShapeKept, TasksKept
<1>8. TaskScopePrivate'
  BY <1>1, <1>2 DEF SInv, TaskScopePrivate
<1>9. ContinuationInherits'
  <2> SUFFICES ASSUME NEW w \in WorkId, outcome'[w] = "checkpoint"
               PROVE  /\ \E c \in WorkId : {v \in WorkId : w \in work'[v].preds} = {c}
                           /\ \E r \in work'[c].inputs : art'[r.art].producer = w /\ art'[r.art].key = None
                      /\ (\A a \in work'[w].outs : art'[a].key = None) => \A u \in Task : w \notin task'[u].terminals
    BY DEF ContinuationInherits
  <2>1. outcome[w] = "checkpoint"
    BY DEF ShapeKept
  <2>2. PICK c \in WorkId : {v \in WorkId : w \in work[v].preds} = {c}
                            /\ \E r \in work[c].inputs : art[r.art].producer = w /\ art[r.art].key = None
    BY <2>1 DEF SInv, ContinuationInherits
  <2>3. PICK r \in work[c].inputs : art[r.art].producer = w /\ art[r.art].key = None
    BY <2>2
  <2>4. r.art \in ArtId
    BY <2>3 DEF SInv, CInv, TInv, TypeOK, WorkRecord, Requirement
  <2>5. (\A a \in work'[w].outs : art'[a].key = None) => \A u \in Task : w \notin task'[u].terminals
    BY <1>1, <1>2, <1>3, <2>1 DEF SInv, ContinuationInherits, ShapeKept, TasksKept
  <2>6. QED
    BY <1>1, <1>2, <2>2, <2>3, <2>4, <2>5
<1>10. QED
  BY <1>4, <1>5, <1>6, <1>7, <1>8, <1>9, KeptShape DEF SInv

\* A refresh changes no more of a task than its status.
LEMMA RefreshKeepsTasks ==
  ASSUME CInv, NEW st, task' = SettledTasks(task, st)
  PROVE  TasksKept
<1>1. \A t \in Task, s \in TaskStatus : /\ [task[t] EXCEPT !.status = s].terminals = task[t].terminals
                                        /\ [task[t] EXCEPT !.status = s].work = task[t].work
                                        /\ [task[t] EXCEPT !.status = s].arts = task[t].arts
  BY DEF CInv, TInv, TypeOK, TaskRecord
<1>2. \A S : TaskVerdict(S, st) \in TaskStatus
  BY DEF TaskVerdict, TaskStatus
<1>3. \A t \in Task : task'[t] = task[t] \/ \E s \in TaskStatus : task'[t] = [task[t] EXCEPT !.status = s]
  BY <1>2 DEF SettledTasks
<1>4. ASSUME NEW t \in Task
      PROVE  /\ task'[t].terminals = task[t].terminals
             /\ task'[t].work = task[t].work /\ task'[t].arts = task[t].arts
  <2>1. CASE task'[t] = task[t]
    BY <2>1
  <2>2. ASSUME NEW s \in TaskStatus, task'[t] = [task[t] EXCEPT !.status = s]
        PROVE  /\ task'[t].terminals = task[t].terminals
               /\ task'[t].work = task[t].work /\ task'[t].arts = task[t].arts
    BY <1>1, <2>2
  <2>3. QED
    BY <1>3, <2>1, <2>2
<1>5. QED
  BY <1>4 DEF TasksKept

LEMMA InvalidationKeepsArts ==
  ASSUME CInv, NEW as \in SUBSET ArtId, \A a \in as : art[a].state \in OfUse, art' = Invalidated(art, as)
  PROVE  ArtsKept
<1>1. \A r \in ArtRecord : LET q == [r EXCEPT !.state = "INVALIDATED"]
                           IN  /\ q.state = "INVALIDATED" /\ q.producer = r.producer /\ q.consumers = r.consumers
                               /\ q.key = r.key /\ q.tasks = r.tasks
  BY DEF ArtRecord
<1>2. \A a \in ArtId : art[a] \in ArtRecord
  BY DEF CInv, TInv, TypeOK
<1>3. \A a \in ArtId : art'[a] = IF a \in as THEN [art[a] EXCEPT !.state = "INVALIDATED"] ELSE art[a]
  BY DEF Invalidated
<1>4. QED
  BY <1>1, <1>2, <1>3 DEF ArtsKept, Known, OfUse

LEMMA FailureKeepsArts ==
  ASSUME CInv, NEW w \in WorkId, FailOutputs(w)
  PROVE  ArtsKept
<1>1. \A r \in ArtRecord : LET q == [r EXCEPT !.state = "FAILED"]
                           IN  /\ q.state = "FAILED" /\ q.producer = r.producer /\ q.consumers = r.consumers
                               /\ q.key = r.key /\ q.tasks = r.tasks
  BY DEF ArtRecord
<1>2. \A a \in ArtId : art[a] \in ArtRecord
  BY DEF CInv, TInv, TypeOK
<1>3. \A a \in ArtId : art'[a] = IF a \in Unfinished(w) THEN [art[a] EXCEPT !.state = "FAILED"] ELSE art[a]
  BY DEF FailOutputs
<1>4. \A a \in Unfinished(w) : art[a].state = "FUTURE"
  BY DEF Unfinished
<1>5. QED
  BY <1>1, <1>2, <1>3, <1>4 DEF ArtsKept, Known

LEMMA PublicationKeepsArts ==
  ASSUME CInv, NEW w \in WorkId, NEW d, \A a \in work[w].outs : art[a].state = "FUTURE", art' = Concretized(w, d)
  PROVE  ArtsKept
<1> SUFFICES ASSUME NEW a \in ArtId
             PROVE  /\ Known(a)' <=> Known(a)
                    /\ ~Known(a) => art'[a] = art[a]
                    /\ art'[a].producer = art[a].producer /\ art'[a].consumers = art[a].consumers
                    /\ art'[a].key = art[a].key /\ art'[a].tasks = art[a].tasks
  BY DEF ArtsKept
<1> DEFINE Until(k) == IF d.validUntil # None \/ k = None THEN d.validUntil
                       ELSE IF TTL[k[1]] = None THEN None ELSE SeenAt(d) + TTL[k[1]]
           u == Until(art[a].key)
           n == SeenAt(d)
<1>1. art'[a] =
        IF a \in work[w].outs
        THEN [art[a] EXCEPT !.state = "CONCRETE", !.observedAt = n, !.validFrom = n, !.validUntil = u]
        ELSE art[a]
  BY DEF Concretized
<1> HIDE DEF u, n
<1>2. art[a] \in ArtRecord
  BY DEF CInv, TInv, TypeOK
<1>3. QED
  BY <1>1, <1>2 DEF ArtRecord, Known

-----------------------------------------------------------------------------
(* The operations that keep the shape.                                     *)

LEMMA KeptAssign ==
  ASSUME SInv, NEW w \in WorkId, NEW s \in Assignment, Assign(w, s) \/ Start(w, s)
  PROVE  ShapeKept
<1>1. work' = work /\ edges' = edges /\ art' = art /\ task' = task /\ outcome' = outcome
  BY DEF Assign, Start
<1>2. status[w] \in {"READY", "ASSIGNED"} /\ status'[w] \in {"ASSIGNED", "RUNNING"} /\ asg'[w] # None
  BY NoneAssumption DEF Assign, Start, SInv, CInv, TInv, TypeOK
<1>3. \A v \in WorkId \ {w} : status'[v] = status[v] /\ asg'[v] = asg[v]
  BY DEF Assign, Start, SInv, CInv, TInv, TypeOK
<1>4. ArtsKept /\ TasksKept
  BY <1>1 DEF ArtsKept, TasksKept, Known
<1>5. ASSUME NEW v \in WorkId
      PROVE  /\ Made(v)' <=> Made(v)
             /\ status'[v] \in {"ASSIGNED", "RUNNING"} => asg'[v] # None
             /\ outcome'[v] = "checkpoint" => outcome[v] = "checkpoint" /\ status'[v] = "DONE"
             /\ status[v] = "DONE" => status'[v] = "DONE"
  <2>1. outcome[v] = "checkpoint" => status[v] = "DONE"
    BY DEF SInv, Shape, Stopped
  <2>2. status[v] \in {"ASSIGNED", "RUNNING"} => asg[v] # None
    BY DEF SInv, Shape, Carried
  <2>3. CASE v = w
    BY <1>1, <1>2, <2>1, <2>3 DEF Made
  <2>4. CASE v # w
    BY <1>1, <1>3, <2>1, <2>2, <2>4 DEF Made
  <2>5. QED
    BY <2>3, <2>4
<1>6. QED
  BY <1>1, <1>4, <1>5 DEF ShapeKept

LEMMA KeptFinish ==
  ASSUME SInv, NEW w \in WorkId, NEW st \in {"DONE", "FAILED"}, NEW how \in {"completed", "failed"},
         status[w] = "RUNNING", work' = work, ArtsKept, Finish(w, st, how)
  PROVE  ShapeKept
<1>1. Ends(w, st) /\ asg' = asg
  BY FinishEnds DEF SInv
<1>2. edges' = edges /\ outcome' = [outcome EXCEPT ![w] = how] /\ task' = SettledTasks(task, status')
  BY DEF Finish
<1>3. TasksKept
  BY <1>2, RefreshKeepsTasks DEF SInv
<1>4. ASSUME NEW v \in WorkId
      PROVE  /\ Made(v)' <=> Made(v)
             /\ status'[v] \in {"ASSIGNED", "RUNNING"} => asg'[v] # None
             /\ outcome'[v] = "checkpoint" => outcome[v] = "checkpoint" /\ status'[v] = "DONE"
             /\ status[v] = "DONE" => status'[v] = "DONE"
  <2>1. outcome[v] = "checkpoint" => status[v] = "DONE"
    BY DEF SInv, Shape, Stopped
  <2>2. status[v] \in {"ASSIGNED", "RUNNING"} => asg[v] # None
    BY DEF SInv, Shape, Carried
  <2>3. outcome'[v] = IF v = w THEN how ELSE outcome[v]
    BY <1>2 DEF SInv, CInv, TInv, TypeOK
  <2>4. CASE v = w
    BY <1>1, <2>3, <2>4 DEF Made, Ends
  <2>5. CASE v # w
    BY <1>1, <2>1, <2>2, <2>3, <2>5 DEF Made, Ends, Kept, Open
  <2>6. QED
    BY <2>4, <2>5
<1>5. QED
  BY <1>2, <1>3, <1>4 DEF ShapeKept

LEMMA KeptWithdraw ==
  ASSUME SInv, NEW as \in SUBSET ArtId, \A a \in as : art[a].state \in OfUse,
         work' = work, edges' = edges, asg' = asg, outcome' = outcome,
         art' = Invalidated(art, as), status' = SettledWork(status, work, art'), task' = SettledTasks(task, status')
  PROVE  ShapeKept
<1>1. ArtsKept /\ TasksKept
  BY InvalidationKeepsArts, RefreshKeepsTasks DEF SInv
<1>2. \A v \in WorkId : Kept(v)
  <2>1. status \in [WorkId -> WorkStatus]
    BY DEF SInv, CInv, TInv, TypeOK
  <2>2. QED
    BY <2>1, SettledWorkType DEF Kept, Open
<1>3. QED
  BY <1>1, <1>2 DEF ShapeKept, Kept, Open, Made, SInv, Shape, Carried, Stopped

LEMMA KeptElsewhere ==
  ASSUME SInv, UNCHANGED <<work, edges, art, status, asg, outcome>>, TasksKept
  PROVE  ShapeKept
BY DEF ShapeKept, ArtsKept, Made, Known, SInv, Shape, Carried, Stopped

LEMMA KeptEvaluate ==
  ASSUME SInv, NEW t \in Task, NEW success \in BOOLEAN, EvaluateTask(t, success)
  PROVE  ShapeKept
<1>1. \A r \in TaskRecord, s \in TaskStatus : LET q == [r EXCEPT !.status = s]
                                              IN  q.terminals = r.terminals /\ q.work = r.work /\ q.arts = r.arts
  BY DEF TaskRecord
<1>2. task \in [Task -> TaskRecord] /\ \E s \in TaskStatus : task' = [task EXCEPT ![t] = [@ EXCEPT !.status = s]]
  BY DEF SInv, CInv, TInv, TypeOK, EvaluateTask, TaskStatus
<1>3. TasksKept
  BY <1>1, <1>2 DEF TasksKept
<1>4. QED
  BY <1>3, KeptElsewhere DEF EvaluateTask

-----------------------------------------------------------------------------
(* A resolution adds at most a producer and an artifact.                   *)

\* A key a task asks for is shared, or its own.
LEMMA KeyScope ==
  ASSUME NEW i, NEW t, KeyOf(i, t) # None
  PROVE  KeyOf(i, t)[2] \in {None, t}
BY DEF KeyOf

LEMMA ResolveAdds ==
  ASSUME SInv, CInv', NEW c \in WorkId, NEW t \in Task, NEW i \in Identity \cup {None}, NEW age \in Age,
         NEW g \in Agent, ResolveArtifact(c, t, i, age, g)
  PROVE  \E ws, as, E : Adds(t, ws, as, E)
<1> USE NoneAssumption
<1> DEFINE k == KeyOf(i, t)
           hit == Reusable(k, age)
           old == Stale(k, age)
           a == IF hit THEN active[k] ELSE nextArt
           p == IF hit THEN art[a].producer ELSE nextWork
           mid == IF hit THEN status ELSE [status EXCEPT ![p] = "BLOCKED"]
           tk == [task EXCEPT ![t].work = @ \cup {p}, ![t].arts = @ \cup {a}]
           provider == IF hit THEN [work[p] EXCEPT !.tasks = @ \cup {t}]
                       ELSE [NoWork EXCEPT !.agent = g, !.outs = {a}, !.tasks = {t}]
           asked == IF hit THEN Joined(art[a], {c}, {t})
                    ELSE [NoArtifact EXCEPT !.state = "FUTURE", !.producer = p, !.consumers = {c},
                                            !.key = k, !.tasks = {t}]
           inv == Invalidated(art, old)
           need == [art |-> a, maxAge |-> age]
           as == IF hit THEN {} ELSE {a}
           ws == IF hit THEN {} ELSE {p}
           E == {<<"PRODUCES", p, a>>, <<"CONSUMES", a, c>>}
<1>1. k \in Key \cup {None} /\ (k # None => k[2] \in {None, t})
  BY KeyOfType, KeyScope
<1>2. /\ ~hit => nextWork <= MaxWork /\ nextArt <= MaxArt
      /\ edges' = edges \cup E
      /\ status' = SettledWork(mid, work', art')
      /\ task' = SettledTasks(tk, status')
      /\ asg' = asg /\ outcome' = outcome
      /\ status[c] \in Open
      /\ work' = [[work EXCEPT ![p] = provider] EXCEPT ![c].inputs = @ \cup {need}]
      /\ art' = [inv EXCEPT ![a] = asked]
      /\ IsAcyclic(edges')
  BY Zenon DEF ResolveArtifact, Open
<1>3. CInv /\ TInv /\ Blank
  BY DEF SInv, CInv, Shape
<1>4. hit => /\ a \in ArtId /\ a < nextArt /\ p \in WorkId /\ p < nextWork /\ k \in Key /\ a = active[k] /\ a # None
             /\ art[a].state \in {"FUTURE", "CONCRETE"} /\ art[a].producer = p
  BY <1>1, <1>3, ReusableHit DEF ArtId
<1>5. ~hit => a = nextArt /\ p = nextWork /\ a \in ArtId /\ p \in WorkId
  <2> SUFFICES ASSUME ~hit PROVE a = nextArt /\ p = nextWork /\ a \in ArtId /\ p \in WorkId
    OBVIOUS
  <2>1. nextWork \in 1 .. MaxWork + 1 /\ nextArt \in 1 .. MaxArt + 1
    BY <1>3 DEF TInv, TypeOK
  <2>2. a = nextArt /\ p = nextWork /\ nextWork <= MaxWork /\ nextArt <= MaxArt
    BY <1>2
  <2> HIDE DEF a, p
  <2>3. QED
    BY <2>1, <2>2, BoundAssumption DEF ArtId, WorkId
<1>6. \A b \in old : b \in ArtId /\ art[b].state = "CONCRETE"
  BY <1>1, <1>3, StaleEntry
<1>7. hit => old = {} /\ art[a].key = k
  <2>1. hit => old = {}
    BY <1>1, <1>3, StaleEntry
  <2>2. hit => art[a].key = k
    <3> SUFFICES ASSUME hit PROVE art[a].key = k
      OBVIOUS
    <3>1. k \in Key /\ a = active[k] /\ a # None
      BY <1>4
    <3> HIDE DEF k, a, hit
    <3>2. QED
      BY <1>3, <3>1, IndexEntry
  <2>3. QED
    BY <2>1, <2>2
<1> HIDE DEF k, hit, old, a, p, mid, tk, asked, inv, provider, need
<1>8. /\ art \in [ArtId -> ArtRecord] /\ work \in [WorkId -> WorkRecord] /\ status \in [WorkId -> WorkStatus]
      /\ task \in [Task -> TaskRecord] /\ nextArt \in Int /\ nextWork \in Int /\ \A v \in WorkId : v \in Int
  BY <1>3 DEF TInv, TypeOK, WorkId
<1>9. /\ a \in ArtId /\ p \in WorkId
      /\ ~hit => art[a] = NoArtifact /\ work[p] = NoWork /\ ~Known(a) /\ ~Made(p)
      /\ hit => Known(a) /\ Made(p)
      /\ Made(c)
  <2>1. ~hit => ~Known(a) /\ ~Made(p)
    BY <1>3, <1>5, <1>8 DEF TInv, Numbered, Made, Known
  <2>2. hit => Known(a)
    BY <1>4 DEF Known
  <2>3. hit => Made(p)
    BY <1>3, <1>4, <1>8 DEF TInv, Numbered, Made
  <2>4. QED
    BY <1>2, <1>3, <1>4, <1>5, <2>1, <2>2, <2>3 DEF Blank, Made, Open
<1>10. \A b \in ArtId : LET q == art'[b]
                        IN  IF b = a THEN /\ q.state # "ABSENT"
                                          /\ q.producer = p /\ q.key = k
                                          /\ q.consumers = art[b].consumers \cup {c} /\ q.tasks = art[b].tasks \cup {t}
                            ELSE /\ q.state = "ABSENT" <=> art[b].state = "ABSENT"
                                 /\ art[b].state = "ABSENT" => q = art[b]
                                 /\ q.producer = art[b].producer /\ q.key = art[b].key
                                 /\ q.consumers = art[b].consumers /\ q.tasks = art[b].tasks
  <2>1. art'[a] = asked /\ \A b \in ArtId \ {a} : art'[b] = inv[b]
    BY <1>2, <1>9 DEF inv, Invalidated
  <2>2. \A b \in ArtId : inv[b] = IF b \in old THEN [art[b] EXCEPT !.state = "INVALIDATED"] ELSE art[b]
    BY DEF inv, Invalidated
  <2>3. ASSUME NEW b \in ArtId \ {a}
        PROVE  LET q == art'[b]
               IN  /\ q.state = "ABSENT" <=> art[b].state = "ABSENT"
                   /\ art[b].state = "ABSENT" => q = art[b]
                   /\ q.producer = art[b].producer /\ q.key = art[b].key
                   /\ q.consumers = art[b].consumers /\ q.tasks = art[b].tasks
    <3>1. art[b] \in ArtRecord
      BY <1>8
    <3>2. CASE b \in old
      <4>1. art'[b] = [art[b] EXCEPT !.state = "INVALIDATED"] /\ art[b].state = "CONCRETE"
        BY <1>6, <2>1, <2>2, <3>2
      <4>2. QED
        BY <3>1, <4>1 DEF ArtRecord
    <3>3. CASE b \notin old
      BY <2>1, <2>2, <3>3
    <3>4. QED
      BY <3>2, <3>3
  <2>4. /\ asked.state # "ABSENT" /\ asked.producer = p /\ asked.key = k
        /\ asked.consumers = art[a].consumers \cup {c} /\ asked.tasks = art[a].tasks \cup {t}
    <3>1. CASE hit
      <4>1. asked = [art[a] EXCEPT !.consumers = @ \cup {c}, !.tasks = @ \cup {t}] /\ art[a] \in ArtRecord
        BY <1>8, <1>9, <3>1 DEF asked, Joined
      <4>2. QED
        BY <1>4, <1>7, <3>1, <4>1 DEF ArtRecord
    <3>2. CASE ~hit
      BY <1>9, <3>2 DEF asked, NoArtifact
    <3>3. QED
      BY <3>1, <3>2
  <2>5. QED
    BY <2>1, <2>3, <2>4
<1>11. \A v \in WorkId : LET q == work'[v]
                         IN  /\ q.agent = IF v = p /\ ~hit THEN g ELSE work[v].agent
                             /\ q.preds = work[v].preds
                             /\ q.inputs = IF v = c THEN work[v].inputs \cup {need} ELSE work[v].inputs
                             /\ q.outs = IF v = p /\ ~hit THEN work[v].outs \cup {a} ELSE work[v].outs
                             /\ q.tasks = IF v = p THEN work[v].tasks \cup {t} ELSE work[v].tasks
                             /\ v \notin {p, c} => q = work[v]
  <2>1. /\ provider \in WorkRecord
        /\ provider.agent = IF hit THEN work[p].agent ELSE g
        /\ provider.preds = work[p].preds /\ provider.inputs = work[p].inputs
        /\ provider.outs = IF ~hit THEN work[p].outs \cup {a} ELSE work[p].outs
        /\ provider.tasks = work[p].tasks \cup {t}
    <3>1. CASE hit
      <4>1. provider = [work[p] EXCEPT !.tasks = @ \cup {t}] /\ work[p] \in WorkRecord
        BY <1>8, <1>9, <3>1 DEF provider
      <4>2. QED
        BY <3>1, <4>1 DEF WorkRecord
    <3>2. CASE ~hit
      <4>1. provider = [NoWork EXCEPT !.agent = g, !.outs = {a}, !.tasks = {t}] /\ work[p] = NoWork
        BY <1>9, <3>2 DEF provider
      <4>2. QED
        <5>1. /\ provider.agent = g /\ provider.preds = {} /\ provider.inputs = {} /\ provider.outs = {a}
              /\ provider.tasks = {t}
          BY <4>1 DEF NoWork
        <5>2. provider \in WorkRecord
          BY <1>9, <4>1 DEF WorkRecord, NoWork
        <5>3. /\ work[p].preds = {} /\ work[p].inputs = {} /\ work[p].outs = {} /\ work[p].tasks = {}
          BY <4>1 DEF NoWork
        <5>4. QED
          BY <3>2, <5>1, <5>2, <5>3
    <3>3. QED
      BY <3>1, <3>2
  <2> DEFINE base == [work EXCEPT ![p] = provider]
  <2>2. base \in [WorkId -> WorkRecord] /\ base[p] = provider /\ \A v \in WorkId \ {p} : base[v] = work[v]
    BY <1>8, <1>9, <2>1
  <2>3. work' = [base EXCEPT ![c].inputs = @ \cup {need}]
    BY <1>2
  <2> HIDE DEF base
  <2>4. ASSUME NEW v \in WorkId
        PROVE  /\ work'[v].agent = base[v].agent /\ work'[v].preds = base[v].preds
               /\ work'[v].inputs = IF v = c THEN base[v].inputs \cup {need} ELSE base[v].inputs
               /\ work'[v].outs = base[v].outs /\ work'[v].tasks = base[v].tasks
               /\ v # c => work'[v] = base[v]
    <3>1. base[v] \in WorkRecord
      BY <2>2
    <3>2. CASE v = c
      <4>1. work'[v] = [base[v] EXCEPT !.inputs = @ \cup {need}]
        BY <2>2, <2>3, <3>2
      <4>2. QED
        BY <3>1, <3>2, <4>1 DEF WorkRecord
    <3>3. CASE v # c
      <4>1. work'[v] = base[v]
        BY <2>2, <2>3, <3>3
      <4>2. QED
        BY <3>3, <4>1
    <3>4. QED
      BY <3>2, <3>3
  <2>5. ASSUME NEW v \in WorkId
        PROVE  /\ base[v].agent = IF v = p /\ ~hit THEN g ELSE work[v].agent
               /\ base[v].preds = work[v].preds /\ base[v].inputs = work[v].inputs
               /\ base[v].outs = IF v = p /\ ~hit THEN work[v].outs \cup {a} ELSE work[v].outs
               /\ base[v].tasks = IF v = p THEN work[v].tasks \cup {t} ELSE work[v].tasks
               /\ v # p => base[v] = work[v]
    <3>1. CASE v = p
      BY <2>1, <2>2, <3>1
    <3>2. CASE v # p
      BY <2>2, <3>2
    <3>3. QED
      BY <3>1, <3>2
  <2>6. QED
    BY <2>4, <2>5
<1>12. \A v \in WorkId : IF v \in ws THEN status'[v] \in Open ELSE Kept(v)
  <2>1. mid \in [WorkId -> WorkStatus] /\ \A v \in WorkId : mid[v] = IF v \in ws THEN "BLOCKED" ELSE status[v]
    BY <1>9, <1>8 DEF mid, WorkStatus
  <2>2. \A v \in WorkId : IF mid[v] \in Open THEN status'[v] \in Open ELSE status'[v] = mid[v]
    BY <1>2, <2>1, SettledWorkType DEF Open
  <2> HIDE DEF ws
  <2>3. QED
    BY <2>1, <2>2 DEF Kept, Open
<1>13. \A u \in Task : /\ task'[u].terminals = task[u].terminals
                       /\ task'[u].work = IF u = t THEN task[u].work \cup {p} ELSE task[u].work
                       /\ task'[u].arts = IF u = t THEN task[u].arts \cup {a} ELSE task[u].arts
  <2>1. /\ tk \in [Task -> TaskRecord]
        /\ \A u \in Task : /\ tk[u].terminals = task[u].terminals
                           /\ tk[u].work = IF u = t THEN task[u].work \cup {p} ELSE task[u].work
                           /\ tk[u].arts = IF u = t THEN task[u].arts \cup {a} ELSE task[u].arts
    BY <1>8, <1>9 DEF tk, TaskRecord
  <2>2. \A S : TaskVerdict(S, status') \in TaskStatus
    BY DEF TaskVerdict, TaskStatus
  <2>3. ASSUME NEW u \in Task
        PROVE  /\ task'[u].terminals = tk[u].terminals
               /\ task'[u].work = tk[u].work /\ task'[u].arts = tk[u].arts
    <3>1. tk[u] \in TaskRecord
      BY <2>1
    <3>2. task'[u] = tk[u] \/ task'[u] = [tk[u] EXCEPT !.status = TaskVerdict(tk[u].terminals, status')]
      BY <1>2 DEF SettledTasks
    <3>3. QED
      BY <3>1, <3>2 DEF TaskRecord
  <2>4. QED
    BY <2>1, <2>3
<1> USE DEF ws, as
<1>14. AddsNodes(ws, as)
  <2>1. \A v \in WorkId : /\ Made(v)' <=> Made(v) \/ v \in ws
                          /\ v \in ws => ~Made(v) /\ work'[v].agent \in Agent
                          /\ v \notin ws => work'[v].agent = work[v].agent
                          /\ ~Made(v)' => work'[v] = work[v]
    BY <1>9, <1>11, <1>12 DEF Made, Kept, Open
  <2>2. \A b \in ArtId : /\ Known(b)' <=> Known(b) \/ b \in as
                         /\ b \in as => ~Known(b)
                         /\ b \notin as => art'[b].producer = art[b].producer /\ art'[b].key = art[b].key
                         /\ ~Known(b)' => art'[b] = art[b]
    BY <1>4, <1>7, <1>9, <1>10 DEF Known
  <2>3. QED
    BY <1>9, <2>1, <2>2 DEF AddsNodes
<1>15. hit => Shares(t, a)
  BY <1>1, <1>4, <1>7, <1>9 DEF Shares
<1>16. AddsEdges(t, ws, as, E)
  <2>1. \A x, y : <<"PRECEDES", x, y>> \notin E
    OBVIOUS
  <2>2. \A x, y : /\ <<"PRODUCES", x, y>> \in E => x = p /\ y = a
                  /\ <<"CONSUMES", y, x>> \in E => x = c /\ y = a
    OBVIOUS
  <2>3. hit => <<"PRODUCES", p, a>> \in edges
    BY <1>4, <1>9 DEF SInv, EdgesMirrorNodes
  <2>4. Made(c)'
    BY <1>9, <1>14 DEF AddsNodes
  <2> HIDE DEF E
  <2>5. QED
    BY <1>2, <1>15, <2>1, <2>2, <2>3, <2>4 DEF AddsEdges
<1>17. AddsMentions(E)
  <2>1. /\ \A x, y : <<"PRECEDES", x, y>> \notin E
        /\ \A x, y : <<"PRODUCES", x, y>> \in E <=> x = p /\ y = a
        /\ \A x, y : <<"CONSUMES", y, x>> \in E <=> x = c /\ y = a
    OBVIOUS
  <2> HIDE DEF E
  <2>2. ASSUME NEW v \in WorkId
        PROVE  /\ work'[v].preds = work[v].preds \cup {q \in WorkId : <<"PRECEDES", q, v>> \in E}
               /\ work[v].inputs \subseteq work'[v].inputs
    BY <1>11, <2>1
  <2>3. ASSUME NEW v \in WorkId
        PROVE  Asks(v)' = Asks(v) \cup {b \in ArtId : <<"CONSUMES", b, v>> \in E}
    <3>1. \A b : b \in {x \in ArtId : <<"CONSUMES", x, v>> \in E} <=> v = c /\ b = a
      BY <1>9, <2>1
    <3>2. \A r : r \in work'[v].inputs <=> r \in work[v].inputs \/ (v = c /\ r = need)
      BY <1>11
    <3>3. need.art = a
      BY DEF need
    <3>4. \A b : b \in {r.art : r \in work'[v].inputs} <=> b \in {r.art : r \in work[v].inputs} \/ (v = c /\ b = a)
      BY <3>2, <3>3
    <3>5. QED
      BY <3>1, <3>4 DEF Asks
  <2>4. ASSUME NEW v \in WorkId, NEW b \in ArtId
        PROVE  b \in work'[v].outs <=> b \in work[v].outs \/ <<"PRODUCES", v, b>> \in E
    <3>1. hit => a \in work[p].outs
      BY <1>4, <1>9 DEF SInv, CInv, Mirrored
    <3>2. <<"PRODUCES", v, b>> \in E <=> v = p /\ b = a
      BY <2>1
    <3>3. work'[v].outs = IF v = p /\ ~hit THEN work[v].outs \cup {a} ELSE work[v].outs
      BY <1>11
    <3>4. QED
      BY <3>1, <3>2, <3>3
  <2>5. ASSUME NEW v \in WorkId, NEW b \in ArtId
        PROVE  v \in art'[b].consumers <=> v \in art[b].consumers \/ <<"CONSUMES", b, v>> \in E
    BY <1>10, <2>1
  <2>6. QED
    BY <2>2, <2>3, <2>4, <2>5 DEF AddsMentions
<1>18. AddsTasks(t, ws, as, E)
  <2>1. ASSUME NEW v \in WorkId
        PROVE  IF v \in ws THEN work'[v].tasks = {t}
               ELSE work'[v].tasks = work[v].tasks
                    \/ (work'[v].tasks = work[v].tasks \cup {t} /\ Serves(t, ws, v))
    <3>1. ~hit => work[p].tasks = {}
      BY <1>9 DEF NoWork
    <3>2. hit => Serves(t, ws, p)
      BY <1>4, <1>9, <1>15 DEF Serves
    <3>3. QED
      BY <1>11, <3>1, <3>2
  <2>2. ASSUME NEW b \in ArtId
        PROVE  IF b \in as THEN art'[b].tasks = {t} /\ (art'[b].key # None => art'[b].key[2] \in {None, t})
               ELSE art'[b].tasks = art[b].tasks \/ (art'[b].tasks = art[b].tasks \cup {t} /\ Shares(t, b))
    <3>1. ~hit => art[a].tasks = {}
      BY <1>9 DEF NoArtifact
    <3>2. QED
      BY <1>1, <1>10, <1>15, <3>1
  <2>3. \A u \in Task \ {t} : /\ task'[u].terminals = task[u].terminals
                              /\ task'[u].work = task[u].work /\ task'[u].arts = task[u].arts
    BY <1>13
  <2>4. /\ \A v \in task'[t].terminals : v \in task[t].terminals
        /\ \A v \in task'[t].terminals \cup task'[t].work : v \in WorkId /\ (Made(v) \/ v = p)
        /\ \A b \in task'[t].arts : b \in ArtId /\ (Known(b) \/ b = a)
    <3>1. /\ \A v \in task[t].terminals \cup task[t].work : v \in WorkId /\ Made(v)
          /\ \A b \in task[t].arts : b \in ArtId /\ Known(b)
      BY <1>8 DEF SInv, Shape, Listed, TaskRecord
    <3>2. QED
      BY <1>9, <1>13, <3>1
  <2>5. status'[p] # "ABSENT" /\ art'[a].state # "ABSENT"
    BY <1>9, <1>14 DEF AddsNodes, Made, Known
  <2>6. \A b, d \in as : b = d
    OBVIOUS
  <2>7. /\ \A v \in task'[t].terminals \cup task'[t].work : Made(v)'
        /\ \A b \in task'[t].arts : Known(b)'
    BY <1>14, <2>4, <2>5 DEF AddsNodes, Made, Known
  <2> HIDE DEF as, ws, E
  <2>8. QED
    BY <2>1, <2>2, <2>3, <2>4, <2>6, <2>7 DEF AddsTasks
<1>19. HandsKept
  BY <1>2, <1>9, <1>12 DEF HandsKept, Kept, Open, Made
<1> HIDE DEF as, ws, E
<1>20. QED
  BY <1>2, <1>14, <1>16, <1>17, <1>18, <1>19 DEF Adds

-----------------------------------------------------------------------------
(* A submission adds the nodes of the fragment, and joins what it shares.  *)

\* Records with equal fields are equal.
LEMMA SameWork ==
  ASSUME NEW x \in WorkRecord, NEW y \in WorkRecord, x.agent = y.agent, x.preds = y.preds,
         x.inputs = y.inputs, x.outs = y.outs, x.tasks = y.tasks
  PROVE  x = y
BY DEF WorkRecord

LEMMA SameArtifact ==
  ASSUME NEW x \in ArtRecord, NEW y \in ArtRecord, x.state = y.state, x.producer = y.producer,
         x.consumers = y.consumers, x.key = y.key, x.tasks = y.tasks, x.observedAt = y.observedAt,
         x.validFrom = y.validFrom, x.validUntil = y.validUntil
  PROVE  x = y
BY DEF ArtRecord

\* The new nodes are those numbered by m and n; the edges are those of the fragment.
LEMMA SubmitAdds ==
  ASSUME SInv, CInv', NEW t \in Task, NEW f \in Fragment, SubmitTask(t, f)
  PROVE  \E ws, as, E : Adds(t, ws, as, E)
<1> USE NoneAssumption
<1> DEFINE fresh == FreshWork(f, t)
           locals == DOMAIN f.work
           specs == DOMAIN f.artifacts
           keys == FragmentKeys(f, t)
           hits == Hits(f, t)
           new == specs \ hits
           Maker(i) == f.artifacts[i].producer
<1>1. PICK lastWork \in nextWork - 1 .. MaxWork, lastArt \in nextArt - 1 .. MaxArt :
        \E m \in Numberings(fresh, nextWork, lastWork), n \in Numberings(new, nextArt, lastArt) : Graft(t, f, m, n)
  BY Zenon DEF SubmitTask
<1>2. PICK m \in Numberings(fresh, nextWork, lastWork), n \in Numberings(new, nextArt, lastArt) : Graft(t, f, m, n)
  BY <1>1
<1>3. ValidFragment(f) /\ IsAcyclic(edges')
  BY Zenon DEF SubmitTask
<1> DEFINE A == GlobalArt(f, t, n)
           W == GlobalWork(f, t, m)
           stale == UNION {Stale(keys[i], f.artifacts[i].maxAge) : i \in specs}
           ws == {m[l] : l \in fresh}
           as == {n[i] : i \in new}
           Consumers(i) == {W[l] : l \in f.artifacts[i].consumers}
           Joining(a) == UNION {Consumers(i) : i \in {j \in specs : A[j] = a}}
           inv == Invalidated(art, stale)
           asked(i) == [NoArtifact EXCEPT !.state = "FUTURE", !.producer = W[f.artifacts[i].producer],
                                          !.consumers = Consumers(i), !.key = keys[i], !.tasks = {t}]
           mid == [v \in WorkId |-> IF v \in ws THEN "BLOCKED" ELSE status[v]]
           agent(v) == IF v \in ws THEN f.work[CHOOSE l \in fresh : m[l] = v] ELSE work[v].agent
           preds(v) == work[v].preds \cup {W[e[1]] : e \in {x \in f.control : W[x[2]] = v}}
           inputs(v) == work[v].inputs \cup {[art |-> A[i], maxAge |-> f.artifacts[i].maxAge] :
                                               i \in {j \in specs : v \in Consumers(j)}}
           outs(v) == work[v].outs \cup {A[i] : i \in {j \in new : W[f.artifacts[j].producer] = v}}
           tasks(v) == work[v].tasks \cup {x \in {t} : \E l \in DOMAIN W : W[l] = v}
           tk == [task EXCEPT ![t] =
                    [status |-> "ACTIVE", terminals |-> Terminals(f, W, edges'),
                     work |-> {W[l] : l \in DOMAIN W}, arts |-> {A[i] : i \in specs}]]
           EP == {<<"PRECEDES", W[e[1]], W[e[2]]>> : e \in f.control}
           ED == {<<"PRODUCES", W[f.artifacts[i].producer], A[i]>> : i \in new}
           EC == UNION {{<<"CONSUMES", A[i], v>> : v \in Consumers(i)} : i \in specs}
           E == EP \cup ED \cup EC
           Of(b) == CHOOSE j \in new : n[j] = b
<1>4. /\ work' = [v \in WorkId |-> [agent |-> agent(v), preds |-> preds(v), inputs |-> inputs(v),
                                    outs |-> outs(v), tasks |-> tasks(v)]]
      /\ asg' = asg /\ outcome' = outcome
      /\ art' = [a \in ArtId |->
           IF \E i \in new : n[i] = a THEN asked(Of(a))
           ELSE Joined(inv[a], Joining(a), {x \in {t} : \E i \in specs : A[i] = a})]
      /\ edges' = edges \cup EP \cup ED \cup EC
      /\ status' = SettledWork(mid, work', art')
      /\ task' = SettledTasks(tk, status')
  BY <1>2, Zenon DEF Graft
<1>5. /\ art \in [ArtId -> ArtRecord] /\ work \in [WorkId -> WorkRecord] /\ status \in [WorkId -> WorkStatus]
      /\ task \in [Task -> TaskRecord]
      /\ nextWork \in 1 .. MaxWork + 1 /\ nextArt \in 1 .. MaxArt + 1
      /\ CInv /\ TInv /\ Blank
  BY DEF SInv, Shape, CInv, TInv, TypeOK
<1>6. /\ \A i \in specs : /\ A[i] \in ArtId /\ A[i] <= lastArt
                          /\ i \in hits => A[i] < nextArt
                          /\ i \in new => A[i] = n[i]
                          /\ keys[i] \in Key \cup {None}
      /\ \A l \in locals : W[l] \in WorkId /\ W[l] <= lastWork /\ f.work[l] \in Agent
      /\ ws = nextWork .. lastWork
      /\ as = nextArt .. lastArt
  <2>1. Located(t, f, m, n, lastWork, lastArt)
    BY <1>5, LocalMaps
  <2>2. \A i \in specs : i \in new => i \notin hits
    OBVIOUS
  <2> HIDE DEF new, specs, hits, A, W
  <2>3. QED
    BY <2>1, <2>2 DEF Located, new, specs, hits, A, W
<1>7. /\ f.control \subseteq locals \X locals
      /\ \A i \in specs : Maker(i) \in locals /\ f.artifacts[i].consumers \subseteq locals
      /\ fresh \subseteq locals /\ DOMAIN W = locals
  <2>1. fresh \subseteq locals /\ DOMAIN W = locals
    BY DEF FreshWork, GlobalWork
  <2> HIDE DEF W, fresh
  <2>2. QED
    BY <1>3, <2>1, FragmentShape
<1>8. /\ \A e \in f.control : \A i \in specs : Maker(i) # e[1] /\ Maker(i) # e[2]
      /\ \A i, j \in specs : Maker(i) = Maker(j) => i = j
  <2> DEFINE providers == {f.artifacts[i].producer : i \in specs}
  <2>1. /\ \A e \in f.control : e[1] \notin providers /\ e[2] \notin providers
        /\ \A i, j \in specs : f.artifacts[i].producer = f.artifacts[j].producer => i = j
    BY <1>3, Zenon DEF ValidFragment
  <2>2. QED
    BY <2>1
<1>9. /\ \A l \in locals : l \in fresh <=> \A i \in hits : Maker(i) # l
      /\ \A l \in fresh : W[l] = m[l] /\ m[l] \in ws
      /\ \A l, j \in fresh : m[l] = m[j] => l = j
      /\ hits \subseteq specs
  <2>1. \A l \in locals : l \in fresh <=> \A i \in hits : Maker(i) # l
    BY DEF FreshWork
  <2>2. \A l \in fresh : W[l] = m[l]
    BY <1>7 DEF GlobalWork
  <2>3. hits \subseteq specs
    BY DEF Hits
  <2>4. m \in [fresh -> nextWork .. lastWork] /\ \A l, j \in fresh : l < j => m[l] < m[j]
    BY DEF Numberings
  <2>5. locals \subseteq Int
    BY FragmentAssumption
  <2> HIDE DEF fresh, locals, hits, specs, W
  <2>6. \A l, j \in fresh : m[l] = m[j] => l = j
    BY <1>1, <1>5, <1>7, <2>4, <2>5
  <2>7. QED
    BY <2>1, <2>2, <2>3, <2>6
<1>10. \A i \in hits : /\ A[i] = active[keys[i]] /\ keys[i] \in Key /\ art[A[i]].key = keys[i]
                       /\ Known(A[i]) /\ keys[i][2] \in {None, t}
  <2> SUFFICES ASSUME NEW i \in hits
               PROVE  /\ A[i] = active[keys[i]] /\ keys[i] \in Key /\ art[A[i]].key = keys[i]
                      /\ Known(A[i]) /\ keys[i][2] \in {None, t}
    OBVIOUS
  <2>1. i \in specs /\ Reusable(keys[i], f.artifacts[i].maxAge)
    BY DEF Hits
  <2>2. A[i] = active[keys[i]]
    BY <2>1 DEF GlobalArt
  <2>3. keys[i] = KeyOf(f.artifacts[i].identity, t)
    BY <2>1 DEF FragmentKeys
  <2>4. keys[i] \in Key \cup {None}
    BY <1>6, <2>1
  <2> HIDE DEF keys, A, specs, hits
  <2>5. keys[i] \in Key /\ active[keys[i]] # None /\ art[active[keys[i]]].state \in {"FUTURE", "CONCRETE"}
    <3>1. /\ keys[i] \in Key
          /\ active[keys[i]] \in ArtId
          /\ art[active[keys[i]]].state \in {"FUTURE", "CONCRETE"}
      BY <1>5, <2>1, <2>4, ReusableHit
    <3>2. QED
      BY <3>1 DEF ArtId
  <2>6. art[active[keys[i]]].key = keys[i]
    BY <1>5, <2>5, IndexEntry
  <2>7. keys[i][2] \in {None, t}
    BY <2>3, <2>5, KeyScope
  <2>8. QED
    BY <2>2, <2>5, <2>6, <2>7 DEF Known
<1>11. \A l \in locals : l \notin fresh => \E i \in hits : Maker(i) = l /\ W[l] = art[A[i]].producer
  <2> SUFFICES ASSUME NEW l \in locals, l \notin fresh
               PROVE  \E i \in hits : Maker(i) = l /\ W[l] = art[A[i]].producer
    OBVIOUS
  <2> DEFINE h == CHOOSE i \in hits : f.artifacts[i].producer = l
  <2>1. W[l] = art[active[keys[h]]].producer
    BY DEF GlobalWork
  <2>2. h \in hits /\ Maker(h) = l
    BY <1>9
  <2> HIDE DEF h, W, A, hits, keys, fresh, locals, specs
  <2>3. QED
    BY <1>10, <2>1, <2>2
<1>12. \A b \in stale : b \in ArtId /\ art[b].state = "CONCRETE"
  <2> SUFFICES ASSUME NEW i \in specs, NEW b \in Stale(keys[i], f.artifacts[i].maxAge)
               PROVE  b \in ArtId /\ art[b].state = "CONCRETE"
    OBVIOUS
  <2>1. keys[i] \in Key \cup {None}
    BY <1>6
  <2> HIDE DEF keys, specs
  <2>2. QED
    BY <1>5, <2>1, StaleEntry
<1>13. \A i \in new : keys[i] # None => keys[i][2] \in {None, t}
  <2> SUFFICES ASSUME NEW i \in new, keys[i] # None PROVE keys[i][2] \in {None, t}
    OBVIOUS
  <2>1. keys[i] = KeyOf(f.artifacts[i].identity, t)
    BY DEF FragmentKeys
  <2> HIDE DEF keys
  <2>2. QED
    BY <2>1, KeyScope
<1>14. \A i \in new : i \in specs /\ i \notin hits
  OBVIOUS
<1>15. \A i \in specs : i \in new \/ i \in hits
  OBVIOUS
<1>16. \A i, j \in new : n[i] = n[j] => i = j
  <2>1. n \in [new -> nextArt .. lastArt] /\ \A i, j \in new : i < j => n[i] < n[j]
    BY DEF Numberings
  <2>2. \A i \in new : i \in Int
    BY FragmentAssumption
  <2> HIDE DEF new
  <2>3. QED
    BY <1>1, <1>5, <2>1, <2>2
<1> HIDE DEF fresh, locals, specs, keys, hits, new, A, W, stale, inv, mid, tk
<1>17. \A i \in new : A[i] = n[i] /\ n[i] \in as /\ Maker(i) \in fresh /\ W[Maker(i)] \in ws
  <2> SUFFICES ASSUME NEW i \in new
               PROVE  A[i] = n[i] /\ n[i] \in as /\ Maker(i) \in fresh /\ W[Maker(i)] \in ws
    OBVIOUS
  <2>1. i \in specs /\ i \notin hits
    BY <1>14
  <2>2. \A j \in hits : Maker(j) # Maker(i)
    BY <1>8, <1>9, <2>1
  <2>3. Maker(i) \in fresh
    BY <1>7, <1>9, <2>1, <2>2
  <2>4. QED
    BY <1>6, <1>9, <2>1, <2>3
<1>18. \A e \in f.control : /\ e[1] \in fresh /\ e[2] \in fresh
                            /\ W[e[1]] \in ws /\ W[e[2]] \in ws
  <2> SUFFICES ASSUME NEW e \in f.control PROVE e[1] \in fresh /\ e[2] \in fresh
    BY <1>9
  <2>1. e[1] \in locals /\ e[2] \in locals
    BY <1>7
  <2>2. QED
    BY <1>8, <1>9, <2>1
<1>19. /\ ws \in SUBSET WorkId /\ as \in SUBSET ArtId
       /\ \A v \in ws : ~Made(v) /\ work[v] = NoWork
       /\ \A b \in as : ~Known(b) /\ art[b] = NoArtifact
  <2> HIDE DEF ws, as
  <2>1. /\ \A v \in ws : v \in WorkId /\ v >= nextWork
        /\ \A b \in as : b \in ArtId /\ b >= nextArt
    BY <1>1, <1>5, <1>6, BoundAssumption DEF WorkId, ArtId
  <2>2. QED
    BY <1>5, <2>1 DEF TInv, Numbered, Made, Known, Blank
<1>20. \A l \in locals : W[l] \in WorkId /\ (W[l] \in ws \/ Made(W[l]))
  <2> SUFFICES ASSUME NEW l \in locals PROVE W[l] \in WorkId /\ (W[l] \in ws \/ Made(W[l]))
    OBVIOUS
  <2>1. W[l] \in WorkId /\ W[l] <= lastWork
    BY <1>6
  <2>2. W[l] \in nextWork .. lastWork \/ W[l] < nextWork
    BY <1>1, <1>5, <2>1 DEF WorkId
  <2> HIDE DEF ws
  <2>3. W[l] < nextWork => Made(W[l])
    BY <1>5, <2>1 DEF TInv, Numbered, Made, WorkId
  <2>4. QED
    BY <1>6, <2>1, <2>2, <2>3
<1>21. \A i \in specs : Consumers(i) \in SUBSET {W[l] : l \in locals}
  BY <1>7
<1>22. /\ \A x, y : <<"PRECEDES", x, y>> \in E <=> \E e \in f.control : x = W[e[1]] /\ y = W[e[2]]
       /\ \A x, b : <<"PRODUCES", x, b>> \in E <=> \E i \in new : x = W[Maker(i)] /\ b = A[i]
       /\ \A x, b : <<"CONSUMES", b, x>> \in E <=> \E i \in specs : b = A[i] /\ x \in Consumers(i)
  <2>1. \A x, y : /\ <<"PRECEDES", x, y>> \in EP <=> \E e \in f.control : x = W[e[1]] /\ y = W[e[2]]
                  /\ <<"PRECEDES", x, y>> \notin ED /\ <<"PRECEDES", x, y>> \notin EC
    OBVIOUS
  <2>2. \A x, b : /\ <<"PRODUCES", x, b>> \in ED <=> \E i \in new : x = W[Maker(i)] /\ b = A[i]
                  /\ <<"PRODUCES", x, b>> \notin EP /\ <<"PRODUCES", x, b>> \notin EC
    OBVIOUS
  <2>3. \A x, b : /\ <<"CONSUMES", b, x>> \in EC <=> \E i \in specs : b = A[i] /\ x \in Consumers(i)
                  /\ <<"CONSUMES", b, x>> \notin EP /\ <<"CONSUMES", b, x>> \notin ED
    OBVIOUS
  <2> HIDE DEF EP, ED, EC, Consumers, Maker
  <2>4. \A z : z \in E <=> z \in EP \/ z \in ED \/ z \in EC
    OBVIOUS
  <2> HIDE DEF E
  <2>5. ASSUME NEW x, NEW y
        PROVE  <<"PRECEDES", x, y>> \in E <=> \E e \in f.control : x = W[e[1]] /\ y = W[e[2]]
    <3>1. <<"PRECEDES", x, y>> \in E <=> <<"PRECEDES", x, y>> \in EP
      BY <2>1, <2>4
    <3>2. QED
      BY <2>1, <3>1
  <2>6. ASSUME NEW x, NEW b
        PROVE  <<"PRODUCES", x, b>> \in E <=> \E i \in new : x = W[Maker(i)] /\ b = A[i]
    <3>1. <<"PRODUCES", x, b>> \in E <=> <<"PRODUCES", x, b>> \in ED
      BY <2>2, <2>4
    <3>2. QED
      BY <2>2, <3>1
  <2>7. \A x, b : <<"CONSUMES", b, x>> \in E <=> \E i \in specs : b = A[i] /\ x \in Consumers(i)
    BY Zenon, <2>3, <2>4
  <2>8. QED
    BY <2>5, <2>6, <2>7
<1>23. edges' = edges \cup E
  BY <1>4
<1> HIDE DEF EP, ED, EC, E
<1>24. \A v \in WorkId : /\ work'[v].agent = agent(v) /\ work'[v].preds = preds(v)
                         /\ work'[v].inputs = inputs(v) /\ work'[v].outs = outs(v) /\ work'[v].tasks = tasks(v)
  <2> HIDE DEF agent, preds, inputs, outs, tasks
  <2>1. QED
    BY <1>4
<1>25. /\ \A b \in as : art'[b] = asked(Of(b)) /\ Of(b) \in new /\ n[Of(b)] = b
       /\ \A b \in ArtId \ as : art'[b] = Joined(inv[b], Joining(b), {x \in {t} : \E i \in specs : A[i] = b})
  <2>1. ASSUME NEW b \in as
        PROVE  art'[b] = asked(Of(b)) /\ Of(b) \in new /\ n[Of(b)] = b
    <3>1. \E i \in new : n[i] = b
      OBVIOUS
    <3>2. b \in ArtId
      BY <1>19
    <3> HIDE DEF as, asked, Joining
    <3>3. Of(b) \in new /\ n[Of(b)] = b
      BY <3>1
    <3> HIDE DEF Of
    <3>4. QED
      BY <1>4, <3>1, <3>2, <3>3
  <2>2. ASSUME NEW b \in ArtId \ as
        PROVE  art'[b] = Joined(inv[b], Joining(b), {x \in {t} : \E i \in specs : A[i] = b})
    <3>1. ~\E i \in new : n[i] = b
      OBVIOUS
    <3> HIDE DEF as, asked, Joining, Of
    <3>2. QED
      BY <1>4, <3>1
  <2>3. QED
    BY <2>1, <2>2
<1>26. \A b \in as : /\ art'[b].state = "FUTURE" /\ art'[b].producer = W[Maker(Of(b))]
                     /\ art'[b].key = keys[Of(b)] /\ art'[b].consumers = Consumers(Of(b)) /\ art'[b].tasks = {t}
  <2>1. \A i : /\ asked(i).state = "FUTURE" /\ asked(i).producer = W[Maker(i)]
               /\ asked(i).key = keys[i] /\ asked(i).consumers = Consumers(i) /\ asked(i).tasks = {t}
    BY DEF NoArtifact
  <2> SUFFICES ASSUME NEW b \in as
               PROVE  /\ art'[b].state = "FUTURE" /\ art'[b].producer = W[Maker(Of(b))]
                      /\ art'[b].key = keys[Of(b)] /\ art'[b].consumers = Consumers(Of(b)) /\ art'[b].tasks = {t}
    OBVIOUS
  <2> DEFINE j == Of(b)
  <2>2. art'[b] = asked(j)
    BY <1>25
  <2> HIDE DEF asked, j, Consumers, Maker
  <2>3. /\ art'[b].state = "FUTURE" /\ art'[b].producer = W[Maker(j)]
        /\ art'[b].key = keys[j] /\ art'[b].consumers = Consumers(j) /\ art'[b].tasks = {t}
    BY <2>1, <2>2
  <2>4. QED
    BY <2>3 DEF j
<1>27. \A b \in ArtId \ as : /\ art'[b].state = "ABSENT" <=> art[b].state = "ABSENT"
                             /\ art'[b].producer = art[b].producer /\ art'[b].key = art[b].key
                             /\ art'[b].consumers = art[b].consumers \cup Joining(b)
                             /\ art'[b].tasks = art[b].tasks \cup {x \in {t} : \E i \in specs : A[i] = b}
  <2> SUFFICES ASSUME NEW b \in ArtId \ as
               PROVE  /\ art'[b].state = "ABSENT" <=> art[b].state = "ABSENT"
                      /\ art'[b].producer = art[b].producer /\ art'[b].key = art[b].key
                      /\ art'[b].consumers = art[b].consumers \cup Joining(b)
                      /\ art'[b].tasks = art[b].tasks \cup {x \in {t} : \E i \in specs : A[i] = b}
    OBVIOUS
  <2> DEFINE C == Joining(b)
             T == {x \in {t} : \E i \in specs : A[i] = b}
  <2>1. art'[b] = Joined(inv[b], C, T) /\ art[b] \in ArtRecord
    BY <1>5, <1>25
  <2>2. inv[b] = IF b \in stale THEN [art[b] EXCEPT !.state = "INVALIDATED"] ELSE art[b]
    BY DEF inv, Invalidated
  <2>3. b \in stale => art[b].state = "CONCRETE"
    BY <1>12
  <2> HIDE DEF C, T
  <2>4. /\ inv[b] \in ArtRecord /\ inv[b].producer = art[b].producer /\ inv[b].key = art[b].key
        /\ inv[b].consumers = art[b].consumers /\ inv[b].tasks = art[b].tasks
        /\ inv[b].state = "ABSENT" <=> art[b].state = "ABSENT"
    BY <2>1, <2>2, <2>3 DEF ArtRecord, ArtifactState
  <2>5. /\ Joined(inv[b], C, T).producer = inv[b].producer /\ Joined(inv[b], C, T).key = inv[b].key
        /\ Joined(inv[b], C, T).state = inv[b].state
        /\ Joined(inv[b], C, T).consumers = inv[b].consumers \cup C
        /\ Joined(inv[b], C, T).tasks = inv[b].tasks \cup T
    BY <2>4 DEF Joined, ArtRecord
  <2>6. QED
    BY <2>1, <2>4, <2>5 DEF C, T
<1>28. \A v \in WorkId : IF v \in ws THEN status'[v] \in Open ELSE Kept(v)
  <2> HIDE DEF ws
  <2>1. mid \in [WorkId -> WorkStatus] /\ \A v \in WorkId : mid[v] = IF v \in ws THEN "BLOCKED" ELSE status[v]
    BY <1>5 DEF mid, WorkStatus
  <2>2. \A v \in WorkId : IF mid[v] \in Open THEN status'[v] \in Open ELSE status'[v] = mid[v]
    <3>1. status' = SettledWork(mid, work', art')
      BY <1>4
    <3>2. QED
      BY <2>1, <3>1, SettledWorkType DEF Open
  <2>3. QED
    BY <2>1, <2>2 DEF Kept, Open
\* Membership in the sets of a node, after the submission
<1>29. /\ \A v \in WorkId : \A q : q \in work'[v].preds <=>
            q \in work[v].preds \/ \E e \in f.control : q = W[e[1]] /\ v = W[e[2]]
       /\ \A v \in WorkId : \A b : b \in work'[v].outs <=>
            b \in work[v].outs \/ \E i \in new : v = W[Maker(i)] /\ b = A[i]
       /\ \A v \in WorkId : \A r : r \in work'[v].inputs <=>
            r \in work[v].inputs
            \/ \E i \in specs : v \in Consumers(i) /\ r = [art |-> A[i], maxAge |-> f.artifacts[i].maxAge]
  <2> HIDE DEF Consumers
  <2>1. \A v, q : q \in preds(v) <=> q \in work[v].preds \/ \E e \in f.control : q = W[e[1]] /\ v = W[e[2]]
    OBVIOUS
  <2>2. \A v, b : b \in outs(v) <=> b \in work[v].outs \/ \E i \in new : v = W[Maker(i)] /\ b = A[i]
    OBVIOUS
  <2>3. \A v, r : r \in inputs(v) <=>
            r \in work[v].inputs
            \/ \E i \in specs : v \in Consumers(i) /\ r = [art |-> A[i], maxAge |-> f.artifacts[i].maxAge]
    OBVIOUS
  <2> HIDE DEF preds, outs, inputs, Maker
  <2>4. \A v \in WorkId : work'[v].preds = preds(v) /\ work'[v].outs = outs(v) /\ work'[v].inputs = inputs(v)
    BY <1>24
  <2>5. \A v \in WorkId : \A q : q \in work'[v].preds <=>
            q \in work[v].preds \/ \E e \in f.control : q = W[e[1]] /\ v = W[e[2]]
    BY <2>1, <2>4
  <2>6. \A v \in WorkId : \A b : b \in work'[v].outs <=>
            b \in work[v].outs \/ \E i \in new : v = W[Maker(i)] /\ b = A[i]
    BY <2>2, <2>4
  <2>7. \A v \in WorkId : \A r : r \in work'[v].inputs <=>
            r \in work[v].inputs
            \/ \E i \in specs : v \in Consumers(i) /\ r = [art |-> A[i], maxAge |-> f.artifacts[i].maxAge]
    BY <2>3, <2>4
  <2>8. QED
    BY <2>5, <2>6, <2>7
<1>30. \A v \in WorkId : /\ (\E l \in locals : W[l] = v) => work'[v].tasks = work[v].tasks \cup {t}
                         /\ (~\E l \in locals : W[l] = v) => work'[v].tasks = work[v].tasks
  <2>1. \A v : /\ (\E l \in locals : W[l] = v) => tasks(v) = work[v].tasks \cup {t}
               /\ (~\E l \in locals : W[l] = v) => tasks(v) = work[v].tasks
    BY <1>7
  <2> HIDE DEF tasks
  <2>2. QED
    BY <1>24, <2>1
<1>31. \A v \in WorkId : work'[v].agent = IF v \in ws THEN f.work[CHOOSE l \in fresh : m[l] = v] ELSE work[v].agent
  BY <1>24
<1> HIDE DEF agent, preds, inputs, outs, tasks, asked
<1>32. \A v \in WorkId, b \in ArtId :
         v \in art'[b].consumers <=> v \in art[b].consumers \/ \E i \in specs : b = A[i] /\ v \in Consumers(i)
  <2> SUFFICES ASSUME NEW v \in WorkId, NEW b \in ArtId
               PROVE  v \in art'[b].consumers <=>
                        v \in art[b].consumers \/ \E i \in specs : b = A[i] /\ v \in Consumers(i)
    OBVIOUS
  <2>1. CASE b \in as
    <3> DEFINE j == Of(b)
    <3>1. j \in new /\ n[j] = b /\ art'[b].consumers = Consumers(j)
      BY <1>25, <1>26, <2>1
    <3>2. art[b].consumers = {}
      BY <1>19, <2>1 DEF NoArtifact
    <3>3. b \in nextArt .. lastArt
      BY <1>6, <2>1
    <3> HIDE DEF j, Consumers, as
    <3>4. ASSUME NEW i \in specs, A[i] = b PROVE i = j
      <4>1. i \notin hits
        <5> SUFFICES ASSUME i \in hits PROVE FALSE
          OBVIOUS
        <5>1. Known(A[i]) /\ ~Known(b)
          BY <1>10, <1>19, <2>1
        <5>2. QED
          BY <3>4, <5>1
      <4>2. i \in new /\ n[i] = b
        BY <1>15, <1>17, <3>4, <4>1
      <4>3. QED
        BY <1>16, <3>1, <4>2
    <3>5. j \in specs /\ A[j] = b
      BY <1>14, <1>17, <3>1
    <3>6. QED
      BY <3>1, <3>2, <3>4, <3>5
  <2>2. CASE b \notin as
    <3>1. art'[b].consumers = art[b].consumers \cup Joining(b)
      BY <1>27, <2>2
    <3>2. v \in Joining(b) <=> \E i \in specs : b = A[i] /\ v \in Consumers(i)
      <4> HIDE DEF Consumers
      <4>1. QED
        OBVIOUS
    <3> HIDE DEF Joining, Consumers
    <3>3. QED
      BY <3>1, <3>2
  <2>3. QED
    BY <2>1, <2>2
<1> HIDE DEF Joining, Of, Maker
<1>33. AddsMentions(E)
  <2>1. ASSUME NEW v \in WorkId
        PROVE  /\ work'[v].preds = work[v].preds \cup {q \in WorkId : <<"PRECEDES", q, v>> \in E}
               /\ work[v].inputs \subseteq work'[v].inputs
    <3> HIDE DEF Consumers
    <3>1. work'[v].preds \subseteq WorkId /\ work[v].preds \subseteq WorkId
      BY <1>5 DEF WorkRecord, CInv, TInv, TypeOK
    <3>2. \A q \in WorkId : q \in work'[v].preds <=> q \in work[v].preds \/ <<"PRECEDES", q, v>> \in E
      BY <1>22, <1>29
    <3>3. \A r : r \in work[v].inputs => r \in work'[v].inputs
      BY <1>29
    <3>4. QED
      BY <3>1, <3>2, <3>3
  <2>2. ASSUME NEW v \in WorkId
        PROVE  Asks(v)' = Asks(v) \cup {b \in ArtId : <<"CONSUMES", b, v>> \in E}
    <3> HIDE DEF Consumers
    <3>1. \A b : b \in {x \in ArtId : <<"CONSUMES", x, v>> \in E} <=> \E i \in specs : b = A[i] /\ v \in Consumers(i)
      BY <1>6, <1>22
    <3>2. \A b : b \in {r.art : r \in work'[v].inputs} <=>
                   b \in {r.art : r \in work[v].inputs} \/ \E i \in specs : b = A[i] /\ v \in Consumers(i)
      <4>1. ASSUME NEW b, b \in {r.art : r \in work'[v].inputs}
            PROVE  b \in {r.art : r \in work[v].inputs} \/ \E i \in specs : b = A[i] /\ v \in Consumers(i)
        <5>1. PICK r \in work'[v].inputs : b = r.art
          BY <4>1
        <5>2. QED
          BY <1>29, <5>1
      <4>2. ASSUME NEW i \in specs, v \in Consumers(i)
            PROVE  A[i] \in {r.art : r \in work'[v].inputs}
        <5> DEFINE r == [art |-> A[i], maxAge |-> f.artifacts[i].maxAge]
        <5>1. r \in work'[v].inputs
          BY <1>29, <4>2
        <5>2. r.art = A[i]
          OBVIOUS
        <5> HIDE DEF r
        <5>3. QED
          BY <5>1, <5>2
      <4>3. ASSUME NEW r \in work[v].inputs PROVE r.art \in {x.art : x \in work'[v].inputs}
        BY <2>1
      <4>4. QED
        BY <4>1, <4>2, <4>3
    <3>3. \A b : b \in Asks(v)' <=> b \in {r.art : r \in work'[v].inputs}
      BY DEF Asks
    <3>4. \A b : b \in Asks(v) <=> b \in {r.art : r \in work[v].inputs}
      BY DEF Asks
    <3>5. QED
      BY <3>1, <3>2, <3>3, <3>4
  <2>3. ASSUME NEW v \in WorkId, NEW b \in ArtId
        PROVE  /\ b \in work'[v].outs <=> b \in work[v].outs \/ <<"PRODUCES", v, b>> \in E
               /\ v \in art'[b].consumers <=> v \in art[b].consumers \/ <<"CONSUMES", b, v>> \in E
    <3> HIDE DEF Consumers
    <3>1. <<"PRODUCES", v, b>> \in E <=> \E i \in new : v = W[Maker(i)] /\ b = A[i]
      BY <1>22
    <3>2. <<"CONSUMES", b, v>> \in E <=> \E i \in specs : b = A[i] /\ v \in Consumers(i)
      BY <1>22
    <3>3. QED
      BY <1>29, <1>32, <3>1, <3>2
  <2>4. QED
    BY <2>1, <2>2, <2>3 DEF AddsMentions
<1>34. AddsNodes(ws, as)
  <2>1. ASSUME NEW v \in WorkId
        PROVE  /\ Made(v)' <=> Made(v) \/ v \in ws
               /\ v \in ws => ~Made(v) /\ work'[v].agent \in Agent
               /\ v \notin ws => work'[v].agent = work[v].agent
               /\ ~Made(v)' => work'[v] = work[v]
    <3>1. Made(v)' <=> Made(v) \/ v \in ws
      BY <1>28 DEF Made, Open, Kept
    <3>2. v \in ws => work'[v].agent \in Agent
      <4> SUFFICES ASSUME v \in ws PROVE work'[v].agent \in Agent
        OBVIOUS
      <4>1. work'[v].agent = f.work[CHOOSE l \in fresh : m[l] = v]
        BY <1>31
      <4>2. \E l \in fresh : m[l] = v
        OBVIOUS
      <4> HIDE DEF ws
      <4>3. QED
        BY <1>6, <1>7, <4>1, <4>2
    <3>3. v \notin ws => work'[v].agent = work[v].agent
      BY <1>31
    <3>4. ASSUME ~Made(v)' PROVE work'[v] = work[v]
      <4> HIDE DEF ws, as, Consumers
      <4>1. v \notin ws /\ ~\E l \in locals : W[l] = v
        BY <1>20, <3>1, <3>4
      <4>2. /\ ~\E e \in f.control : v = W[e[2]]
            /\ ~\E i \in new : v = W[Maker(i)]
            /\ ~\E i \in specs : v \in Consumers(i)
        BY <1>17, <1>18, <1>21, <4>1
      <4>7. work[v] \in WorkRecord /\ work'[v] \in WorkRecord
        BY <1>5 DEF CInv, TInv, TypeOK
      <4>3. work'[v].preds = work[v].preds
        <5>1. \A q : q \in work'[v].preds <=> q \in work[v].preds
          BY <1>29, <4>2
        <5>2. QED
          BY <4>7, <5>1 DEF WorkRecord
      <4>4. work'[v].inputs = work[v].inputs
        <5>1. \A q : q \in work'[v].inputs <=> q \in work[v].inputs
          BY <1>29, <4>2
        <5>2. QED
          BY <4>7, <5>1 DEF WorkRecord
      <4>5. work'[v].outs = work[v].outs
        <5>1. \A q : q \in work'[v].outs <=> q \in work[v].outs
          BY <1>29, <4>2
        <5>2. QED
          BY <4>7, <5>1 DEF WorkRecord
      <4>6. work'[v].tasks = work[v].tasks /\ work'[v].agent = work[v].agent
        BY <1>30, <3>3, <4>1
      <4>8. QED
        BY <4>3, <4>4, <4>5, <4>6, <4>7, SameWork
    <3>5. QED
      BY <1>19, <3>1, <3>2, <3>3, <3>4
  <2>2. ASSUME NEW b \in ArtId
        PROVE  /\ Known(b)' <=> Known(b) \/ b \in as
               /\ b \in as => ~Known(b)
               /\ b \notin as => art'[b].producer = art[b].producer /\ art'[b].key = art[b].key
               /\ ~Known(b)' => art'[b] = art[b]
    <3> HIDE DEF ws, as, Consumers
    <3>1. Known(b)' <=> Known(b) \/ b \in as
      BY <1>26, <1>27 DEF Known
    <3>2. ASSUME ~Known(b)' PROVE art'[b] = art[b]
      <4>1. b \notin as /\ art[b].state = "ABSENT"
        BY <3>1, <3>2 DEF Known
      <4>2. ~\E i \in specs : A[i] = b
        <5> SUFFICES ASSUME NEW i \in specs, A[i] = b PROVE FALSE
          OBVIOUS
        <5>1. i \notin hits
          BY <1>10, <4>1 DEF Known
        <5>2. i \notin new
          BY <1>17, <4>1
        <5>3. QED
          BY <1>15, <5>1, <5>2
      <4>3. art'[b].consumers = art[b].consumers /\ art'[b].tasks = art[b].tasks
        <5>1. \A x : x \notin Joining(b)
          BY <4>2 DEF Joining
        <5>2. {x \in {t} : \E i \in specs : A[i] = b} = {}
          BY <4>2
        <5>3. Joining(b) = {}
          BY <5>1
        <5>4. /\ art'[b].consumers = art[b].consumers \cup Joining(b)
              /\ art'[b].tasks = art[b].tasks \cup {x \in {t} : \E i \in specs : A[i] = b}
          BY <1>27, <4>1
        <5>5. QED
          BY <5>2, <5>3, <5>4
      <4>4. b \notin stale
        BY <1>12, <4>1
      <4>5. art'[b] = Joined(inv[b], Joining(b), {x \in {t} : \E i \in specs : A[i] = b})
        BY <1>25, <4>1
      <4>6. inv[b] = art[b] /\ art[b] \in ArtRecord
        BY <1>5, <4>4 DEF inv, Invalidated
      <4>7. \A C, T : LET r == Joined(art[b], C, T)
                      IN  /\ r.observedAt = art[b].observedAt /\ r.validFrom = art[b].validFrom
                          /\ r.validUntil = art[b].validUntil /\ r.state = art[b].state
        BY <4>6 DEF Joined, ArtRecord
      <4>8. art'[b].observedAt = art[b].observedAt /\ art'[b].validFrom = art[b].validFrom
            /\ art'[b].validUntil = art[b].validUntil /\ art'[b].state = art[b].state
        BY Zenon, <4>5, <4>6, <4>7
      <4>9. art'[b] \in ArtRecord
        BY DEF CInv, TInv, TypeOK
      <4>10. QED
        <5>1. art'[b].producer = art[b].producer /\ art'[b].key = art[b].key
          BY <1>27, <4>1
        <5>2. QED
          BY <4>3, <4>6, <4>8, <4>9, <5>1, SameArtifact
    <3>3. QED
      BY <1>19, <1>27, <3>1, <3>2
  <2>3. QED
    BY <1>19, <2>1, <2>2 DEF AddsNodes
<1>35. AddsEdges(t, ws, as, E)
  <2> HIDE DEF ws, as, Consumers
  <2>1. ASSUME NEW q \in WorkId, NEW v \in WorkId, <<"PRECEDES", q, v>> \in E
        PROVE  q \in ws /\ v \in ws /\ \A b \in ArtId : <<"PRODUCES", v, b>> \notin E
    <3>1. PICK e \in f.control : q = W[e[1]] /\ v = W[e[2]]
      BY <1>22, <2>1
    <3>2. q \in ws /\ v \in ws
      BY <1>18, <3>1
    <3>3. ASSUME NEW b \in ArtId, <<"PRODUCES", v, b>> \in E PROVE FALSE
      <4>1. PICK i \in new : v = W[Maker(i)]
        BY <1>22, <3>3
      <4>2. e[2] \in fresh /\ Maker(i) \in fresh
        BY <1>17, <1>18
      <4>3. m[e[2]] = m[Maker(i)]
        BY <1>9, <3>1, <4>1, <4>2
      <4>4. e[2] = Maker(i)
        BY <1>9, <4>2, <4>3
      <4>5. QED
        BY <1>8, <1>14, <4>4
    <3>4. QED
      BY <3>2, <3>3
  <2>2. ASSUME NEW v \in WorkId, NEW b \in ArtId, <<"PRODUCES", v, b>> \in E
        PROVE  v \in ws /\ b \in as
    <3>1. PICK i \in new : v = W[Maker(i)] /\ b = A[i]
      BY <1>22, <2>2
    <3>2. QED
      BY <1>17, <3>1
  <2>3. ASSUME NEW v \in WorkId, NEW b \in ArtId, <<"CONSUMES", b, v>> \in E
        PROVE  Made(v)' /\ (b \in as \/ Shares(t, b))
    <3>1. PICK i \in specs : b = A[i] /\ v \in Consumers(i)
      BY <1>22, <2>3
    <3>2. v \in ws \/ Made(v)
      BY <1>20, <1>21, <3>1
    <3>3. Made(v)'
      BY <1>34, <3>2 DEF AddsNodes
    <3>4. i \in new => b \in as
      BY <1>17, <3>1
    <3>5. ASSUME i \in hits PROVE Shares(t, b)
      <4>1. /\ keys[i] \in Key /\ art[b].key = keys[i]
            /\ Known(b) /\ keys[i][2] \in {None, t}
        BY <1>10, <3>1, <3>5
      <4>2. QED
        BY <4>1 DEF Shares
    <3>6. QED
      BY <1>15, <3>3, <3>4, <3>5
  <2>4. QED
    BY <1>23, <2>1, <2>2, <2>3 DEF AddsEdges
<1>36. \A l \in locals : Serves(t, ws, W[l])
  <2> SUFFICES ASSUME NEW l \in locals, l \notin fresh PROVE Serves(t, ws, W[l])
    BY <1>9 DEF Serves
  <2> HIDE DEF ws
  <2>1. PICK i \in hits : Maker(i) = l /\ W[l] = art[A[i]].producer
    BY <1>11
  <2>2. /\ keys[i] \in Key /\ art[A[i]].key = keys[i]
        /\ Known(A[i]) /\ keys[i][2] \in {None, t}
    BY <1>10
  <2>3. A[i] \in ArtId
    BY <1>6, <1>9
  <2>4. Shares(t, A[i])
    BY <2>2, <2>3 DEF Shares
  <2>5. QED
    BY <2>1, <2>3, <2>4 DEF Serves
<1>37. \A u \in Task : IF u = t
                       THEN /\ task'[u].terminals = Terminals(f, W, edges')
                            /\ task'[u].work = {W[l] : l \in locals} /\ task'[u].arts = {A[i] : i \in specs}
                       ELSE /\ task'[u].terminals = task[u].terminals
                            /\ task'[u].work = task[u].work /\ task'[u].arts = task[u].arts
  <2> DEFINE ends == Terminals(f, W, edges')
             its == {W[l] : l \in DOMAIN W}
             arts == {A[i] : i \in specs}
  <2>1. task' = SettledTasks(tk, status')
    BY <1>4
  <2>2. tk = [task EXCEPT ![t] = [status |-> "ACTIVE", terminals |-> ends, work |-> its, arts |-> arts]]
    BY DEF tk
  <2>3. its = {W[l] : l \in locals}
    BY <1>7
  <2> HIDE DEF ends, its, arts
  <2>4. \A u \in Task : IF u = t THEN tk[u] = [status |-> "ACTIVE", terminals |-> ends, work |-> its, arts |-> arts]
                        ELSE tk[u] = task[u]
    BY <1>5, <2>2
  <2>5. ASSUME NEW u \in Task
        PROVE  task'[u] = tk[u] \/ task'[u] = [tk[u] EXCEPT !.status = TaskVerdict(tk[u].terminals, status')]
    BY <2>1 DEF SettledTasks
  <2>6. \A u \in Task : LET r == [tk[u] EXCEPT !.status = TaskVerdict(tk[u].terminals, status')]
                        IN  r.terminals = tk[u].terminals /\ r.work = tk[u].work /\ r.arts = tk[u].arts
    BY <1>5, <2>4 DEF TaskRecord
  <2>7. ASSUME NEW u \in Task
        PROVE  /\ task'[u].terminals = tk[u].terminals
               /\ task'[u].work = tk[u].work /\ task'[u].arts = tk[u].arts
    BY <2>5, <2>6
  <2>8. ASSUME NEW u \in Task
        PROVE  IF u = t THEN task'[u].terminals = ends /\ task'[u].work = its /\ task'[u].arts = arts
               ELSE /\ task'[u].terminals = task[u].terminals
                    /\ task'[u].work = task[u].work /\ task'[u].arts = task[u].arts
    BY <2>4, <2>7
  <2>9. QED
    BY <2>3, <2>8 DEF ends, arts
<1>38. \A i \in hits : Shares(t, A[i])
  <2> SUFFICES ASSUME NEW i \in hits PROVE Shares(t, A[i])
    OBVIOUS
  <2>1. /\ keys[i] \in Key /\ art[A[i]].key = keys[i]
        /\ Known(A[i]) /\ keys[i][2] \in {None, t}
    BY <1>10
  <2>2. A[i] \in ArtId
    BY <1>6, <1>9
  <2>3. QED
    BY <2>1, <2>2 DEF Shares
<1>39. AddsTasks(t, ws, as, E)
  <2>1. ASSUME NEW v \in WorkId
        PROVE  IF v \in ws THEN work'[v].tasks = {t}
               ELSE work'[v].tasks = work[v].tasks
                    \/ (work'[v].tasks = work[v].tasks \cup {t} /\ Serves(t, ws, v))
    <3>1. v \in ws => \E l \in locals : W[l] = v
      BY <1>7, <1>9
    <3>2. v \in ws => work[v].tasks = {}
      BY <1>19 DEF NoWork
    <3> HIDE DEF ws
    <3>3. QED
      BY <1>30, <1>36, <3>1, <3>2
  <2>2. ASSUME NEW b \in ArtId
        PROVE  IF b \in as THEN art'[b].tasks = {t} /\ (art'[b].key # None => art'[b].key[2] \in {None, t})
               ELSE art'[b].tasks = art[b].tasks \/ (art'[b].tasks = art[b].tasks \cup {t} /\ Shares(t, b))
    <3> HIDE DEF as, ws
    <3>1. CASE b \in as
      BY <1>13, <1>25, <1>26, <3>1
    <3>2. CASE b \notin as
      <4>1. art'[b].tasks = art[b].tasks \cup {x \in {t} : \E i \in specs : A[i] = b}
        BY <1>27, <3>2
      <4>2. ASSUME NEW i \in specs, A[i] = b PROVE Shares(t, b)
        BY <1>15, <1>17, <1>38, <3>2, <4>2
      <4>3. (~\E i \in specs : A[i] = b) => {x \in {t} : \E i \in specs : A[i] = b} = {}
        OBVIOUS
      <4>4. (\E i \in specs : A[i] = b) => {x \in {t} : \E i \in specs : A[i] = b} = {t}
        OBVIOUS
      <4>5. QED
        BY <3>2, <4>1, <4>2, <4>3, <4>4
    <3>3. QED
      BY <3>1, <3>2
  <2>3. ASSUME NEW v \in WorkId, NEW b \in as, NEW d \in as, <<"PRODUCES", v, b>> \in E, <<"PRODUCES", v, d>> \in E
        PROVE  b = d
    <3> HIDE DEF as, ws
    <3>1. PICK i \in new : v = W[Maker(i)] /\ b = A[i]
      BY <1>22, <2>3
    <3>2. PICK j \in new : v = W[Maker(j)] /\ d = A[j]
      BY <1>22, <2>3
    <3>3. Maker(i) \in fresh /\ Maker(j) \in fresh
      BY <1>17
    <3>4. m[Maker(i)] = m[Maker(j)]
      BY <1>9, <3>1, <3>2, <3>3
    <3>5. Maker(i) = Maker(j)
      BY <1>9, <3>3, <3>4
    <3>6. QED
      BY <1>8, <1>14, <3>1, <3>2, <3>5
  <2> HIDE DEF ws, as
  <2>4. \A l \in locals : t \in work'[W[l]].tasks /\ Serves(t, ws, W[l]) /\ status'[W[l]] # "ABSENT"
    <3> SUFFICES ASSUME NEW l \in locals
                 PROVE  t \in work'[W[l]].tasks /\ Serves(t, ws, W[l]) /\ status'[W[l]] # "ABSENT"
      OBVIOUS
    <3>1. W[l] \in WorkId /\ (W[l] \in ws \/ Made(W[l]))
      BY <1>20
    <3>2. t \in work'[W[l]].tasks
      BY <1>30, <3>1
    <3>3. status'[W[l]] # "ABSENT"
      BY <1>34, <3>1 DEF AddsNodes, Made
    <3>4. QED
      BY <1>36, <3>2, <3>3
  <2>5. \A i \in specs : A[i] \in ArtId /\ art'[A[i]].state # "ABSENT"
    <3> SUFFICES ASSUME NEW i \in specs PROVE A[i] \in ArtId /\ art'[A[i]].state # "ABSENT"
      OBVIOUS
    <3>1. A[i] \in ArtId /\ (A[i] \in as \/ Known(A[i]))
      BY <1>6, <1>10, <1>15, <1>17
    <3>2. QED
      BY <1>34, <3>1 DEF AddsNodes, Known
  <2>6. \A v \in Terminals(f, W, edges') : \E l \in locals : v = W[l]
    <3>1. f.terminals \subseteq locals
      BY <1>3, Zenon DEF ValidFragment, locals
    <3>2. QED
      BY <1>7, <3>1 DEF Terminals
  <2>7. /\ task'[t].terminals = Terminals(f, W, edges')
        /\ task'[t].work = {W[l] : l \in locals} /\ task'[t].arts = {A[i] : i \in specs}
    BY <1>37
  <2>8. \A v \in task'[t].terminals : t \in work'[v].tasks /\ Serves(t, ws, v)
    BY <2>4, <2>6, <2>7
  <2>9. \A v \in task'[t].terminals \cup task'[t].work : Made(v)'
    BY <2>4, <2>6, <2>7 DEF Made
  <2>10. \A b \in task'[t].arts : Known(b)'
    BY <2>5, <2>7 DEF Known
  <2>11. \A u \in Task \ {t} : /\ task'[u].terminals = task[u].terminals
                               /\ task'[u].work = task[u].work /\ task'[u].arts = task[u].arts
    BY <1>37
  <2>12. QED
    BY <2>1, <2>2, <2>3, <2>8, <2>9, <2>10, <2>11 DEF AddsTasks
<1>40. HandsKept
  <2> HIDE DEF ws
  <2>1. \A v \in WorkId : v \in ws => status[v] = "ABSENT"
    BY <1>19 DEF Made
  <2>2. asg' = asg /\ outcome' = outcome
    BY <1>4
  <2>3. QED
    BY <1>28, <2>1, <2>2 DEF HandsKept, Kept, Open
<1> HIDE DEF ws, as
<1>41. Adds(t, ws, as, E)
  BY <1>3, <1>33, <1>34, <1>35, <1>39, <1>40 DEF Adds
<1>42. QED
  BY <1>41

=============================================================================
