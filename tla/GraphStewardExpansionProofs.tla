--------------------- MODULE GraphStewardExpansionProofs ---------------------
(***************************************************************************)
(* Proofs about expand_work, the one operation that changes edges that are *)
(* already there, and the theorems about the shape of the graph.           *)
(*                                                                         *)
(* An expansion of WORK w inserts a continuation c behind it: what waited  *)
(* for w by control now waits for c, c waits for w and consumes two        *)
(* artifacts, the checkpoint q of w and the requested artifact a of        *)
(* provider p.  new says that a and p are created with c; otherwise the    *)
(* index knows a already, and p may be any producer in the graph.  The     *)
(* code does not look for a cycle; that there is none follows from         *)
(* Layered: no control edge leads back to a provider of an indexed         *)
(* artifact.                                                               *)
(***************************************************************************)
EXTENDS GraphStewardStructureProofs

-----------------------------------------------------------------------------
(* The effect of an expansion.                                             *)

ExpandsNodes(w, c, q, p, a, new) ==
  /\ w \in WorkId /\ c \in WorkId /\ p \in WorkId /\ q \in ArtId /\ a \in ArtId
  /\ Made(w) /\ ~Made(c) /\ ~Known(q) /\ c # p /\ q # a
  /\ IF new THEN ~Made(p) /\ ~Known(a)
     ELSE Made(p) /\ Known(a) /\ art[a].producer = p /\ art[a].key # None
  /\ \A v \in WorkId : /\ Made(v)' <=> Made(v) \/ v \in {c, p}
                       /\ ~Made(v)' => work'[v] = work[v]
                       /\ v \in {c, p} => work'[v].agent \in Agent
                       /\ v \notin {c, p} => work'[v].agent = work[v].agent
  /\ \A b \in ArtId : /\ Known(b)' <=> Known(b) \/ b \in {q, a}
                      /\ ~Known(b)' => art'[b] = art[b]

\* Control that led out of w now leads out of c, and w leads to c.
ExpandsEdges(w, c, q, p, a) ==
  /\ \A x, y \in WorkId : <<"PRECEDES", x, y>> \in edges' <=>
       \/ x = w /\ y = c
       \/ x = c /\ <<"PRECEDES", w, y>> \in edges
       \/ x # w /\ <<"PRECEDES", x, y>> \in edges
  /\ \A x \in WorkId, b \in ArtId :
       /\ <<"PRODUCES", x, b>> \in edges' <=> <<"PRODUCES", x, b>> \in edges \/ <<x, b>> \in {<<w, q>>, <<p, a>>}
       /\ <<"CONSUMES", b, x>> \in edges' <=> <<"CONSUMES", b, x>> \in edges \/ (x = c /\ b \in {q, a})

\* The nodes say the same.
ExpandsMentions(w, c, q, p, a) ==
  /\ \A v \in WorkId :
       /\ work'[v].preds = IF v = c THEN {w} ELSE Replace(work[v].preds, w, c)
       /\ \A b \in ArtId : b \in work'[v].outs <=> b \in work[v].outs \/ <<v, b>> \in {<<w, q>>, <<p, a>>}
       /\ Asks(v)' = Asks(v) \cup (IF v = c THEN {q, a} ELSE {})
       /\ work[v].inputs \subseteq work'[v].inputs
  /\ \A b \in ArtId : \A x \in WorkId :
       x \in art'[b].consumers <=> x \in art[b].consumers \/ (x = c /\ b \in {q, a})

\* The new nodes are of the tasks of w, which also join the artifact that was found.
ExpandsTasks(w, c, q, p, a, new) ==
  LET ts == work[w].tasks
  IN
  /\ \A v \in WorkId : work'[v].tasks = IF v = c \/ (new /\ v = p) THEN ts ELSE work[v].tasks
  /\ \A b \in ArtId : b \notin {q, a} => /\ art'[b].producer = art[b].producer
                                         /\ art'[b].key = art[b].key /\ art'[b].tasks = art[b].tasks
  /\ art'[q].producer = w /\ art'[q].key = None
  /\ art'[a].producer = p /\ art'[a].tasks = art[a].tasks \cup ts
  /\ ~new => art'[a].key = art[a].key
  /\ art'[a].key # None => art'[a].key[2] = None \/ ts = {art'[a].key[2]}
  /\ \A u \in Task :
       IF u \in ts THEN /\ task'[u].terminals = Replace(task[u].terminals, w, c)
                        /\ task'[u].work = task[u].work \cup {p, c}
                        /\ task'[u].arts = task[u].arts \cup {q, a}
       ELSE /\ task'[u].terminals = task[u].terminals
            /\ task'[u].work = task[u].work /\ task'[u].arts = task[u].arts

\* WORK w stops at its checkpoint, other WORK stays in hand or finished.
ExpandsHands(w) ==
  /\ asg' = asg /\ outcome' = [outcome EXCEPT ![w] = "checkpoint"]
  /\ status'[w] = "DONE"
  /\ \A v \in WorkId : /\ status'[v] \in {"ASSIGNED", "RUNNING"} => status'[v] = status[v]
                       /\ status[v] = "DONE" => status'[v] = "DONE"

Expands(w, c, q, p, a, new) ==
  /\ ExpandsNodes(w, c, q, p, a, new) /\ ExpandsEdges(w, c, q, p, a)
  /\ ExpandsMentions(w, c, q, p, a) /\ ExpandsTasks(w, c, q, p, a, new) /\ ExpandsHands(w)

-----------------------------------------------------------------------------
(* What an expansion keeps.                                                *)

\* What Replace leaves and adds
LEMMA ReplaceMember ==
  ASSUME NEW S, NEW x, NEW y, NEW z
  PROVE  z \in Replace(S, x, y) <=> (z \in S /\ z # x) \/ (x \in S /\ z = y)
BY DEF Replace

LEMMA ExpandsMirror ==
  ASSUME SInv, CInv', NEW w, NEW c, NEW q, NEW p, NEW a, NEW new, Expands(w, c, q, p, a, new)
  PROVE  EdgesMirrorNodes'
<1>1. ExpandsNodes(w, c, q, p, a, new) /\ ExpandsEdges(w, c, q, p, a) /\ ExpandsMentions(w, c, q, p, a)
  BY DEF Expands
<1>2. EdgesMirrorNodes
  BY DEF SInv
<1>3. ASSUME NEW v \in WorkId PROVE work'[v].preds = {x \in WorkId : <<"PRECEDES", x, v>> \in edges'}
  <2>1. work'[v].preds \subseteq WorkId
    BY DEF CInv, TInv, TypeOK, WorkRecord
  <2>2. ASSUME NEW x \in WorkId PROVE x \in work'[v].preds <=> <<"PRECEDES", x, v>> \in edges'
    <3>1. x \in work[v].preds <=> <<"PRECEDES", x, v>> \in edges
      BY <1>2 DEF EdgesMirrorNodes
    <3>2. w \in work[v].preds <=> <<"PRECEDES", w, v>> \in edges
      BY <1>1, <1>2 DEF EdgesMirrorNodes, ExpandsNodes
    <3>3. <<"PRECEDES", x, v>> \in edges' <=>
             \/ x = w /\ v = c
             \/ x = c /\ <<"PRECEDES", w, v>> \in edges
             \/ x # w /\ <<"PRECEDES", x, v>> \in edges
      BY <1>1 DEF ExpandsEdges
    <3>4. work'[v].preds = IF v = c THEN {w} ELSE Replace(work[v].preds, w, c)
      BY <1>1 DEF ExpandsMentions
    <3>5. v = c => work[v].preds = {}
      BY <1>1 DEF ExpandsNodes, SInv, Shape, Blank, NoWork
    <3>6. CASE v = c
      BY <3>1, <3>2, <3>3, <3>4, <3>5, <3>6
    <3>7. CASE v # c
      BY <3>1, <3>2, <3>3, <3>4, <3>7, ReplaceMember
    <3>8. QED
      BY <3>6, <3>7
  <2>3. QED
    BY <2>1, <2>2
<1>4. \A v \in WorkId : work'[v].outs = {b \in ArtId : art'[b].producer = v}
  BY DEF CInv, Mirrored, TInv, TypeOK, WorkRecord
<1>5. \A v \in WorkId : Asks(v)' = {b \in ArtId : v \in art'[b].consumers}
  <2>1. \A v \in WorkId : Asks(v) = {b \in ArtId : v \in art[b].consumers}
    BY <1>2 DEF EdgesMirrorNodes, Asks
  <2>2. ASSUME NEW v \in WorkId PROVE Asks(v)' = {b \in ArtId : v \in art'[b].consumers}
    <3>1. Asks(v)' = Asks(v) \cup (IF v = c THEN {q, a} ELSE {})
      BY <1>1 DEF ExpandsMentions
    <3>2. \A b \in ArtId : v \in art'[b].consumers <=> v \in art[b].consumers \/ (v = c /\ b \in {q, a})
      BY <1>1 DEF ExpandsMentions
    <3>3. q \in ArtId /\ a \in ArtId
      BY <1>1 DEF ExpandsNodes
    <3>4. QED
      BY <2>1, <3>1, <3>2, <3>3
  <2>3. QED
    BY <2>2
<1>6. \A v \in WorkId, b \in ArtId : b \in work'[v].outs <=> <<"PRODUCES", v, b>> \in edges'
  BY <1>1, <1>2 DEF ExpandsMentions, ExpandsEdges, EdgesMirrorNodes
<1>7. \A v \in WorkId, b \in ArtId : v \in art'[b].consumers <=> <<"CONSUMES", b, v>> \in edges'
  BY <1>1, <1>2 DEF ExpandsMentions, ExpandsEdges, EdgesMirrorNodes
<1>8. QED
  BY <1>3, <1>4, <1>5, <1>6, <1>7 DEF EdgesMirrorNodes, Asks

\* What feeds a WORK after the expansion: the continuation is fed by w and by the
\* provider, and instead of w it feeds what waited for w by control.
LEMMA ExpandsFeeds ==
  ASSUME SInv, NEW w, NEW c, NEW q, NEW p, NEW a, NEW new, Expands(w, c, q, p, a, new),
         NEW x \in WorkId, NEW y \in WorkId, Feeds(edges', x, y)
  PROVE  IF y = c THEN x = w \/ x = p
         ELSE (x # c /\ Feeds(edges, x, y)) \/ (x = c /\ <<"PRECEDES", w, y>> \in edges)
<1>1. ExpandsNodes(w, c, q, p, a, new) /\ ExpandsEdges(w, c, q, p, a)
  BY DEF Expands
<1>2. EdgesMirrorNodes /\ Blank
  BY DEF SInv, Shape
<1>3. /\ \A v \in WorkId : <<"PRECEDES", v, c>> \notin edges /\ <<"PRECEDES", c, v>> \notin edges
      /\ \A b \in ArtId : <<"PRODUCES", c, b>> \notin edges /\ <<"CONSUMES", b, c>> \notin edges
      /\ \A v \in WorkId : <<"PRODUCES", v, q>> \notin edges /\ <<"CONSUMES", q, v>> \notin edges
  <2>1. work[c] = NoWork /\ c \in WorkId /\ q \in ArtId
    BY <1>1, <1>2 DEF ExpandsNodes, Blank
  <2>2. art[q] = NoArtifact
    BY <1>1, <1>2 DEF ExpandsNodes, Blank
  <2>3. \A v \in WorkId : c \notin work[v].preds
    BY <1>1 DEF ExpandsNodes, SInv, Shape, Grounded
  <2>4. \A v \in WorkId : <<"PRECEDES", v, c>> \notin edges /\ <<"PRECEDES", c, v>> \notin edges
    BY <1>2, <2>1, <2>3 DEF EdgesMirrorNodes, NoWork
  <2>5. \A b \in ArtId : <<"PRODUCES", c, b>> \notin edges
    BY <1>2, <2>1 DEF EdgesMirrorNodes, NoWork
  <2>6. \A b \in ArtId : c \notin art[b].consumers
    BY <1>1 DEF ExpandsNodes, SInv, Shape, Grounded
  <2>7. \A b \in ArtId : <<"CONSUMES", b, c>> \notin edges
    BY <1>2, <2>1, <2>6 DEF EdgesMirrorNodes
  <2>8. \A v \in WorkId : <<"CONSUMES", q, v>> \notin edges
    BY <1>2, <2>1, <2>2 DEF EdgesMirrorNodes, NoArtifact
  <2>9. \A v \in WorkId : q \notin work[v].outs
    BY <1>1, <2>1, OutsKnown DEF ExpandsNodes, SInv
  <2>10. \A v \in WorkId : <<"PRODUCES", v, q>> \notin edges
    BY <1>2, <2>1, <2>9 DEF EdgesMirrorNodes
  <2>11. QED
    BY <2>4, <2>5, <2>7, <2>8, <2>10
<1>4. \A v \in WorkId : /\ <<"PRODUCES", v, a>> \in edges => v = p
                        /\ new => <<"PRODUCES", v, a>> \notin edges /\ <<"CONSUMES", a, v>> \notin edges
                        /\ ~new => <<"PRODUCES", p, a>> \in edges
  <2>1. a \in ArtId /\ p \in WorkId
    BY <1>1 DEF ExpandsNodes
  <2>2. CASE new
    <3>1. art[a] = NoArtifact /\ ~Known(a)
      BY <1>1, <1>2, <2>1, <2>2 DEF ExpandsNodes, Blank
    <3>2. \A v \in WorkId : v \notin art[a].consumers /\ a \notin work[v].outs
      BY <2>1, <3>1, OutsKnown DEF NoArtifact, SInv
    <3>3. QED
      BY <1>2, <2>1, <2>2, <3>2 DEF EdgesMirrorNodes
  <2>3. CASE ~new
    <3>1. art[a].producer = p
      BY <1>1, <2>3 DEF ExpandsNodes
    <3>2. \A v \in WorkId : a \in work[v].outs <=> v = p
      BY <2>1, <3>1 DEF SInv, CInv, Mirrored
    <3>3. QED
      BY <1>2, <2>1, <2>3, <3>2 DEF EdgesMirrorNodes
  <2>4. QED
    BY <2>2, <2>3
<1>5. CASE <<"PRECEDES", x, y>> \in edges'
  <2>1. \/ x = w /\ y = c
        \/ x = c /\ <<"PRECEDES", w, y>> \in edges
        \/ x # w /\ <<"PRECEDES", x, y>> \in edges
    BY <1>1, <1>5 DEF ExpandsEdges
  <2>2. w \in WorkId
    BY <1>1 DEF ExpandsNodes
  <2>3. QED
    BY <1>3, <2>1, <2>2 DEF Feeds
<1>6. ASSUME NEW b \in ArtId, <<"PRODUCES", x, b>> \in edges', <<"CONSUMES", b, y>> \in edges'
      PROVE  IF y = c THEN x = w \/ x = p ELSE x # c /\ Feeds(edges, x, y)
  <2>1. /\ <<"PRODUCES", x, b>> \in edges \/ (x = w /\ b = q) \/ (x = p /\ b = a)
        /\ <<"CONSUMES", b, y>> \in edges \/ (y = c /\ b \in {q, a})
    BY <1>1, <1>6 DEF ExpandsEdges
  <2>2. CASE y = c
    BY <1>3, <1>4, <2>1, <2>2
  <2>3. CASE y # c
    <3>1. <<"CONSUMES", b, y>> \in edges
      BY <2>1, <2>3
    <3>2. b # q
      BY <1>3, <3>1
    <3>3. <<"PRODUCES", x, b>> \in edges
      BY <1>4, <2>1, <3>1, <3>2
    <3>4. x # c
      BY <1>3, <3>3
    <3>5. QED
      BY <2>3, <3>1, <3>3, <3>4 DEF Feeds
  <2>4. QED
    BY <2>2, <2>3
<1>7. QED
  BY <1>5, <1>6 DEF Feeds

\* WORK that waits by artifacts only is fed by such WORK only.
LEMMA OpenFeeders ==
  ASSUME SInv, NEW x \in WorkId, NEW y \in WorkId, Feeds(edges, x, y), work[y].preds = {}
  PROVE  work[x].preds = {}
<1>1. <<"PRECEDES", x, y>> \notin edges
  BY DEF SInv, EdgesMirrorNodes
<1>2. PICK b \in ArtId : <<"PRODUCES", x, b>> \in edges /\ <<"CONSUMES", b, y>> \in edges
  BY <1>1 DEF Feeds
<1>3. b \in work[x].outs /\ y \in art[b].consumers
  BY <1>2 DEF SInv, EdgesMirrorNodes
<1>4. QED
  BY <1>3 DEF SInv, Layered

\* If some WORK waited in a circle after the expansion, some would have before: the
\* rest of the circle when c is not in it or w is, and otherwise the part of it that
\* waits by artifacts only, which holds the provider.
LEMMA ExpandsAcyclic ==
  ASSUME SInv, CInv', NEW w, NEW c, NEW q, NEW p, NEW a, NEW new, Expands(w, c, q, p, a, new)
  PROVE  Acyclic'
<1>1. ExpandsNodes(w, c, q, p, a, new)
  BY DEF Expands
<1>2. Acyclic /\ EdgesMirrorNodes
  BY DEF SInv
<1> SUFFICES ASSUME NEW S \in SUBSET WorkId, S # {}, \A v \in S : \E x \in S : Feeds(edges', x, v)
             PROVE  FALSE
  BY DEF Acyclic
<1>3. ASSUME NEW v \in S, v # c
      PROVE  (\E x \in S : x # c /\ Feeds(edges, x, v)) \/ (c \in S /\ <<"PRECEDES", w, v>> \in edges)
  <2>1. PICK x \in S : Feeds(edges', x, v)
    OBVIOUS
  <2>2. (x # c /\ Feeds(edges, x, v)) \/ (x = c /\ <<"PRECEDES", w, v>> \in edges)
    BY <1>3, <2>1, ExpandsFeeds
  <2>3. QED
    BY <2>1, <2>2
<1>4. ASSUME c \in S PROVE w \in S \/ p \in S
  <2>1. PICK x \in S : Feeds(edges', x, c)
    BY <1>4
  <2>2. x \in WorkId /\ c \in WorkId
    BY <1>4
  <2>3. \A y \in WorkId : Feeds(edges', x, y) =>
          IF y = c THEN x = w \/ x = p ELSE (x # c /\ Feeds(edges, x, y)) \/ (x = c /\ <<"PRECEDES", w, y>> \in edges)
    BY <2>2, ExpandsFeeds
  <2>4. x = w \/ x = p
    BY <2>1, <2>2, <2>3
  <2>5. QED
    BY <2>1, <2>4
<1>5. w \in WorkId /\ w # c
  BY <1>1 DEF ExpandsNodes
<1>6. CASE c \notin S
  BY <1>2, <1>3, <1>6 DEF Acyclic
<1>7. CASE c \in S /\ w \in S
  <2> DEFINE T == S \ {c}
  <2>1. T \in SUBSET WorkId /\ w \in T
    BY <1>5, <1>7
  <2>2. ASSUME NEW v \in T PROVE \E x \in T : Feeds(edges, x, v)
    <3>1. v \in S /\ v # c
      OBVIOUS
    <3>2. <<"PRECEDES", w, v>> \in edges => Feeds(edges, w, v)
      BY DEF Feeds
    <3>3. \A x \in S : x # c => x \in T
      OBVIOUS
    <3> HIDE DEF T
    <3>4. QED
      BY <1>3, <2>1, <3>1, <3>2, <3>3
  <2> HIDE DEF T
  <2>3. QED
    BY <1>2, <2>1, <2>2 DEF Acyclic
<1>8. CASE c \in S /\ w \notin S
  <2> DEFINE T == {v \in S : v # c /\ work[v].preds = {}}
  <2>1. p \in S /\ p # c
    BY <1>1, <1>4, <1>8 DEF ExpandsNodes
  <2>2. work[p].preds = {}
    <3>1. CASE new
      BY <1>1, <3>1 DEF ExpandsNodes, SInv, Shape, Blank, NoWork
    <3>2. CASE ~new
      <4>1. a \in ArtId /\ art[a].producer = p /\ art[a].key # None
        BY <1>1, <3>2 DEF ExpandsNodes
      <4>2. a \in work[p].outs
        BY <2>1, <4>1 DEF SInv, CInv, Mirrored
      <4>3. QED
        BY <2>1, <4>1, <4>2 DEF SInv, Layered
    <3>3. QED
      BY <3>1, <3>2
  <2>3. T \in SUBSET WorkId /\ T # {}
    BY <2>1, <2>2
  <2>4. ASSUME NEW v \in T PROVE \E x \in T : Feeds(edges, x, v)
    <3>1. v \in S /\ v # c /\ v \in WorkId /\ work[v].preds = {}
      OBVIOUS
    <3>2. <<"PRECEDES", w, v>> \notin edges
      BY <1>2, <1>5, <3>1 DEF EdgesMirrorNodes
    <3>3. PICK x \in S : x # c /\ Feeds(edges, x, v)
      BY <1>3, <3>1, <3>2
    <3>4. work[x].preds = {}
      BY <3>1, <3>3, OpenFeeders
    <3>5. QED
      BY <3>3, <3>4
  <2> HIDE DEF T
  <2>5. QED
    BY <1>2, <2>3, <2>4 DEF Acyclic
<1>9. QED
  BY <1>6, <1>7, <1>8

LEMMA ExpandsShape ==
  ASSUME SInv, CInv', NEW w, NEW c, NEW q, NEW p, NEW a, NEW new, Expands(w, c, q, p, a, new)
  PROVE  Shape'
<1>1. /\ ExpandsNodes(w, c, q, p, a, new) /\ ExpandsMentions(w, c, q, p, a)
      /\ ExpandsTasks(w, c, q, p, a, new) /\ ExpandsHands(w)
  BY DEF Expands
<1>2. Shape
  BY DEF SInv
<1>3. /\ w \in WorkId /\ Made(w)' /\ c \in WorkId /\ Made(c)' /\ p \in WorkId /\ Made(p)'
      /\ q \in ArtId /\ Known(q)' /\ a \in ArtId /\ Known(a)'
  <2>1. /\ w \in WorkId /\ c \in WorkId /\ p \in WorkId /\ q \in ArtId /\ a \in ArtId /\ Made(w)
        /\ \A v \in WorkId : Made(v)' <=> Made(v) \/ v \in {c, p}
        /\ \A b \in ArtId : Known(b)' <=> Known(b) \/ b \in {q, a}
    BY <1>1 DEF ExpandsNodes
  <2>2. \A v \in WorkId : v = w \/ v = c \/ v = p => status'[v] # "ABSENT"
    BY <2>1 DEF Made
  <2>3. \A b \in ArtId : b = q \/ b = a => art'[b].state # "ABSENT"
    BY <2>1 DEF Known
  <2>4. QED
    BY <2>1, <2>2, <2>3 DEF Made, Known
<1>4. /\ \A v \in WorkId : Made(v) => Made(v)'
      /\ \A b \in ArtId : Known(b) => Known(b)'
  BY <1>1 DEF ExpandsNodes
<1>5. Blank'
  BY <1>1, <1>2, <1>4 DEF Shape, Blank, ExpandsNodes
<1>6. Grounded'
  <2>1. ASSUME NEW v \in WorkId, NEW x \in work'[v].preds PROVE Made(x)'
    <3>1. x \in WorkId
      BY <2>1 DEF CInv, TInv, TypeOK, WorkRecord
    <3>2. x = w \/ x = c \/ x \in work[v].preds
      BY <1>1, <2>1, ReplaceMember DEF ExpandsMentions
    <3>3. x \in work[v].preds => Made(x)
      BY <1>2 DEF Shape, Grounded
    <3>4. QED
      BY <1>3, <1>4, <3>1, <3>2, <3>3
  <2>2. ASSUME NEW v \in WorkId, NEW b \in Asks(v)' PROVE Known(b)'
    <3>1. b \in Asks(v) \/ b = q \/ b = a
      BY <1>1, <2>2 DEF ExpandsMentions
    <3>2. b \in Asks(v) => b \in ArtId /\ Known(b)
      BY <1>2 DEF Shape, Grounded, Asks, SInv, CInv, TInv, TypeOK, WorkRecord, Requirement
    <3>3. QED
      BY <1>3, <1>4, <3>1, <3>2
  <2>3. ASSUME NEW b \in ArtId, NEW x \in art'[b].consumers PROVE Made(x)'
    <3>1. x \in WorkId
      BY <2>3 DEF CInv, TInv, TypeOK, ArtRecord
    <3>2. x \in art[b].consumers \/ x = c
      BY <1>1, <2>3, <3>1 DEF ExpandsMentions
    <3>3. x \in art[b].consumers => Made(x)
      BY <1>2 DEF Shape, Grounded
    <3>4. QED
      BY <1>3, <1>4, <3>1, <3>2, <3>3
  <2>4. QED
    BY <2>1, <2>2, <2>3 DEF Grounded
<1>7. Listed'
  <2>1. ASSUME NEW u \in Task
        PROVE  /\ \A v \in task'[u].terminals \cup task'[u].work : Made(v)'
               /\ \A b \in task'[u].arts : Known(b)'
    <3>1. /\ \A v \in task[u].terminals \cup task[u].work : v \in WorkId /\ Made(v)
          /\ \A b \in task[u].arts : b \in ArtId /\ Known(b)
      BY <1>2 DEF Shape, Listed, SInv, CInv, TInv, TypeOK, TaskRecord
    <3>2. /\ \A v \in task'[u].terminals : v \in task[u].terminals \/ v = c
          /\ \A v \in task'[u].work : v \in task[u].work \/ v = c \/ v = p
          /\ \A b \in task'[u].arts : b \in task[u].arts \/ b = q \/ b = a
      BY <1>1, ReplaceMember DEF ExpandsTasks
    <3>3. QED
      BY <1>3, <1>4, <3>1, <3>2
  <2>2. QED
    BY <2>1 DEF Listed
<1>8. Manned'
  BY <1>1, <1>2 DEF Shape, Manned, ExpandsNodes
<1>9. Carried'
  BY <1>1, <1>2 DEF Shape, Carried, ExpandsHands
<1>10. Stopped'
  BY <1>1, <1>2 DEF Shape, Stopped, ExpandsHands, SInv, CInv, TInv, TypeOK
<1>11. QED
  BY <1>5, <1>6, <1>7, <1>8, <1>9, <1>10 DEF Shape

\* An artifact that WORK produces after the expansion is the checkpoint, the
\* requested artifact, or one it produced before.
LEMMA ExpandsOuts ==
  ASSUME SInv, NEW w, NEW c, NEW q, NEW p, NEW a, NEW new, Expands(w, c, q, p, a, new),
         NEW v \in WorkId, NEW b \in ArtId, b \in work'[v].outs
  PROVE  /\ v # c
         /\ \/ v = w /\ b = q
            \/ v = p /\ b = a /\ work[p].outs = {} /\ work[p].preds = {} /\ p # w /\ new
            \/ b \in work[v].outs /\ b # q /\ Known(b) /\ Made(v) /\ (new => b # a /\ v # p)
<1>1. ExpandsNodes(w, c, q, p, a, new) /\ ExpandsMentions(w, c, q, p, a)
  BY DEF Expands
<1>2. work[c].outs = {} /\ c # w /\ c # p
  BY <1>1 DEF ExpandsNodes, SInv, Shape, Blank, NoWork
<1>3. b \in work[v].outs \/ (v = w /\ b = q) \/ (v = p /\ b = a)
  BY <1>1 DEF ExpandsMentions
<1>4. CASE b \in work[v].outs
  <2>1. Made(v) /\ Known(b)
    BY <1>4, OutsKnown DEF SInv
  <2>2. b # q /\ (new => b # a /\ v # p)
    BY <1>1, <2>1 DEF ExpandsNodes
  <2>3. QED
    BY <1>2, <1>4, <2>1, <2>2
<1>5. CASE v = p /\ b = a /\ new
  <2>1. work[p] = NoWork /\ p # w
    BY <1>1, <1>5 DEF ExpandsNodes, SInv, Shape, Blank
  <2>2. QED
    BY <1>2, <1>5, <2>1 DEF NoWork
<1>6. CASE v = p /\ b = a /\ ~new
  <2>1. art[a].producer = p /\ a \in ArtId
    BY <1>1, <1>6 DEF ExpandsNodes
  <2>2. b \in work[v].outs
    BY <1>6, <2>1 DEF SInv, CInv, Mirrored
  <2>3. QED
    BY <1>4, <2>2
<1>7. QED
  BY <1>2, <1>3, <1>4, <1>5, <1>6

LEMMA ExpandsLayers ==
  ASSUME SInv, CInv', NEW w, NEW c, NEW q, NEW p, NEW a, NEW new, Expands(w, c, q, p, a, new)
  PROVE  Layered'
<1>1. /\ ExpandsNodes(w, c, q, p, a, new) /\ ExpandsMentions(w, c, q, p, a)
      /\ ExpandsTasks(w, c, q, p, a, new)
  BY DEF Expands
<1> SUFFICES ASSUME NEW v \in WorkId, work'[v].preds # {}, NEW b \in work'[v].outs
             PROVE  art'[b].key = None /\ \A x \in art'[b].consumers : work'[x].preds # {}
  BY DEF Layered
<1>2. b \in ArtId
  BY DEF CInv, TInv, TypeOK, WorkRecord
<1>3. \A x \in WorkId : work'[x].preds # {} <=> x = c \/ work[x].preds # {}
  BY <1>1 DEF ExpandsMentions, Replace
<1>4. /\ v # c
      /\ \/ v = w /\ b = q
         \/ v = p /\ b = a /\ work[p].preds = {}
         \/ b \in work[v].outs /\ b # q /\ Known(b) /\ (new => b # a)
  BY <1>2, ExpandsOuts
<1>5. work[v].preds # {}
  BY <1>3, <1>4
<1>6. CASE v = w /\ b = q
  <2>1. art'[q].key = None
    BY <1>1 DEF ExpandsTasks
  <2>2. art[q].consumers = {}
    BY <1>1 DEF ExpandsNodes, SInv, Shape, Blank, NoArtifact
  <2>3. art'[q].consumers \subseteq WorkId
    BY <1>2, <1>6 DEF CInv, TInv, TypeOK, ArtRecord
  <2>4. \A x \in art'[q].consumers : x = c
    BY <1>1, <1>2, <1>6, <2>2, <2>3 DEF ExpandsMentions
  <2>5. QED
    BY <1>3, <1>6, <2>1, <2>3, <2>4
<1>7. CASE b \in work[v].outs /\ b # q /\ Known(b) /\ (new => b # a)
  <2>1. art[b].key = None /\ \A x \in art[b].consumers : work[x].preds # {}
    BY <1>5, <1>7 DEF SInv, Layered
  <2>2. art'[b].key = None
    BY <1>1, <1>2, <1>7, <2>1 DEF ExpandsTasks
  <2>3. art'[b].consumers \subseteq WorkId
    BY <1>2 DEF CInv, TInv, TypeOK, ArtRecord
  <2>4. \A x \in art'[b].consumers : x \in art[b].consumers \/ x = c
    BY <1>1, <1>2, <2>3 DEF ExpandsMentions
  <2>5. QED
    BY <1>3, <2>1, <2>2, <2>3, <2>4
<1>8. QED
  BY <1>4, <1>5, <1>6, <1>7

LEMMA ExpandsEnlisted ==
  ASSUME SInv, NEW w, NEW c, NEW q, NEW p, NEW a, NEW new, Expands(w, c, q, p, a, new)
  PROVE  Enlisted'
<1>1. ExpandsNodes(w, c, q, p, a, new) /\ ExpandsTasks(w, c, q, p, a, new)
  BY DEF Expands
<1> SUFFICES ASSUME NEW u \in Task, NEW v \in task'[u].terminals
             PROVE  u \in work'[v].tasks
  BY DEF Enlisted
<1>2. ASSUME v \in task[u].terminals PROVE u \in work'[v].tasks
  <2>1. v \in WorkId /\ Made(v) /\ u \in work[v].tasks
    BY <1>2 DEF SInv, Shape, Listed, Enlisted, CInv, TInv, TypeOK, TaskRecord
  <2>2. v # c /\ ~(new /\ v = p)
    BY <1>1, <2>1 DEF ExpandsNodes
  <2>3. QED
    BY <1>1, <2>1, <2>2 DEF ExpandsTasks
<1>3. ASSUME v \notin task[u].terminals PROVE u \in work'[v].tasks
  <2>1. u \in work[w].tasks /\ v = c
    BY <1>1, <1>3, ReplaceMember DEF ExpandsTasks
  <2>2. QED
    BY <1>1, <2>1 DEF ExpandsTasks, ExpandsNodes
<1>4. QED
  BY <1>2, <1>3

LEMMA ExpandsOneKeyed ==
  ASSUME SInv, CInv', NEW w, NEW c, NEW q, NEW p, NEW a, NEW new, Expands(w, c, q, p, a, new)
  PROVE  OneKeyed'
<1>1. ExpandsTasks(w, c, q, p, a, new)
  BY DEF Expands
<1> SUFFICES ASSUME NEW v \in WorkId, NEW b \in work'[v].outs, NEW d \in work'[v].outs,
                    art'[b].key # None, art'[d].key # None
             PROVE  b = d
  BY DEF OneKeyed
<1>2. b \in ArtId /\ d \in ArtId
  BY DEF CInv, TInv, TypeOK, WorkRecord
<1>3. b # q /\ d # q
  BY <1>1 DEF ExpandsTasks
<1>4. /\ \/ v = p /\ b = a /\ work[p].outs = {} /\ new
         \/ b \in work[v].outs /\ b # q /\ (new => b # a /\ v # p)
      /\ \/ v = p /\ d = a /\ work[p].outs = {} /\ new
         \/ d \in work[v].outs /\ d # q /\ (new => d # a /\ v # p)
  BY <1>2, <1>3, ExpandsOuts
<1>5. CASE b \in work[v].outs /\ d \in work[v].outs
  <2>1. art[b].key # None /\ art[d].key # None
    BY <1>1, <1>2, <1>3, <1>4, <1>5 DEF ExpandsTasks
  <2>2. QED
    BY <1>5, <2>1 DEF SInv, OneKeyed
<1>6. QED
  BY <1>4, <1>5

LEMMA ExpandsOneOutput ==
  ASSUME SInv, CInv', NEW w, NEW c, NEW q, NEW p, NEW a, NEW new, Expands(w, c, q, p, a, new)
  PROVE  OneOutput'
<1>1. ExpandsHands(w)
  BY DEF Expands
<1> SUFFICES ASSUME NEW v \in WorkId, status'[v] # "DONE", NEW x \in work'[v].outs, NEW y \in work'[v].outs
             PROVE  x = y
  BY DEF OneOutput
<1>2. x \in ArtId /\ y \in ArtId
  BY DEF CInv, TInv, TypeOK, WorkRecord
<1>3. v # w /\ status[v] # "DONE"
  BY <1>1 DEF ExpandsHands
<1>4. \A b \in {x, y} : \/ v = p /\ b = a /\ work[p].outs = {}
                        \/ b \in work[v].outs
  BY <1>2, <1>3, ExpandsOuts
<1>5. CASE v = p /\ work[p].outs = {}
  BY <1>4, <1>5
<1>6. CASE x \in work[v].outs /\ y \in work[v].outs
  BY <1>3, <1>6 DEF SInv, OneOutput
<1>7. QED
  BY <1>4, <1>5, <1>6

LEMMA ExpandsScope ==
  ASSUME SInv, CInv', NEW w, NEW c, NEW q, NEW p, NEW a, NEW new, Expands(w, c, q, p, a, new)
  PROVE  TaskScopePrivate'
<1>1. ExpandsNodes(w, c, q, p, a, new) /\ ExpandsTasks(w, c, q, p, a, new)
  BY DEF Expands
<1> SUFFICES ASSUME NEW b \in ArtId, art'[b].key # None, art'[b].key[2] # None
             PROVE  art'[b].tasks = {art'[b].key[2]} /\ work'[art'[b].producer].tasks = art'[b].tasks
  BY DEF TaskScopePrivate
<1> DEFINE ts == work[w].tasks
<1>2. b # q
  BY <1>1 DEF ExpandsTasks
<1>3. CASE b = a /\ new
  <2>1. /\ art'[a].producer = p /\ art'[a].tasks = art[a].tasks \cup ts /\ ts = {art'[a].key[2]}
        /\ p \in WorkId /\ work'[p].tasks = ts
    BY <1>1, <1>3 DEF ExpandsTasks, ExpandsNodes
  <2>2. art[a].tasks = {}
    BY <1>1, <1>3 DEF ExpandsNodes, SInv, Shape, Blank, NoArtifact
  <2>3. QED
    BY <1>3, <2>1, <2>2
<1>4. CASE ~(b = a /\ new)
  <2>1. art'[b].producer = art[b].producer /\ art'[b].key = art[b].key
    BY <1>1, <1>2, <1>4 DEF ExpandsTasks, ExpandsNodes
  <2>2. art[b].tasks = {art[b].key[2]} /\ work[art[b].producer].tasks = art[b].tasks
    BY <2>1 DEF SInv, TaskScopePrivate
  <2>3. art'[b].tasks = {art[b].key[2]}
    BY <1>1, <1>2, <1>4, <2>1, <2>2 DEF ExpandsTasks
  <2>4. Known(b)
    BY <2>1 DEF SInv, CInv, Unmade, Known
  <2>5. art[b].producer \in WorkId /\ Made(art[b].producer)
    <3>1. art[b].producer \in WorkId
      BY <2>4 DEF SInv, CInv, TInv, Numbered, Known
    <3>2. b \in work[art[b].producer].outs
      BY <3>1 DEF SInv, CInv, Mirrored
    <3>3. QED
      BY <3>1, <3>2, OutsKnown DEF SInv
  <2>6. work'[art[b].producer].tasks = work[art[b].producer].tasks
    BY <1>1, <2>5 DEF ExpandsTasks, ExpandsNodes
  <2>7. QED
    BY <2>1, <2>2, <2>3, <2>6
<1>5. QED
  BY <1>3, <1>4

\* The continuation takes the place of w; what took the place of WORK that stopped
\* earlier keeps it, for w, which runs, is none of that WORK.
LEMMA ExpandsInherits ==
  ASSUME SInv, CInv', NEW w, NEW c, NEW q, NEW p, NEW a, NEW new, Expands(w, c, q, p, a, new),
         status[w] # "DONE"
  PROVE  ContinuationInherits'
<1>1. /\ ExpandsNodes(w, c, q, p, a, new) /\ ExpandsMentions(w, c, q, p, a)
      /\ ExpandsTasks(w, c, q, p, a, new) /\ ExpandsHands(w)
  BY DEF Expands
<1> SUFFICES ASSUME NEW x \in WorkId, outcome'[x] = "checkpoint"
             PROVE  /\ \E z \in WorkId : {v \in WorkId : x \in work'[v].preds} = {z}
                         /\ \E r \in work'[z].inputs : art'[r.art].producer = x /\ art'[r.art].key = None
                    /\ (\A b \in work'[x].outs : art'[b].key = None) => \A u \in Task : x \notin task'[u].terminals
  BY DEF ContinuationInherits
<1>2. /\ \A v \in WorkId : v # c => work'[v].preds = Replace(work[v].preds, w, c)
      /\ work'[c].preds = {w} /\ c \in WorkId /\ w # c
      /\ Asks(c)' = Asks(c) \cup {q, a}
  BY <1>1 DEF ExpandsMentions, ExpandsNodes
<1>3. CASE x = w
  <2>1. \A v \in WorkId : w \in work'[v].preds <=> v = c
    BY <1>2, ReplaceMember
  <2>2. {v \in WorkId : w \in work'[v].preds} = {c}
    BY <1>2, <2>1
  <2>3. PICK r \in work'[c].inputs : q = r.art
    BY <1>2 DEF Asks
  <2>4. art'[r.art].producer = w /\ art'[r.art].key = None
    BY <1>1, <2>3 DEF ExpandsTasks
  <2>5. ASSUME NEW u \in Task PROVE w \notin task'[u].terminals
    <3>1. CASE u \in work[w].tasks
      BY <1>1, <1>2, <3>1, ReplaceMember DEF ExpandsTasks
    <3>2. CASE u \notin work[w].tasks
      <4>1. task'[u].terminals = task[u].terminals
        BY <1>1, <3>2 DEF ExpandsTasks
      <4>2. QED
        BY <3>2, <4>1 DEF SInv, Enlisted
    <3>3. QED
      BY <3>1, <3>2
  <2>6. QED
    BY <1>2, <1>3, <2>2, <2>3, <2>4, <2>5
<1>4. CASE x # w
  <2>1. outcome[x] = "checkpoint" /\ status[x] = "DONE"
    BY <1>1, <1>4 DEF ExpandsHands, SInv, Shape, Stopped, CInv, TInv, TypeOK
  <2>2. x # c /\ Made(x)
    BY <1>1, <2>1 DEF ExpandsNodes, Made
  <2>3. PICK z \in WorkId : {v \in WorkId : x \in work[v].preds} = {z}
                            /\ \E r \in work[z].inputs : art[r.art].producer = x /\ art[r.art].key = None
    BY <2>1 DEF SInv, ContinuationInherits
  <2>4. \A v \in WorkId : x \in work'[v].preds <=> x \in work[v].preds
    <3>1. work[c].preds = {}
      BY <1>1 DEF ExpandsNodes, SInv, Shape, Blank, NoWork
    <3>2. QED
      BY <1>2, <1>4, <2>2, <3>1, ReplaceMember
  <2>5. {v \in WorkId : x \in work'[v].preds} = {z}
    BY <2>3, <2>4
  <2>6. PICK r \in work[z].inputs : art[r.art].producer = x /\ art[r.art].key = None
    BY <2>3
  <2>7. r.art \in ArtId /\ Known(r.art)
    <3>1. r.art \in ArtId
      BY <2>6 DEF SInv, CInv, TInv, TypeOK, WorkRecord, Requirement
    <3>2. r.art \in Asks(z)
      BY <2>6 DEF Asks
    <3>3. QED
      BY <3>1, <3>2 DEF SInv, Shape, Grounded
  <2>8. r.art # q /\ r.art # a
    BY <1>1, <2>6, <2>7 DEF ExpandsNodes
  <2>9. r \in work'[z].inputs /\ art'[r.art].producer = x /\ art'[r.art].key = None
    BY <1>1, <2>6, <2>7, <2>8 DEF ExpandsMentions, ExpandsTasks
  <2>10. ASSUME \A b \in work'[x].outs : art'[b].key = None, NEW u \in Task
         PROVE  x \notin task'[u].terminals
    <3>1. ASSUME NEW b \in work[x].outs PROVE art[b].key = None
      <4>1. b \in ArtId
        BY DEF SInv, CInv, TInv, TypeOK, WorkRecord
      <4>2. b \in work'[x].outs
        BY <1>1, <4>1 DEF ExpandsMentions
      <4>3. art'[b].key = None /\ Known(b)
        BY <2>10, <4>1, <4>2, OutsKnown DEF SInv
      <4>4. b # q
        BY <1>1, <4>3 DEF ExpandsNodes
      <4>5. art'[b].key = art[b].key
        BY <1>1, <4>1, <4>3, <4>4 DEF ExpandsTasks, ExpandsNodes
      <4>6. QED
        BY <4>3, <4>5
    <3>2. x \notin task[u].terminals
      BY <2>1, <3>1 DEF SInv, ContinuationInherits
    <3>3. QED
      BY <1>1, <2>2, <3>2, ReplaceMember DEF ExpandsTasks
  <2>11. QED
    BY <2>5, <2>9, <2>10
<1>5. QED
  BY <1>3, <1>4

LEMMA ExpandsKeeps ==
  ASSUME SInv, CInv', NEW w, NEW c, NEW q, NEW p, NEW a, NEW new, Expands(w, c, q, p, a, new),
         status[w] # "DONE"
  PROVE  SInv'
BY ExpandsShape, ExpandsMirror, ExpandsAcyclic, ExpandsLayers, ExpandsEnlisted, ExpandsOneKeyed, ExpandsOneOutput, ExpandsScope,
   ExpandsInherits DEF SInv

-----------------------------------------------------------------------------
(* expand_work has this effect.                                            *)

\* Which edges there are once the control edges out of w leave from c
LEMMA RewiredMember ==
  ASSUME edges \subseteq Edge, NEW w, NEW c, NEW x, NEW y
  PROVE  /\ <<"PRECEDES", x, y>> \in Rewired(w, c) <=>
              (x = c /\ <<"PRECEDES", w, y>> \in edges) \/ (x # w /\ <<"PRECEDES", x, y>> \in edges)
         /\ <<"PRODUCES", x, y>> \in Rewired(w, c) <=> <<"PRODUCES", x, y>> \in edges
         /\ <<"CONSUMES", x, y>> \in Rewired(w, c) <=> <<"CONSUMES", x, y>> \in edges
<1> DEFINE Turned(e) == IF e[1] = "PRECEDES" /\ e[2] = w THEN <<"PRECEDES", c, e[3]>> ELSE e
<1>1. Rewired(w, c) = {Turned(e) : e \in edges}
  BY DEF Rewired
<1>2. \A e \in edges : e = <<e[1], e[2], e[3]>> /\ e[1] \in {"PRECEDES", "PRODUCES", "CONSUMES"}
  BY DEF Edge
<1>3. \A e \in edges : /\ e[1] = "PRECEDES" /\ e[2] = w => Turned(e) = <<"PRECEDES", c, e[3]>>
                       /\ ~(e[1] = "PRECEDES" /\ e[2] = w) => Turned(e) = e
  OBVIOUS
<1> HIDE DEF Turned
<1>4. \A z : z \in Rewired(w, c) <=> \E e \in edges : z = Turned(e)
  BY <1>1
<1>5. ASSUME NEW e \in edges, <<"PRECEDES", x, y>> = Turned(e)
      PROVE  (x = c /\ <<"PRECEDES", w, y>> \in edges) \/ (x # w /\ <<"PRECEDES", x, y>> \in edges)
  <2>1. CASE e[1] = "PRECEDES" /\ e[2] = w
    <3>1. <<"PRECEDES", x, y>> = <<"PRECEDES", c, e[3]>>
      BY <1>3, <1>5, <2>1
    <3>2. x = c /\ y = e[3]
      BY <3>1
    <3>3. e = <<"PRECEDES", w, y>>
      BY <1>2, <2>1, <3>2
    <3>4. QED
      BY <3>2, <3>3
  <2>2. CASE ~(e[1] = "PRECEDES" /\ e[2] = w)
    <3>1. e = <<"PRECEDES", x, y>>
      BY <1>3, <1>5, <2>2
    <3>2. e[1] = "PRECEDES" /\ e[2] = x
      BY <3>1
    <3>3. QED
      BY <2>2, <3>1, <3>2
  <2>3. QED
    BY <2>1, <2>2
<1>6. ASSUME <<"PRECEDES", w, y>> \in edges PROVE <<"PRECEDES", c, y>> \in Rewired(w, c)
  <2> DEFINE e == <<"PRECEDES", w, y>>
  <2>1. e[1] = "PRECEDES" /\ e[2] = w /\ e[3] = y /\ e \in edges
    BY <1>6
  <2> HIDE DEF e
  <2>2. Turned(e) = <<"PRECEDES", c, y>>
    BY <1>3, <2>1
  <2>3. QED
    BY <1>4, <2>1, <2>2
<1>7. ASSUME NEW kind, NEW e \in edges, e = <<kind, x, y>>, ~(kind = "PRECEDES" /\ x = w)
      PROVE  e \in Rewired(w, c)
  <2>1. e[1] = kind /\ e[2] = x
    BY <1>7
  <2>2. Turned(e) = e
    BY <1>3, <1>7, <2>1
  <2>3. QED
    BY <1>4, <2>2
<1>8. ASSUME NEW kind \in {"PRODUCES", "CONSUMES"}, NEW e \in edges, <<kind, x, y>> = Turned(e)
      PROVE  <<kind, x, y>> \in edges
  <2>1. Turned(e)[1] = kind
    BY <1>8
  <2>2. ~(e[1] = "PRECEDES" /\ e[2] = w)
    BY <1>3, <2>1
  <2>3. QED
    BY <1>3, <1>8, <2>2
<1>9. <<"PRECEDES", x, y>> \in Rewired(w, c) <=>
        (x = c /\ <<"PRECEDES", w, y>> \in edges) \/ (x # w /\ <<"PRECEDES", x, y>> \in edges)
  BY <1>4, <1>5, <1>6, <1>7
<1>10. <<"PRODUCES", x, y>> \in Rewired(w, c) <=> <<"PRODUCES", x, y>> \in edges
  BY <1>4, <1>7, <1>8
<1>11. <<"CONSUMES", x, y>> \in Rewired(w, c) <=> <<"CONSUMES", x, y>> \in edges
  BY <1>4, <1>7, <1>8
<1>12. QED
  BY <1>9, <1>10, <1>11

\* The key an expansion asks for is shared by all tasks, or by the only task of w.
LEMMA ExpansionScope ==
  ASSUME NEW i \in Identity \cup {None}, NEW ts, ExpansionKeyDefined(i, ts), ExpansionKey(i, ts) # None
  PROVE  ExpansionKey(i, ts)[2] = None \/ ts = {ExpansionKey(i, ts)[2]}
<1> DEFINE u == CHOOSE t \in ts : TRUE
<1>1. ExpansionKey(i, ts) = KeyOf(i, u)
  BY DEF ExpansionKey
<1>2. i \in TaskScoped => \E t \in ts : ts = {t}
  BY DEF ExpansionKeyDefined
<1>3. (\E t \in ts : ts = {t}) => ts = {u}
  OBVIOUS
<1> HIDE DEF u
<1>4. QED
  BY <1>1, <1>2, <1>3 DEF KeyOf

\* The continuation, the checkpoint, the provider and the requested artifact are
\* the ones expand_work creates or finds.
LEMMA ExpandExpands ==
  ASSUME SInv, CInv', NEW w \in WorkId, NEW s \in Assignment, NEW g \in Agent, NEW i \in Identity \cup {None},
         NEW age \in Age, NEW d \in Draft, ExpandWork(w, s, g, i, age, d)
  PROVE  \E c, q, p, a, new : Expands(w, c, q, p, a, new)
<1> USE NoneAssumption
<1> DEFINE ts == work[w].tasks
           k == ExpansionKey(i, ts)
           hit == Reusable(k, age)
           old == Stale(k, age)
           c == nextWork
           q == nextArt
           a == IF hit THEN active[k] ELSE nextArt + 1
           p == IF hit THEN art[a].producer ELSE nextWork + 1
           new == ~hit
           continuation == [agent |-> work[w].agent, preds |-> {w}, outs |-> {}, tasks |-> ts,
                            inputs |-> {[art |-> q, maxAge |-> None], [art |-> a, maxAge |-> age]}]
           provider == [NoWork EXCEPT !.agent = g, !.outs = {a}, !.tasks = ts]
           stopped == [work[w] EXCEPT !.outs = @ \cup {q}]
           behind(v) == [work[v] EXCEPT !.preds = Replace(@, w, c)]
           checkpointed == [state |-> "CONCRETE", producer |-> w, consumers |-> {c}, key |-> None, tasks |-> ts,
                            observedAt |-> SeenAt(d), validFrom |-> now, validUntil |-> d.validUntil]
           asked == [NoArtifact EXCEPT !.state = "FUTURE", !.producer = p, !.consumers = {c}, !.key = k, !.tasks = ts]
           shared == Joined(art[a], {c}, ts)
           inv == Invalidated(art, old)
           mid == [v \in WorkId |-> IF v = w THEN "DONE"
                                   ELSE IF v = c \/ (v = p /\ ~hit) THEN "BLOCKED" ELSE status[v]]
           tk == [t \in Task |->
                    IF t \in ts
                    THEN [task[t] EXCEPT !.terminals = Replace(@, w, c), !.work = @ \cup {p, c}, !.arts = @ \cup {q, a}]
                    ELSE task[t]]
           E == {<<"PRODUCES", w, q>>, <<"CONSUMES", q, c>>, <<"PRODUCES", p, a>>,
                 <<"CONSUMES", a, c>>, <<"PRECEDES", w, c>>}
<1>1. /\ nextWork' = IF hit THEN nextWork + 1 ELSE nextWork + 2
      /\ nextArt' = IF hit THEN nextArt + 1 ELSE nextArt + 2
      /\ nextWork' <= MaxWork + 1 /\ nextArt' <= MaxArt + 1
      /\ work' = [v \in WorkId |->
           IF v = c THEN continuation
           ELSE IF v = p /\ ~hit THEN provider
           ELSE IF v = w THEN stopped
           ELSE IF <<"PRECEDES", w, v>> \in edges THEN behind(v)
           ELSE work[v]]
      /\ art' = [b \in ArtId |->
           IF b = q THEN checkpointed
           ELSE IF b = a /\ hit THEN shared
           ELSE IF b = a THEN asked
           ELSE inv[b]]
      /\ edges' = Rewired(w, c) \cup E
      /\ asg' = asg
      /\ outcome' = [outcome EXCEPT ![w] = "checkpoint"]
      /\ status' = SettledWork(mid, work', art')
      /\ task' = SettledTasks(tk, status')
      /\ status[w] = "RUNNING"
      /\ ExpansionKeyDefined(i, ts)
  BY Zenon DEF ExpandWork, Holds
<1>2. /\ art \in [ArtId -> ArtRecord] /\ work \in [WorkId -> WorkRecord] /\ status \in [WorkId -> WorkStatus]
      /\ task \in [Task -> TaskRecord] /\ edges \subseteq Edge
      /\ nextWork \in 1 .. MaxWork + 1 /\ nextArt \in 1 .. MaxArt + 1
      /\ TInv /\ CInv /\ Blank /\ EdgesMirrorNodes /\ Manned
  BY DEF SInv, Shape, CInv, TInv, TypeOK
<1>3. k \in Key \cup {None}
  <2>1. \A t \in ts : t \in Task
    BY <1>2 DEF WorkRecord
  <2>2. ts # {}
    BY Zenon DEF ExpandWork
  <2>3. (CHOOSE t \in ts : TRUE) \in Task
    BY <2>1, <2>2
  <2>4. QED
    BY <2>3, KeyOfType DEF ExpansionKey
<1>4. k # None => k[2] = None \/ ts = {k[2]}
  BY <1>1, ExpansionScope
<1>5. hit => /\ a \in ArtId /\ a < nextArt /\ p \in WorkId /\ p < nextWork /\ k \in Key /\ a = active[k] /\ a # None
             /\ art[a].state \in {"FUTURE", "CONCRETE"} /\ art[a].producer = p
  BY <1>2, <1>3, ReusableHit DEF ArtId
<1>6. c = nextWork /\ q = nextArt /\ (~hit => a = nextArt + 1 /\ p = nextWork + 1)
  OBVIOUS
<1>7. \A b \in old : b \in ArtId /\ art[b].state = "CONCRETE"
  BY <1>2, <1>3, StaleEntry
<1> HIDE DEF ts, k, hit, old, c, q, a, p, continuation, provider, stopped, behind, checkpointed, asked, shared, inv, mid, tk, E
<1>8. hit => art[a].key = k /\ k # None
  BY <1>2, <1>5, IndexEntry
<1>9. /\ c \in WorkId /\ q \in ArtId /\ a \in ArtId /\ p \in WorkId
      /\ c >= nextWork /\ q >= nextArt /\ a # q /\ p # c
      /\ ~hit => a >= nextArt /\ p >= nextWork
  <2> USE BoundAssumption DEF WorkId, ArtId
  <2>1. CASE hit
    <3>1. nextWork' = nextWork + 1 /\ nextArt' = nextArt + 1 /\ nextWork' <= MaxWork + 1 /\ nextArt' <= MaxArt + 1
      BY <1>1, <2>1
    <3>2. QED
      BY <1>2, <1>5, <1>6, <2>1, <3>1
  <2>2. CASE ~hit
    <3>1. nextWork' = nextWork + 2 /\ nextArt' = nextArt + 2 /\ nextWork' <= MaxWork + 1 /\ nextArt' <= MaxArt + 1
      BY <1>1, <2>2
    <3>2. QED
      BY <1>2, <1>6, <2>2, <3>1
  <2>3. QED
    BY <2>1, <2>2
<1>10. /\ ~Made(c) /\ ~Known(q) /\ Made(w) /\ w # c
       /\ ~hit => ~Made(p) /\ ~Known(a) /\ w # p
       /\ hit => Made(p) /\ Known(a)
  <2>1. ~Made(c) /\ ~Known(q) /\ (~hit => ~Made(p) /\ ~Known(a))
    BY <1>2, <1>9 DEF TInv, Numbered, Made, Known
  <2>2. Made(w)
    BY <1>1 DEF Made
  <2>3. hit => Known(a)
    BY <1>5 DEF Known
  <2>4. hit => Made(p)
    <3>1. \A v \in WorkId : v < nextWork => status[v] # "ABSENT"
      BY <1>2, BoundAssumption DEF TInv, TypeOK, Numbered, WorkId
    <3>2. QED
      BY <1>5, <3>1 DEF Made
  <2>5. QED
    BY <2>1, <2>2, <2>3, <2>4
<1>11. /\ work[c] = NoWork /\ art[q] = NoArtifact
       /\ ~hit => work[p] = NoWork /\ art[a] = NoArtifact
  BY <1>2, <1>9, <1>10 DEF Blank
<1>12. \A v \in WorkId : <<"PRECEDES", w, v>> \in edges <=> w \in work[v].preds
  BY <1>2 DEF EdgesMirrorNodes
<1>13. w \notin work[w].preds
  <2>1. ~Feeds(edges, w, w)
    <3>1. {w} \in SUBSET WorkId /\ {w} # {}
      OBVIOUS
    <3>2. PICK v \in {w} : \A x \in {w} : ~Feeds(edges, x, v)
      BY <3>1 DEF SInv, Acyclic
    <3>3. v = w /\ w \in {w}
      OBVIOUS
    <3>4. QED
      BY Zenon, <3>2, <3>3
  <2>2. QED
    BY <1>12, <2>1 DEF Feeds
\* The nodes the operation writes, field by field
<1>14. /\ continuation.agent = work[w].agent /\ continuation.preds = {w} /\ continuation.outs = {}
       /\ continuation.tasks = ts
       /\ \A r : r \in continuation.inputs <=> r \in {[art |-> q, maxAge |-> None], [art |-> a, maxAge |-> age]}
  BY DEF continuation
<1>15. /\ provider.agent = g /\ provider.preds = {} /\ provider.outs = {a} /\ provider.tasks = ts
       /\ provider.inputs = {}
  BY DEF provider, NoWork
<1>16. /\ stopped.agent = work[w].agent /\ stopped.preds = work[w].preds /\ stopped.inputs = work[w].inputs
       /\ stopped.outs = work[w].outs \cup {q} /\ stopped.tasks = work[w].tasks
  BY <1>2 DEF stopped, WorkRecord
<1>17. \A v \in WorkId : /\ behind(v).agent = work[v].agent /\ behind(v).preds = Replace(work[v].preds, w, c)
                         /\ behind(v).inputs = work[v].inputs /\ behind(v).outs = work[v].outs
                         /\ behind(v).tasks = work[v].tasks
  BY <1>2 DEF behind, WorkRecord
<1>18. \A v \in WorkId : w \notin work[v].preds => Replace(work[v].preds, w, c) = work[v].preds
  BY DEF Replace
<1>19. \A v \in WorkId : work'[v] = IF v = c THEN continuation
                                    ELSE IF v = p /\ ~hit THEN provider
                                    ELSE IF v = w THEN stopped
                                    ELSE IF w \in work[v].preds THEN behind(v)
                                    ELSE work[v]
  BY <1>1, <1>12
<1>20. \A v \in WorkId :
         /\ work'[v].preds = IF v = c THEN {w} ELSE Replace(work[v].preds, w, c)
         /\ work'[v].agent = IF v = c THEN work[w].agent ELSE IF v = p /\ ~hit THEN g ELSE work[v].agent
         /\ work'[v].outs = IF v = p /\ ~hit THEN {a} ELSE IF v = w THEN work[v].outs \cup {q} ELSE work[v].outs
         /\ work'[v].tasks = IF v = c \/ (v = p /\ ~hit) THEN ts ELSE work[v].tasks
         /\ v # c => work'[v].inputs = work[v].inputs
  <2> SUFFICES ASSUME NEW v \in WorkId
               PROVE  /\ work'[v].preds = IF v = c THEN {w} ELSE Replace(work[v].preds, w, c)
                      /\ work'[v].agent = IF v = c THEN work[w].agent ELSE IF v = p /\ ~hit THEN g ELSE work[v].agent
                      /\ work'[v].outs = IF v = p /\ ~hit THEN {a}
                                        ELSE IF v = w THEN work[v].outs \cup {q} ELSE work[v].outs
                      /\ work'[v].tasks = IF v = c \/ (v = p /\ ~hit) THEN ts ELSE work[v].tasks
                      /\ v # c => work'[v].inputs = work[v].inputs
    OBVIOUS
  <2>1. CASE v = c
    <3>1. work'[v] = continuation
      BY <1>19, <2>1
    <3>2. work[v].outs = {}
      BY <1>11, <2>1 DEF NoWork
    <3>3. QED
      BY <1>9, <1>10, <1>14, <2>1, <3>1, <3>2
  <2>2. CASE v = p /\ ~hit
    <3>1. work'[v] = provider
      BY <1>9, <1>19, <2>2
    <3>2. work[v].preds = {} /\ work[v].inputs = {}
      BY <1>11, <2>2 DEF NoWork
    <3>3. QED
      BY <1>9, <1>15, <1>18, <2>2, <3>1, <3>2
  <2>3. CASE v # c /\ ~(v = p /\ ~hit) /\ v = w
    BY <1>13, <1>16, <1>18, <1>19, <2>3
  <2>4. CASE v # c /\ ~(v = p /\ ~hit) /\ v # w
    BY <1>17, <1>18, <1>19, <2>4
  <2>5. QED
    BY <2>1, <2>2, <2>3, <2>4
<1>21. \A b : b \in {r.art : r \in work'[c].inputs} <=> b = q \/ b = a
  <2>1. work'[c].inputs = continuation.inputs
    BY <1>9, <1>19
  <2>2. \A r : r \in work'[c].inputs <=> r = [art |-> q, maxAge |-> None] \/ r = [art |-> a, maxAge |-> age]
    BY <1>14, <2>1
  <2>3. [art |-> q, maxAge |-> None].art = q /\ [art |-> a, maxAge |-> age].art = a
    OBVIOUS
  <2>4. ASSUME NEW r \in work'[c].inputs PROVE r.art = q \/ r.art = a
    BY <2>2
  <2>5. QED
    BY <2>2, <2>3, <2>4
<1>22. /\ checkpointed.state = "CONCRETE" /\ checkpointed.producer = w /\ checkpointed.consumers = {c}
       /\ checkpointed.key = None /\ checkpointed.tasks = ts
  BY DEF checkpointed
<1>23. /\ asked.state = "FUTURE" /\ asked.producer = p /\ asked.consumers = {c} /\ asked.key = k /\ asked.tasks = ts
  BY DEF asked, NoArtifact
<1>24. /\ shared.state = art[a].state /\ shared.producer = art[a].producer /\ shared.key = art[a].key
       /\ shared.consumers = art[a].consumers \cup {c} /\ shared.tasks = art[a].tasks \cup ts
  <2>1. art[a] \in ArtRecord
    BY <1>2, <1>9
  <2>2. QED
    BY <2>1 DEF shared, Joined, ArtRecord
<1>25. \A b \in ArtId : /\ inv[b].producer = art[b].producer /\ inv[b].key = art[b].key
                        /\ inv[b].consumers = art[b].consumers /\ inv[b].tasks = art[b].tasks
                        /\ inv[b].state = "ABSENT" <=> art[b].state = "ABSENT"
                        /\ art[b].state = "ABSENT" => inv[b] = art[b]
  <2>1. \A b \in ArtId : inv[b] = IF b \in old THEN [art[b] EXCEPT !.state = "INVALIDATED"] ELSE art[b]
    BY DEF inv, Invalidated
  <2>2. ASSUME NEW b \in ArtId
        PROVE  LET r == [art[b] EXCEPT !.state = "INVALIDATED"]
               IN  /\ r.producer = art[b].producer /\ r.key = art[b].key
                   /\ r.consumers = art[b].consumers /\ r.tasks = art[b].tasks /\ r.state = "INVALIDATED"
    BY <1>2 DEF ArtRecord
  <2>3. QED
    BY <1>7, <2>1, <2>2
<1>26. /\ art'[q] = checkpointed
       /\ art'[a] = IF hit THEN shared ELSE asked
       /\ \A b \in ArtId : b # q /\ b # a => art'[b] = inv[b]
  BY <1>1, <1>9
<1>27. \A v \in WorkId : IF v = w THEN status'[v] = "DONE"
                         ELSE IF v = c \/ (v = p /\ ~hit) THEN status'[v] \in Open ELSE Kept(v)
  <2>1. /\ mid \in [WorkId -> WorkStatus]
        /\ \A v \in WorkId : mid[v] = IF v = w THEN "DONE" ELSE IF v = c \/ (v = p /\ ~hit) THEN "BLOCKED" ELSE status[v]
    BY <1>2 DEF mid, WorkStatus
  <2>2. \A v \in WorkId : IF mid[v] \in Open THEN status'[v] \in Open ELSE status'[v] = mid[v]
    <3>1. status' = SettledWork(mid, work', art')
      BY <1>1
    <3>2. QED
      BY <2>1, <3>1, SettledWorkType DEF Open
  <2>3. QED
    BY <2>1, <2>2 DEF Kept, Open
<1>28. ExpandsNodes(w, c, q, p, a, new)
  <2>1. /\ w \in WorkId /\ c \in WorkId /\ p \in WorkId /\ q \in ArtId /\ a \in ArtId
        /\ Made(w) /\ ~Made(c) /\ ~Known(q) /\ c # p /\ q # a
    BY <1>9, <1>10
  <2>2. IF new THEN ~Made(p) /\ ~Known(a)
        ELSE Made(p) /\ Known(a) /\ art[a].producer = p /\ art[a].key # None
    BY <1>5, <1>8, <1>10
  <2>3. ASSUME NEW v \in WorkId
        PROVE  /\ Made(v)' <=> Made(v) \/ v \in {c, p}
               /\ ~Made(v)' => work'[v] = work[v]
               /\ v \in {c, p} => work'[v].agent \in Agent
               /\ v \notin {c, p} => work'[v].agent = work[v].agent
    <3>1. Made(v)' <=> Made(v) \/ v \in {c, p}
      BY <1>10, <1>27 DEF Made, Open, Kept
    <3>2. v \in {c, p} => work'[v].agent \in Agent
      <4>1. work[w].agent \in Agent
        BY <1>2, <1>10 DEF Manned
      <4>2. hit => work[p].agent \in Agent
        BY <1>2, <1>9, <1>10 DEF Manned
      <4>3. QED
        BY <1>9, <1>20, <4>1, <4>2
    <3>3. v \notin {c, p} => work'[v].agent = work[v].agent
      BY <1>20
    <3>4. ASSUME ~Made(v)' PROVE work'[v] = work[v]
      <4>1. v # c /\ v # p /\ v # w /\ ~Made(v)
        BY <1>10, <3>1, <3>4
      <4>2. work[v].preds = {}
        BY <1>2, <4>1 DEF Blank, NoWork
      <4>3. QED
        BY <1>19, <4>1, <4>2
    <3>5. QED
      BY <3>1, <3>2, <3>3, <3>4
  <2>4. ASSUME NEW b \in ArtId
        PROVE  /\ Known(b)' <=> Known(b) \/ b \in {q, a}
               /\ ~Known(b)' => art'[b] = art[b]
    <3>1. b = q => art'[b].state = "CONCRETE"
      BY <1>22, <1>26
    <3>2. b = a => art'[b].state # "ABSENT"
      BY <1>5, <1>23, <1>24, <1>26
    <3>3. b # q /\ b # a => art'[b] = inv[b]
      BY <1>26
    <3>4. QED
      BY <1>25, <3>1, <3>2, <3>3 DEF Known
  <2> HIDE DEF new
  <2>5. QED
    BY <2>1, <2>2, <2>3, <2>4 DEF ExpandsNodes
<1>29. ExpandsEdges(w, c, q, p, a)
  <2>1. ASSUME NEW x \in WorkId, NEW y \in WorkId
        PROVE  <<"PRECEDES", x, y>> \in E <=> x = w /\ y = c
    BY DEF E
  <2>2. ASSUME NEW x \in WorkId, NEW b \in ArtId
        PROVE  /\ <<"PRODUCES", x, b>> \in E <=> <<x, b>> \in {<<w, q>>, <<p, a>>}
               /\ <<"CONSUMES", b, x>> \in E <=> x = c /\ b \in {q, a}
    BY DEF E
  <2>3. \A z : z \in edges' <=> z \in Rewired(w, c) \/ z \in E
    BY <1>1
  <2>4. ASSUME NEW x \in WorkId, NEW y \in WorkId
        PROVE  <<"PRECEDES", x, y>> \in edges' <=>
                 \/ x = w /\ y = c
                 \/ x = c /\ <<"PRECEDES", w, y>> \in edges
                 \/ x # w /\ <<"PRECEDES", x, y>> \in edges
    <3>1. <<"PRECEDES", x, y>> \in Rewired(w, c) <=>
            (x = c /\ <<"PRECEDES", w, y>> \in edges) \/ (x # w /\ <<"PRECEDES", x, y>> \in edges)
      BY <1>2, RewiredMember
    <3>2. <<"PRECEDES", x, y>> \in edges' <=> <<"PRECEDES", x, y>> \in Rewired(w, c) \/ <<"PRECEDES", x, y>> \in E
      BY <2>3
    <3>3. QED
      BY <2>1, <3>1, <3>2
  <2>5. ASSUME NEW x \in WorkId, NEW b \in ArtId
        PROVE  /\ <<"PRODUCES", x, b>> \in edges' <=> <<"PRODUCES", x, b>> \in edges \/ <<x, b>> \in {<<w, q>>, <<p, a>>}
               /\ <<"CONSUMES", b, x>> \in edges' <=> <<"CONSUMES", b, x>> \in edges \/ (x = c /\ b \in {q, a})
    <3>1. /\ <<"PRODUCES", x, b>> \in Rewired(w, c) <=> <<"PRODUCES", x, b>> \in edges
          /\ <<"CONSUMES", b, x>> \in Rewired(w, c) <=> <<"CONSUMES", b, x>> \in edges
      BY <1>2, RewiredMember
    <3>2. /\ <<"PRODUCES", x, b>> \in edges' <=> <<"PRODUCES", x, b>> \in Rewired(w, c) \/ <<"PRODUCES", x, b>> \in E
          /\ <<"CONSUMES", b, x>> \in edges' <=> <<"CONSUMES", b, x>> \in Rewired(w, c) \/ <<"CONSUMES", b, x>> \in E
      BY <2>3
    <3>3. QED
      BY <2>2, <3>1, <3>2
  <2>6. QED
    BY <2>4, <2>5 DEF ExpandsEdges
<1>30. ExpandsMentions(w, c, q, p, a)
  <2>1. \A v \in WorkId : work'[v].preds = IF v = c THEN {w} ELSE Replace(work[v].preds, w, c)
    BY <1>20
  <2>2. ASSUME NEW v \in WorkId, NEW b \in ArtId
        PROVE  b \in work'[v].outs <=> b \in work[v].outs \/ <<v, b>> \in {<<w, q>>, <<p, a>>}
    <3>1. work'[v].outs = IF v = p /\ ~hit THEN {a} ELSE IF v = w THEN work[v].outs \cup {q} ELSE work[v].outs
      BY <1>20
    <3>2. <<v, b>> \in {<<w, q>>, <<p, a>>} <=> (v = w /\ b = q) \/ (v = p /\ b = a)
      OBVIOUS
    <3>3. ~hit => work[p].outs = {} /\ w # p
      BY <1>10, <1>11 DEF NoWork
    <3>4. hit => a \in work[p].outs
      BY <1>2, <1>5, <1>9 DEF CInv, Mirrored
    <3>5. QED
      BY <3>1, <3>2, <3>3, <3>4
  <2>3. ASSUME NEW v \in WorkId
        PROVE  /\ Asks(v)' = Asks(v) \cup (IF v = c THEN {q, a} ELSE {})
               /\ work[v].inputs \subseteq work'[v].inputs
    <3>1. CASE v = c
      <4>1. work[v].inputs = {}
        BY <1>11, <3>1 DEF NoWork
      <4>2. \A b : b \in {r.art : r \in work'[v].inputs} <=> b = q \/ b = a
        BY <1>21, <3>1
      <4>3. Asks(v) = {}
        BY <4>1 DEF Asks
      <4>4. \A b : b \in Asks(v)' <=> b = q \/ b = a
        BY <4>2 DEF Asks
      <4>5. QED
        BY <3>1, <4>1, <4>3, <4>4
    <3>2. CASE v # c
      <4>1. work'[v].inputs = work[v].inputs
        BY <1>20, <3>2
      <4>2. QED
        BY <3>2, <4>1 DEF Asks
    <3>3. QED
      BY <3>1, <3>2
  <2>4. ASSUME NEW b \in ArtId, NEW x \in WorkId
        PROVE  x \in art'[b].consumers <=> x \in art[b].consumers \/ (x = c /\ b \in {q, a})
    <3>1. CASE b = q
      <4>1. art[b].consumers = {}
        BY <1>11, <3>1 DEF NoArtifact
      <4>2. QED
        BY <1>22, <1>26, <3>1, <4>1
    <3>2. CASE b = a /\ hit
      BY <1>24, <1>26, <3>2
    <3>3. CASE b = a /\ ~hit
      <4>1. art[b].consumers = {}
        BY <1>11, <3>3 DEF NoArtifact
      <4>2. QED
        BY <1>23, <1>26, <3>3, <4>1
    <3>4. CASE b # q /\ b # a
      BY <1>25, <1>26, <3>4
    <3>5. QED
      BY <3>1, <3>2, <3>3, <3>4
  <2>5. QED
    BY <2>1, <2>2, <2>3, <2>4 DEF ExpandsMentions
<1>31. \A u \in Task : IF u \in ts
                       THEN /\ task'[u].terminals = Replace(task[u].terminals, w, c)
                            /\ task'[u].work = task[u].work \cup {p, c}
                            /\ task'[u].arts = task[u].arts \cup {q, a}
                       ELSE /\ task'[u].terminals = task[u].terminals
                            /\ task'[u].work = task[u].work /\ task'[u].arts = task[u].arts
  <2>1. \A u \in Task : tk[u] = IF u \in ts
                                THEN [task[u] EXCEPT !.terminals = Replace(@, w, c), !.work = @ \cup {p, c},
                                                     !.arts = @ \cup {q, a}]
                                ELSE task[u]
    BY DEF tk
  <2>2. \A u \in Task : /\ tk[u].terminals = IF u \in ts THEN Replace(task[u].terminals, w, c) ELSE task[u].terminals
                        /\ tk[u].work = IF u \in ts THEN task[u].work \cup {p, c} ELSE task[u].work
                        /\ tk[u].arts = IF u \in ts THEN task[u].arts \cup {q, a} ELSE task[u].arts
                        /\ LET r == [tk[u] EXCEPT !.status = TaskVerdict(tk[u].terminals, status')]
                           IN  r.terminals = tk[u].terminals /\ r.work = tk[u].work /\ r.arts = tk[u].arts
    BY <1>2, <2>1 DEF TaskRecord
  <2>3. ASSUME NEW u \in Task
        PROVE  task'[u] = tk[u] \/ task'[u] = [tk[u] EXCEPT !.status = TaskVerdict(tk[u].terminals, status')]
    BY <1>1 DEF SettledTasks
  <2>4. QED
    BY <2>2, <2>3
<1>32. ExpandsTasks(w, c, q, p, a, new)
  <2>1. \A v \in WorkId : work'[v].tasks = IF v = c \/ (new /\ v = p) THEN ts ELSE work[v].tasks
    BY <1>20
  <2>2. \A b \in ArtId : b \notin {q, a} => /\ art'[b].producer = art[b].producer
                                            /\ art'[b].key = art[b].key /\ art'[b].tasks = art[b].tasks
    BY <1>25, <1>26
  <2>3. art'[q].producer = w /\ art'[q].key = None
    BY <1>22, <1>26
  <2>4. ~hit => art[a].tasks = {}
    BY <1>11 DEF NoArtifact
  <2>5. /\ art'[a].producer = p /\ art'[a].tasks = art[a].tasks \cup ts
        /\ ~new => art'[a].key = art[a].key
        /\ art'[a].key = k
    BY <1>5, <1>8, <1>23, <1>24, <1>26, <2>4
  <2>6. art'[a].key # None => art'[a].key[2] = None \/ ts = {art'[a].key[2]}
    BY <1>4, <2>5
  <2> HIDE DEF new
  <2>7. QED
    BY <1>31, <2>1, <2>2, <2>3, <2>5, <2>6 DEF ExpandsTasks, ts
<1>33. ExpandsHands(w)
  <2>1. \A v \in WorkId : status[v] = "DONE" => v # w /\ v # c /\ ~(v = p /\ ~hit)
    BY <1>1, <1>10 DEF Made
  <2>2. QED
    BY <1>1, <1>27, <2>1 DEF ExpandsHands, Kept, Open
<1> HIDE DEF new
<1>34. Expands(w, c, q, p, a, new)
  BY <1>28, <1>29, <1>30, <1>32, <1>33 DEF Expands
<1>35. QED
  BY <1>34

-----------------------------------------------------------------------------
(* Every step, and every behaviour.                                        *)

LEMMA SInvFresh == Fresh => SInv
<1> SUFFICES ASSUME Fresh PROVE SInv
  OBVIOUS
<1> USE NoneAssumption
<1>1. CInv
  BY IndexFresh
<1>2. /\ \A v \in WorkId : work[v] = NoWork /\ ~Made(v) /\ outcome[v] = None
      /\ \A a \in ArtId : art[a] = NoArtifact /\ ~Known(a)
      /\ \A t \in Task : task[t] = NoTask
      /\ edges = {}
  BY DEF Fresh, Made, Known, NoArtifact
<1>3. /\ \A v \in WorkId : /\ work[v].preds = {} /\ work[v].inputs = {} /\ work[v].outs = {} /\ Asks(v) = {}
      /\ \A a \in ArtId : art[a].consumers = {} /\ art[a].producer = None /\ art[a].key = None
      /\ \A t \in Task : task[t].terminals = {} /\ task[t].work = {} /\ task[t].arts = {}
  BY <1>2 DEF NoWork, NoArtifact, NoTask, Asks
<1>4. Shape
  <2>1. Blank /\ Grounded /\ Listed
    BY <1>2, <1>3 DEF Blank, Grounded, Listed
  <2>2. Manned /\ Carried /\ Stopped
    BY <1>2, OutcomeAssumption DEF Manned, Carried, Stopped, Made, Fresh
  <2>3. QED
    BY <2>1, <2>2 DEF Shape
<1>5. EdgesMirrorNodes
  <2>1. \A v \in WorkId : {a \in ArtId : art[a].producer = v} = {} /\ {a \in ArtId : v \in art[a].consumers} = {}
    BY <1>3 DEF WorkId
  <2>2. QED
    BY <1>2, <1>3, <2>1 DEF EdgesMirrorNodes
<1>6. Acyclic
  BY <1>2 DEF Acyclic, Feeds
<1>7. Layered /\ Enlisted /\ OneKeyed /\ OneOutput /\ TaskScopePrivate
  BY <1>3 DEF Layered, Enlisted, OneKeyed, OneOutput, TaskScopePrivate
<1>8. ContinuationInherits
  BY <1>2, OutcomeAssumption DEF ContinuationInherits
<1>9. QED
  BY <1>1, <1>4, <1>5, <1>6, <1>7, <1>8 DEF SInv

LEMMA SInvInit == Init => SInv
BY InitIsFresh, SInvFresh

LEMMA SInvNext == ASSUME SInv, [Next]_vars PROVE SInv'
<1> DEFINE Adding == \E t \in Task : \E ws, as, E : Adds(t, ws, as, E)
<1> CInv'
  BY RefinesNext DEF SInv, Refines
<1>0. ASSUME Adding PROVE SInv'
  <2>1. PICK t \in Task : \E ws, as, E : Adds(t, ws, as, E)
    BY <1>0
  <2>2. PICK ws, as, E : Adds(t, ws, as, E)
    BY <2>1
  <2>3. QED
    BY <2>2, AddsKeeps
<1>1. CASE \E t \in Task, f \in Fragment : SubmitTask(t, f)
  <2>1. Adding
    BY <1>1, SubmitAdds
  <2>2. QED
    BY <1>0, <2>1
<1>2. CASE \E c \in WorkId, t \in Task, i \in Identity \cup {None}, age \in Age, g \in Agent :
             ResolveArtifact(c, t, i, age, g)
  <2>1. Adding
    BY <1>2, ResolveAdds
  <2>2. QED
    BY <1>0, <2>1
<1>3. CASE \E w \in WorkId, s \in Assignment : Assign(w, s) \/ Start(w, s)
  BY <1>3, KeptAssign, KeptInv
<1>4. CASE \E w \in WorkId, s \in Assignment, complete \in BOOLEAN, d \in Draft : CommitWork(w, s, complete, d)
  <2>1. PICK w \in WorkId, s \in Assignment, complete \in BOOLEAN, d \in Draft : CommitWork(w, s, complete, d)
    BY <1>4
  <2>2. /\ status[w] = "RUNNING" /\ work' = work /\ art' = Concretized(w, d) /\ Finish(w, "DONE", "completed")
        /\ ~Rejects(w, complete)
    BY <2>1, Zenon DEF CommitWork, Holds
  <2>3. \A a \in work[w].outs : art[a].state = "FUTURE"
    BY <2>2 DEF Rejects
  <2>4. ArtsKept
    BY <2>2, <2>3, PublicationKeepsArts DEF SInv
  <2>5. QED
    BY <2>2, <2>4, KeptFinish, KeptInv
<1>5. CASE \E w \in WorkId, s \in Assignment : FailWork(w, s) \/ \E complete \in BOOLEAN : RejectWork(w, s, complete)
  <2>1. PICK w \in WorkId, s \in Assignment :
          Holds(w, s) /\ work' = work /\ FailOutputs(w) /\ Finish(w, "FAILED", "failed")
    BY <1>5 DEF FailWork, RejectWork
  <2>2. ArtsKept /\ status[w] = "RUNNING"
    BY <2>1, FailureKeepsArts DEF SInv, Holds
  <2>3. QED
    BY <2>1, <2>2, KeptFinish, KeptInv
<1>6. CASE UNCHANGED vars \/ \E w \in WorkId, s \in Assignment : RepeatCommit(w, s)
  <2>1. UNCHANGED vars
    BY <1>6 DEF RepeatCommit
  <2>2. QED
    BY <2>1, KeptElsewhere, KeptInv DEF vars, graph, TasksKept
<1>7. CASE \E w \in WorkId, s \in Assignment, g \in Capable, i \in Identity \cup {None}, age \in Age, d \in Draft :
             ExpandWork(w, s, g, i, age, d)
  <2>1. PICK w \in WorkId, s \in Assignment, g \in Capable, i \in Identity \cup {None}, age \in Age, d \in Draft :
               ExpandWork(w, s, g, i, age, d)
    BY <1>7
  <2>2. \E c, q, p, a, new : Expands(w, c, q, p, a, new)
    BY <2>1, ExpandExpands, AgentAssumption
  <2>3. status[w] # "DONE"
    BY <2>1, Zenon DEF ExpandWork, Holds
  <2>4. QED
    BY <2>2, <2>3, ExpandsKeeps
<1>8. CASE \E a \in ArtId : InvalidateArtifact(a)
  <2>1. PICK a \in ArtId : InvalidateArtifact(a)
    BY <1>8
  <2>2. {a} \in SUBSET ArtId /\ \A b \in {a} : art[b].state \in OfUse
    BY <2>1 DEF InvalidateArtifact, OfUse
  <2>3. QED
    BY <2>1, <2>2, KeptWithdraw, KeptInv DEF InvalidateArtifact
<1>9. CASE SweepExpired \/ RefreshReadiness
  <2>1. Expire
    BY <1>9 DEF SweepExpired, RefreshReadiness
  <2>2. Expired \in SUBSET ArtId /\ \A a \in Expired : art[a].state \in OfUse
    BY DEF Expired, OfUse
  <2>3. QED
    BY <2>1, <2>2, KeptWithdraw, KeptInv DEF Expire
<1>10. CASE Tick \/ RebuildArtifactIndex
  BY <1>10, KeptElsewhere, KeptInv DEF Tick, RebuildArtifactIndex, graph, TasksKept
<1>11. CASE \E t \in Task, success \in BOOLEAN : EvaluateTask(t, success)
  BY <1>11, KeptEvaluate, KeptInv
<1>12. QED
  BY <1>1, <1>2, <1>3, <1>4, <1>5, <1>6, <1>7, <1>8, <1>9, <1>10, <1>11, Zenon DEF Next, Operate

\* Every operation keeps the edges and what the nodes say of each other the same.
THEOREM MirrorHolds == Spec => []EdgesMirrorNodes
<1>1. SInv => EdgesMirrorNodes
  BY DEF SInv
<1>2. SInv /\ [Next]_vars => SInv'
  BY SInvNext
<1>3. QED
  BY SInvInit, <1>1, <1>2, PTL DEF Spec

\* The execution graph has no cycle, although expand_work rewires control edges and
\* joins producers without looking for one.
THEOREM AcyclicHolds == Spec => []Acyclic
<1>1. SInv => Acyclic
  BY DEF SInv
<1>2. SInv /\ [Next]_vars => SInv'
  BY SInvNext
<1>3. QED
  BY SInvInit, <1>1, <1>2, PTL DEF Spec

\* A WORK that stopped at a checkpoint keeps its continuation as the only WORK
\* behind it, through every later submission, resolution and expansion.
THEOREM ContinuationHolds == Spec => []ContinuationInherits
<1>1. SInv => ContinuationInherits
  BY DEF SInv
<1>2. SInv /\ [Next]_vars => SInv'
  BY SInvNext
<1>3. QED
  BY SInvInit, <1>1, <1>2, PTL DEF Spec

\* Nothing makes a task-scoped artifact, or the WORK that produces it, part of
\* another task.
THEOREM ScopeHolds == Spec => []TaskScopePrivate
<1>1. SInv => TaskScopePrivate
  BY DEF SInv
<1>2. SInv /\ [Next]_vars => SInv'
  BY SInvNext
<1>3. QED
  BY SInvInit, <1>1, <1>2, PTL DEF Spec

\* An executor never owes more than one artifact: a fragment whose provider has two is
\* refused, a WORK that is found in the index gets no more, and one that adds its
\* checkpoint is done.  SingleOutput, which UiProofs assumes of contracts, rests on this.
THEOREM OneOutputHolds == Spec => []OneOutput
<1>1. SInv => OneOutput
  BY DEF SInv
<1>2. SInv /\ [Next]_vars => SInv'
  BY SInvNext
<1>3. QED
  BY SInvInit, <1>1, <1>2, PTL DEF Spec

LEMMA RecordsValid == SInv => RecordValid
<1> SUFFICES ASSUME SInv PROVE RecordValid
  OBVIOUS
<1> DEFINE created == {w \in WorkId : status[w] # "ABSENT"}
           known == {a \in ArtId : art[a].state # "ABSENT"}
<1>1. /\ Exported.work = work /\ Exported.status = status /\ Exported.asg = asg /\ Exported.art = art
      /\ Exported.edges = edges /\ Exported.task = task
      /\ Exported.history = history /\ Exported.active = active
  BY DEF Exported
<1>2. CInv /\ Shape /\ EdgesMirrorNodes
  BY DEF SInv
<1>3. /\ \A v \in WorkId : v \in created <=> Made(v)
      /\ \A a \in ArtId : a \in known <=> Known(a)
      /\ created \subseteq WorkId /\ known \subseteq ArtId
  BY DEF Made, Known
<1>4. edges \subseteq ({"PRECEDES"} \X created \X created) \cup ({"PRODUCES"} \X created \X known)
                         \cup ({"CONSUMES"} \X known \X created)
  <2> SUFFICES ASSUME NEW e \in edges
               PROVE  \/ e \in {"PRECEDES"} \X created \X created
                      \/ e \in {"PRODUCES"} \X created \X known
                      \/ e \in {"CONSUMES"} \X known \X created
    OBVIOUS
  <2> HIDE DEF created, known
  <2>1. e \in Edge
    BY <1>2 DEF CInv, TInv, TypeOK
  <2>2. CASE e \in {"PRECEDES"} \X WorkId \X WorkId
    <3>1. PICK p \in WorkId, v \in WorkId : e = <<"PRECEDES", p, v>>
      BY <2>2
    <3>2. p \in work[v].preds
      BY <1>2, <3>1 DEF EdgesMirrorNodes
    <3>3. Made(p) /\ Made(v)
      BY <1>2, <3>2 DEF Shape, Grounded, Blank, NoWork
    <3>4. QED
      BY <1>3, <3>1, <3>3
  <2>3. CASE e \in {"PRODUCES"} \X WorkId \X ArtId
    <3>1. PICK v \in WorkId, a \in ArtId : e = <<"PRODUCES", v, a>>
      BY <2>3
    <3>2. a \in work[v].outs
      BY <1>2, <3>1 DEF EdgesMirrorNodes
    <3>3. Made(v) /\ Known(a)
      BY <1>2, <3>2, OutsKnown
    <3>4. QED
      BY <1>3, <3>1, <3>3
  <2>4. CASE e \in {"CONSUMES"} \X ArtId \X WorkId
    <3>1. PICK a \in ArtId, v \in WorkId : e = <<"CONSUMES", a, v>>
      BY <2>4
    <3>2. v \in art[a].consumers
      BY <1>2, <3>1 DEF EdgesMirrorNodes
    <3>3. Made(v) /\ Known(a)
      BY <1>2, <3>2 DEF Shape, Grounded, Blank, NoArtifact
    <3>4. QED
      BY <1>3, <3>1, <3>3
  <2>5. QED
    BY <2>1, <2>2, <2>3, <2>4 DEF Edge
<1>5. ASSUME NEW w \in created
      PROVE  /\ work[w].agent \in Agent
             /\ \A p \in work[w].preds : <<"PRECEDES", p, w>> \in edges
             /\ \A r \in work[w].inputs : <<"CONSUMES", r.art, w>> \in edges
             /\ \A a \in work[w].outs : <<"PRODUCES", w, a>> \in edges
             /\ status[w] \in {"ASSIGNED", "RUNNING"} => asg[w] # None
  <2>1. w \in WorkId /\ Made(w)
    BY <1>3
  <2>2. work[w].agent \in Agent /\ (status[w] \in {"ASSIGNED", "RUNNING"} => asg[w] # None)
    BY <1>2, <2>1 DEF Shape, Manned, Carried
  <2>3. \A p \in work[w].preds : <<"PRECEDES", p, w>> \in edges
    BY <1>2, <2>1 DEF EdgesMirrorNodes
  <2>4. ASSUME NEW r \in work[w].inputs PROVE <<"CONSUMES", r.art, w>> \in edges
    <3>1. r.art \in {a \in ArtId : w \in art[a].consumers}
      BY <1>2, <2>1 DEF EdgesMirrorNodes
    <3>2. QED
      BY <1>2, <2>1, <3>1 DEF EdgesMirrorNodes
  <2>5. \A a \in work[w].outs : <<"PRODUCES", w, a>> \in edges
    BY <1>2, <2>1 DEF EdgesMirrorNodes
  <2>6. QED
    BY <2>2, <2>3, <2>4, <2>5
<1>6. ASSUME NEW a \in known
      PROVE  /\ <<"PRODUCES", art[a].producer, a>> \in edges
             /\ \A c \in art[a].consumers : <<"CONSUMES", a, c>> \in edges
  <2>1. a \in ArtId /\ Known(a)
    BY <1>3
  <2>2. art[a].producer \in WorkId
    BY <1>2, <2>1 DEF CInv, TInv, Numbered, Known
  <2>3. a \in work[art[a].producer].outs
    BY <1>2, <2>1, <2>2 DEF CInv, Mirrored
  <2>4. \A c \in art[a].consumers : c \in WorkId
    BY <1>2, <2>1 DEF CInv, TInv, TypeOK, ArtRecord
  <2>5. QED
    BY <1>2, <2>1, <2>2, <2>3, <2>4 DEF EdgesMirrorNodes
<1>7. ASSUME NEW t \in Task
      PROVE  task[t].terminals \cup task[t].work \subseteq created /\ task[t].arts \subseteq known
  <2>1. task[t].terminals \cup task[t].work \subseteq WorkId /\ task[t].arts \subseteq ArtId
    BY <1>2 DEF CInv, TInv, TypeOK, TaskRecord
  <2>2. QED
    BY <1>2, <1>3, <2>1 DEF Shape, Listed
<1>8. IsAcyclic(edges)
  BY NoCycle DEF SInv, Acyclic
<1>9. Rebuildable(art)
  <2> SUFFICES ASSUME NEW k \in Key, NEW a \in InUse(art, k), NEW b \in InUse(art, k) PROVE a = b
    BY DEF Rebuildable
  <2>1. a \in history[k] /\ b \in history[k] /\ {a, b} \subseteq {x \in history[k] : art[x].state \in OfUse}
    BY <1>2 DEF CInv, IndexSound, InUse, Generations, OfUse
  <2>2. {x \in history[k] : art[x].state \in OfUse} = {active[k]} \ {None}
    BY <1>2 DEF CInv, IndexSound, OfUse
  <2>3. QED
    BY <2>1, <2>2
<1>10. history = RebuiltHistory(art) /\ active = RebuiltActive(art)
  BY <1>2, RebuiltCurrent
<1> HIDE DEF created, known
<1>11. QED
  BY <1>1, <1>4, <1>5, <1>6, <1>7, <1>8, <1>9, <1>10, Zenon DEF RecordValid, ValidRecord, created, known

\* Whatever legal calls came before, the record is one _validate_record accepts:
\* no operation, export or restore raises for what another operation left.
THEOREM RecordAlwaysValid == Spec => []RecordValid
<1>1. SInv => RecordValid
  BY RecordsValid
<1>2. SInv /\ [Next]_vars => SInv'
  BY SInvNext
<1>3. QED
  BY SInvInit, <1>1, <1>2, PTL DEF Spec

=============================================================================
