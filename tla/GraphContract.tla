---------------------------- MODULE GraphContract ----------------------------
(***************************************************************************)
(* What the GraphSteward promises its clients, with the graph left out.    *)
(*                                                                         *)
(* WORK is offered, held by one assignment, and finished once.  New WORK   *)
(* may promise artifacts.  A promise is kept by the WORK that made it,     *)
(* when it completes, and fails with it; both a promise and a published    *)
(* artifact may be withdrawn, and nothing comes back.  The lookup finds,   *)
(* for a key, the one artifact that is promised or published under it: a   *)
(* second one is made only when the first is withdrawn in the same step    *)
(* or gone.  Who waits for what, freshness and tasks are left out.         *)
(***************************************************************************)
CONSTANTS Work, Artifact, Key, Assignment, None

VARIABLES
  life,    \* of each WORK: absent, open, held, done or failed
  holder,  \* the assignment WORK was handed to
  stage,   \* of each artifact: absent, promised, published, withdrawn or failed
  maker,   \* the WORK that promised or published it
  key,     \* the key it is found under, or None
  current  \* the lookup

gvars == <<life, holder, stage, maker, key, current>>

Init ==
  /\ life = [w \in Work |-> "absent"]
  /\ holder = [w \in Work |-> None]
  /\ stage = [a \in Artifact |-> "absent"]
  /\ maker = [a \in Artifact |-> None]
  /\ key = [a \in Artifact |-> None]
  /\ current = [k \in Key |-> None]

Becomes(f, S, value) == [x \in DOMAIN f |-> IF x \in S THEN value ELSE f[x]]
Forgotten(as) == [k \in Key |-> IF current[k] \in as THEN None ELSE current[k]]
Promised(w) == {a \in Artifact : maker[a] = w /\ stage[a] = "promised"}

\* WORK ws, all new, promises the artifacts as, all new and no two under one key;
\* those that are in the way, old, are withdrawn.
Promise(ws, as, old) ==
  /\ \A a \in as : stage[a] = "absent" /\ maker'[a] \in ws
  /\ \A a \in as : key'[a] # None =>
       /\ current[key'[a]] \in old \cup {None}
       /\ current'[key'[a]] = a
  /\ \A a \in old : stage[a] = "published"
  /\ \A a \in Artifact \ as : maker'[a] = maker[a] /\ key'[a] = key[a]
  /\ \A k \in Key : (\A a \in as : key'[a] # k) => current'[k] = Forgotten(old)[k]

Grow(ws, as, old) ==
  /\ \A w \in ws : life[w] = "absent"
  /\ life' = Becomes(life, ws, "open")
  /\ stage' = Becomes(Becomes(stage, as, "promised"), old, "withdrawn")
  /\ Promise(ws, as, old)
  /\ UNCHANGED holder

Hand(w, s) ==
  /\ life[w] = "open"
  /\ life' = [life EXCEPT ![w] = "held"]
  /\ holder' = [holder EXCEPT ![w] = s]
  /\ UNCHANGED <<stage, maker, key, current>>

\* All that WORK w promised is published; a withdrawn promise cannot be kept.
Complete(w) ==
  /\ life[w] = "held"
  /\ \A a \in Artifact : maker[a] = w => stage[a] = "promised"
  /\ life' = [life EXCEPT ![w] = "done"]
  /\ stage' = Becomes(stage, Promised(w), "published")
  /\ UNCHANGED <<holder, maker, key, current>>

Fail(w) ==
  /\ life[w] = "held"
  /\ life' = [life EXCEPT ![w] = "failed"]
  /\ stage' = Becomes(stage, Promised(w), "failed")
  /\ current' = Forgotten(Promised(w))
  /\ UNCHANGED <<holder, maker, key>>

\* WORK w stops at the checkpoint c and new WORK goes on; what w promised stays
\* promised, although w is done.
Divert(w, c, ws, as, old) ==
  /\ life[w] = "held"
  /\ \A x \in ws : life[x] = "absent"
  /\ life' = [Becomes(life, ws, "open") EXCEPT ![w] = "done"]
  /\ stage[c] = "absent" /\ maker'[c] = w /\ key'[c] = None
  /\ stage' = [Becomes(Becomes(stage, as, "promised"), old, "withdrawn") EXCEPT ![c] = "published"]
  /\ Promise(ws \cup {w}, as \cup {c}, old)
  /\ \A a \in as : maker'[a] # w
  /\ UNCHANGED holder

Withdraw(as) ==
  /\ \A a \in as : stage[a] \in {"promised", "published"}
  /\ stage' = Becomes(stage, as, "withdrawn")
  /\ current' = Forgotten(as)
  /\ UNCHANGED <<life, holder, maker, key>>

Next ==
  \/ \E ws \in SUBSET Work, as, old \in SUBSET Artifact : Grow(ws, as, old)
  \/ \E w \in Work :
       \/ \E s \in Assignment : Hand(w, s)
       \/ Complete(w)
       \/ Fail(w)
       \/ \E c \in Artifact, ws \in SUBSET Work, as, old \in SUBSET Artifact : Divert(w, c, ws, as, old)
  \/ \E as \in SUBSET Artifact : Withdraw(as)

Spec == Init /\ [][Next]_gvars

=============================================================================
