----------------------- MODULE SchedulingPolicyProofs ------------------------
(***************************************************************************)
(* Proofs about the scheduling orders, for every acyclic graph of any size *)
(* and every metadata.                                                     *)
(***************************************************************************)
EXTENDS SchedulingPolicy, FiniteSetTheorems, WellFoundedInduction, TLAPS

-----------------------------------------------------------------------------
(* Least and greatest: what stands in for induction over data.             *)

\* A set of natural numbers has a least element.
LEMMA LeastNat ==
  ASSUME NEW S \in SUBSET Nat, S # {}
  PROVE  \E n \in S : \A m \in S : n <= m
<1> DEFINE R == OpToRel(<, Nat)
<1>1. IsWellFoundedOn(R, Nat)
  BY NatLessThanWellFounded
<1>2. \A m \in Nat : \A n \in Nat : <<m, n>> \in R <=> m < n
  BY DEF OpToRel
<1> HIDE DEF R
<1>3. S \subseteq Nat
  OBVIOUS
<1>4. PICK n \in S : \A m \in S : ~ (<<m, n>> \in R)
  BY <1>1, <1>3, WFMin, Zenon
<1>5. ASSUME NEW m \in S PROVE n <= m
  <2>1. m \in Nat /\ n \in Nat
    BY <1>3
  <2>2. ~ (m < n)
    BY <1>2, <1>4, <2>1
  <2>3. QED
    BY <2>1, <2>2
<1>6. QED
  BY <1>5

\* Among subsets of a finite set there is one that loses its place among them
\* with any of its elements.
LEMMA SmallestSet ==
  ASSUME NEW S, IsFiniteSet(S), NEW Sets, \A T \in Sets : T \subseteq S, Sets # {}
  PROVE  \E T \in Sets : \A x \in T : T \ {x} \notin Sets
<1> DEFINE Sizes == {n \in Nat : \E T \in Sets : Cardinality(T) = n}
<1>1. \A T \in Sets : IsFiniteSet(T) /\ Cardinality(T) \in Nat
  BY FS_Subset, FS_CardinalityType
<1>2. PICK n \in Sizes : \A m \in Sizes : n <= m
  BY <1>1, LeastNat
<1>3. PICK T \in Sets : Cardinality(T) = n
  OBVIOUS
<1>4. ASSUME NEW x \in T, T \ {x} \in Sets PROVE FALSE
  <2>1. Cardinality(T \ {x}) = Cardinality(T) - 1
    BY <1>1, FS_RemoveElement
  <2>2. Cardinality(T \ {x}) \in Nat
    BY <1>1, <1>4, Zenon
  <2>3. Cardinality(T \ {x}) \in Sizes
    BY <1>4, <2>2
  <2>4. n <= Cardinality(T \ {x})
    BY <1>2, <2>3
  <2>5. QED
    BY <1>3, <2>1, <2>2, <2>4
<1>5. QED
  BY <1>4

\* ... and one that has no place among them with any other element.
LEMMA LargestSet ==
  ASSUME NEW S, IsFiniteSet(S), NEW Sets, \A T \in Sets : T \subseteq S, Sets # {}
  PROVE  \E T \in Sets : \A x \in S \ T : T \cup {x} \notin Sets
<1> DEFINE Rest == {T \in SUBSET S : S \ T \in Sets}
<1>1. \A T \in SUBSET S : S \ (S \ T) = T
  OBVIOUS
<1>2. Rest # {}
  <2>1. PICK T \in Sets : TRUE
    OBVIOUS
  <2>2. S \ T \in SUBSET S /\ S \ (S \ T) = T
    BY <1>1
  <2>3. QED
    BY <2>1, <2>2
<1>3. PICK T \in Rest : \A x \in T : T \ {x} \notin Rest
  BY <1>2, SmallestSet
<1>4. ASSUME NEW x \in S \ (S \ T), (S \ T) \cup {x} \in Sets PROVE FALSE
  <2>1. x \in T /\ S \ (T \ {x}) = (S \ T) \cup {x}
    OBVIOUS
  <2>2. T \ {x} \in Rest
    BY <1>4, <2>1
  <2>3. QED
    BY <1>3, <2>1, <2>2
<1>5. QED
  BY <1>4

\* Max is what it is meant to be.
LEMMA MaxProperty ==
  ASSUME NEW S \in SUBSET Int, IsFiniteSet(S), S # {}
  PROVE  Max(S) \in S /\ \A x \in S : x <= Max(S)
<1> DEFINE Topped(T) == \E m \in T : \A x \in T : m >= x
           Bad == {T \in SUBSET S : T # {} /\ ~ Topped(T)}
<1>1. Bad = {}
  <2> SUFFICES ASSUME Bad # {} PROVE FALSE
    OBVIOUS
  <2>1. PICK T \in Bad : \A x \in T : T \ {x} \notin Bad
    BY SmallestSet
  <2>2. PICK x \in T : TRUE
    OBVIOUS
  <2>3. CASE T \ {x} = {}
    BY <2>3
  <2>4. CASE T \ {x} # {}
    <3>1. PICK m \in T \ {x} : \A y \in T \ {x} : m >= y
      BY <2>1, <2>4
    <3>2. CASE m >= x
      BY <3>1, <3>2
    <3>3. CASE ~ (m >= x)
      <4>1. \A y \in T : x >= y
        BY <3>1, <3>3
      <4>2. QED
        BY <4>1
    <3>4. QED
      BY <3>2, <3>3
  <2>5. QED
    BY <2>3, <2>4
<1>2. PICK m \in S : \A x \in S : m >= x
  BY <1>1
<1>3. Max(S) \in S /\ \A x \in S : Max(S) >= x
  BY <1>2 DEF Max
<1>4. QED
  BY <1>3

-----------------------------------------------------------------------------
(* Functions by recursion on an acyclic graph                              *)

Dag(W, next) ==
  /\ IsFiniteSet(W)
  /\ next \in [W -> SUBSET W]
  /\ \A S \in (SUBSET W) \ {{}} : \E w \in S : next[w] \cap S = {}

\* F[w] makes a value in V of w of the values of its successors; f has such values.
Makes(F, W, next, V) == \A w \in W : \A g \in [next[w] -> V] : F[w][g] \in V
Solution(f, F, W, next) == \A w \in W : f[w] = F[w][[v \in next[w] |-> f[v]]]

\* What a node's value is, as a function of its successors' values, determines
\* a value for every node: the largest closed part with such values is all.
LEMMA Recursion ==
  ASSUME NEW W, NEW next, Dag(W, next), NEW V, NEW F, Makes(F, W, next, V)
  PROVE  \E f \in [W -> V] : Solution(f, F, W, next)
<1> USE DEF Makes, Solution
<1> DEFINE Closed(D) == \A w \in D : next[w] \subseteq D
           Solved == {D \in SUBSET W : Closed(D) /\ \E f \in [D -> V] : Solution(f, F, D, next)}
<1>1. {} \in Solved
  <2>1. [w \in {} |-> w] \in [{} -> V]
    OBVIOUS
  <2>2. QED
    BY <2>1
<1>2. PICK D \in Solved : \A x \in W \ D : D \cup {x} \notin Solved
  <2>1. Solved # {} /\ \A T \in Solved : T \subseteq W
    BY <1>1
  <2>2. IsFiniteSet(W)
    BY DEF Dag
  <2> HIDE DEF Solved
  <2>3. QED
    BY <2>1, <2>2, LargestSet, Zenon
<1>3. PICK f \in [D -> V] : Solution(f, F, D, next)
  OBVIOUS
<1>4. ASSUME D # W PROVE FALSE
  <2>1. PICK w \in W \ D : next[w] \cap (W \ D) = {}
    BY <1>4 DEF Dag
  <2>2. next[w] \subseteq D
    BY <2>1 DEF Dag
  <2> DEFINE E == D \cup {w}
             new == F[w][[v \in next[w] |-> f[v]]]
             g == [u \in E |-> IF u = w THEN new ELSE f[u]]
  <2>3. new \in V
    <3>1. [v \in next[w] |-> f[v]] \in [next[w] -> V]
      BY <2>2
    <3>2. QED
      BY <3>1
  <2>4. g \in [E -> V]
    BY <2>3
  <2>5. Closed(E)
    BY <2>2
  <2>6. ASSUME NEW u \in E PROVE g[u] = F[u][[v \in next[u] |-> g[v]]]
    <3>1. next[u] \subseteq D
      BY <2>2
    <3>2. \A v \in next[u] : g[v] = f[v]
      BY <2>1, <3>1
    <3>3. [v \in next[u] |-> g[v]] = [v \in next[u] |-> f[v]]
      BY <3>2
    <3>4. g[u] = F[u][[v \in next[u] |-> f[v]]]
      BY <1>3, <2>1
    <3>5. QED
      BY <3>3, <3>4
  <2>7. E \in Solved
    BY <2>4, <2>5, <2>6
  <2>8. QED
    BY <1>2, <2>1, <2>7
<1>5. QED
  BY <1>3, <1>4

-----------------------------------------------------------------------------
(* The invariant: metadata, an acyclic graph, and refreshed readiness      *)

PInv ==
  /\ estimate \in [1 .. MaxWork -> Estimate]
  /\ Dag(1 .. MaxWork, successors)
  /\ status \in [1 .. MaxWork -> WorkStatus]
  /\ status = Refreshed(status, unusable)

\* A refresh settles the readiness at once: it changes nothing that it looks at.
LEMMA RefreshedFacts ==
  ASSUME Work = 1 .. MaxWork, NEW before \in [Work -> WorkStatus], NEW stale
  PROVE  /\ Refreshed(before, stale) \in [Work -> WorkStatus]
         /\ Refreshed(Refreshed(before, stale), stale) = Refreshed(before, stale)
<1> DEFINE after == Refreshed(before, stale)
           again == Refreshed(after, stale)
<1>1. ASSUME NEW w \in Work
      PROVE  /\ after[w] \in WorkStatus
             /\ after[w] = "DONE" <=> before[w] = "DONE"
             /\ after[w] \in {"BLOCKED", "READY"} <=> before[w] \in {"BLOCKED", "READY"}
  BY DEF Refreshed, WorkStatus
<1>2. after \in [Work -> WorkStatus]
  <2>1. after = [w \in Work |-> after[w]]
    BY DEF Refreshed
  <2> HIDE DEF after
  <2>2. QED
    BY <1>1, <2>1
<1>3. ASSUME NEW w \in Work PROVE again[w] = after[w]
  <2>1. (\A p \in Predecessors(w) : after[p] = "DONE") <=> (\A p \in Predecessors(w) : before[p] = "DONE")
    <3> HIDE DEF after
    <3>1. QED
      BY <1>1 DEF Predecessors
  <2>2. CASE before[w] \notin {"BLOCKED", "READY"}
    <3>1. after[w] \notin {"BLOCKED", "READY"}
      BY <1>1, <2>2
    <3> HIDE DEF after
    <3>2. QED
      BY <3>1 DEF Refreshed
  <2>3. CASE before[w] \in {"BLOCKED", "READY"}
    <3>1. after[w] = IF w \notin stale /\ \A p \in Predecessors(w) : before[p] = "DONE" THEN "READY" ELSE "BLOCKED"
      BY <2>3 DEF Refreshed
    <3>2. after[w] \in {"BLOCKED", "READY"}
      BY <1>1, <2>3
    <3> HIDE DEF after
    <3>3. again[w] = IF w \notin stale /\ \A p \in Predecessors(w) : after[p] = "DONE" THEN "READY" ELSE "BLOCKED"
      BY <3>2 DEF Refreshed
    <3>4. QED
      BY <2>1, <3>1, <3>3
  <2>4. QED
    BY <2>2, <2>3
<1>4. again = after
  <2>1. again = [w \in Work |-> again[w]] /\ after = [w \in Work |-> after[w]]
    BY DEF Refreshed
  <2> HIDE DEF again, after
  <2>2. QED
    BY <1>3, <2>1
<1>5. QED
  BY <1>2, <1>4

LEMMA PInvInit == PInit => PInv
<1> SUFFICES ASSUME PInit PROVE PInv
  OBVIOUS
<1>1. IsFiniteSet(1 .. MaxWork)
  BY PolicyAssumption, FS_Interval
<1>2. Work = 1 .. MaxWork
  BY DEF PInit, Work
<1>3. [w \in Work |-> "BLOCKED"] \in [Work -> WorkStatus]
  BY DEF WorkStatus
<1>4. status \in [Work -> WorkStatus] /\ Refreshed(status, unusable) = status
  BY <1>2, <1>3, RefreshedFacts DEF PInit
<1>5. QED
  BY <1>1, <1>2, <1>4 DEF PInit, PInv, Dag

\* A step between statuses that no refresh looks at leaves the readiness settled.
LEMMA TransitionKeeps ==
  ASSUME PInv, Work = 1 .. MaxWork, NEW w \in Work, NEW expected, NEW target \in {"ASSIGNED", "RUNNING"},
         expected # "DONE", Transition(w, expected, target)
  PROVE  status' \in [Work -> WorkStatus] /\ status' = Refreshed(status', unusable)
<1>1. /\ status \in [Work -> WorkStatus] /\ status = Refreshed(status, unusable) /\ status[w] = expected
      /\ status' = [status EXCEPT ![w] = target]
  BY DEF PInv, Transition
<1>2. target \in WorkStatus
  BY DEF WorkStatus
<1>3. status' \in [Work -> WorkStatus]
  BY <1>1, <1>2
<1>4. \A p \in Work : status'[p] = "DONE" <=> status[p] = "DONE"
  BY <1>1
<1>5. ASSUME NEW v \in Work PROVE status'[v] = Refreshed(status', unusable)[v]
  <2>1. CASE v = w
    <3>1. status'[v] = target
      BY <1>1, <2>1
    <3>2. QED
      BY <3>1 DEF Refreshed
  <2>2. CASE v # w
    <3>1. status'[v] = status[v]
      BY <1>1, <2>2
    <3>2. (\A p \in Predecessors(v) : status'[p] = "DONE") <=> (\A p \in Predecessors(v) : status[p] = "DONE")
      BY <1>4 DEF Predecessors
    <3>3. status[v] = Refreshed(status, unusable)[v]
      BY <1>1
    <3>4. QED
      BY <3>1, <3>2, <3>3 DEF Refreshed
  <2>3. QED
    BY <2>1, <2>2
<1>6. Refreshed(status', unusable) = [v \in Work |-> Refreshed(status', unusable)[v]]
  BY DEF Refreshed
<1>7. QED
  BY <1>3, <1>5, <1>6

LEMMA PInvStep == PInv /\ [PNext]_pvars => PInv'
<1> SUFFICES ASSUME PInv, [PNext]_pvars PROVE PInv'
  OBVIOUS
<1>1. Work = 1 .. MaxWork /\ status \in [Work -> WorkStatus]
  BY DEF PInv, Work
<1>2. CASE UNCHANGED pvars
  BY <1>2 DEF PInv, Dag, pvars, Refreshed, Predecessors, Work
<1>3. CASE PNext
  <2> DEFINE Kept == /\ UNCHANGED <<estimate, successors>>
                     /\ status' \in [Work -> WorkStatus]
                     /\ status' = Refreshed(status', unusable')
  <2>1. ASSUME NEW w \in Work, Assign(w) PROVE Kept
    <3>1. Transition(w, "READY", "ASSIGNED")
      BY <2>1 DEF Assign
    <3>2. status' \in [Work -> WorkStatus] /\ status' = Refreshed(status', unusable)
      BY <1>1, <3>1, TransitionKeeps
    <3>3. QED
      BY <3>1, <3>2 DEF Transition
  <2>2. ASSUME NEW w \in Work, Start(w) PROVE Kept
    <3>1. Transition(w, "ASSIGNED", "RUNNING")
      BY <2>2 DEF Start
    <3>2. status' \in [Work -> WorkStatus] /\ status' = Refreshed(status', unusable)
      BY <1>1, <3>1, TransitionKeeps
    <3>3. QED
      BY <3>1, <3>2 DEF Transition
  <2>3. ASSUME NEW w \in Work, NEW outcome \in WorkStatus, Settle(w, outcome) PROVE Kept
    <3>1. [status EXCEPT ![w] = outcome] \in [Work -> WorkStatus]
      BY <1>1
    <3>2. QED
      BY <1>1, <2>3, <3>1, RefreshedFacts DEF Settle
  <2>4. ASSUME NEW stale, RefreshReadiness(stale) PROVE Kept
    BY <1>1, <2>4, RefreshedFacts DEF RefreshReadiness
  <2>5. Kept
    <3>1. ASSUME NEW w \in Work, Commit(w) PROVE Kept
      BY <2>3, <3>1 DEF Commit, WorkStatus
    <3>2. ASSUME NEW w \in Work, Fail(w) PROVE Kept
      BY <2>3, <3>2 DEF Fail, WorkStatus
    <3> HIDE DEF Kept
    <3>3. QED
      BY <1>3, <2>1, <2>2, <2>4, <3>1, <3>2 DEF PNext
  <2>6. Refreshed(status', unusable') = Refreshed(status, unusable)'
    BY <2>5 DEF Refreshed, Predecessors, Work
  <2>7. QED
    BY <1>1, <2>5, <2>6 DEF PInv, Dag
<1>4. QED
  BY <1>2, <1>3

\* The shape of the snapshot, and its readiness: WORK is READY exactly if it is neither
\* in hand nor settled, its inputs are usable and all WORK before it is DONE.
THEOREM SnapshotShape == PSpec => []PInv
BY PInvInit, PInvStep, PTL DEF PSpec

LEMMA WorkFacts ==
  ASSUME PInv
  PROVE  /\ Work = 1 .. MaxWork
         /\ IsFiniteSet(Work) /\ Cardinality(Work) = MaxWork
         /\ Dag(Work, successors)
<1>1. Work = 1 .. MaxWork
  BY DEF PInv, Work
<1>2. IsFiniteSet(1 .. MaxWork) /\ Cardinality(1 .. MaxWork) = MaxWork
  BY PolicyAssumption, FS_Interval
<1>3. QED
  BY <1>1, <1>2 DEF PInv

\* The successors of a WORK are WORK, and finitely many.
LEMMA SuccessorFacts ==
  ASSUME PInv, NEW w \in Work
  PROVE  successors[w] \subseteq Work /\ IsFiniteSet(successors[w])
<1>1. successors[w] \subseteq Work
  BY WorkFacts DEF Dag
<1>2. QED
  BY <1>1, WorkFacts, FS_Subset

\* In any set of WORK one has no successor in the set.
LEMMA LastOf ==
  ASSUME PInv, NEW S \in SUBSET Work, S # {}
  PROVE  \E w \in S : \A v \in successors[w] : v \notin S
<1>1. PICK w \in S : successors[w] \cap S = {}
  BY WorkFacts DEF Dag
<1>2. QED
  BY <1>1

-----------------------------------------------------------------------------
(* Ranks                                                                   *)

\* Whatever the metadata of a WORK, its duration is not negative.
LEMMA DurationNat ==
  ASSUME PInv, NEW w \in Work
  PROVE  Duration(w) \in Nat
<1>1. estimate[w] \in Int \cup {BadEstimate}
  BY WorkFacts, PolicyAssumption DEF PInv
<1>2. CASE estimate[w] = BadEstimate
  BY <1>2 DEF Duration
<1>3. CASE estimate[w] # BadEstimate
  <2>1. estimate[w] \in Int
    BY <1>1, <1>3
  <2>2. IsFiniteSet({0, estimate[w]})
    <3>1. {0, estimate[w]} = {0} \cup {estimate[w]}
      OBVIOUS
    <3>2. IsFiniteSet({0})
      BY FS_Singleton, Zenon
    <3>3. IsFiniteSet({0} \cup {estimate[w]})
      BY <3>2, FS_AddElement, Zenon
    <3>4. QED
      BY <3>1, <3>3
  <2>3. Max({0, estimate[w]}) \in {0, estimate[w]} /\ 0 <= Max({0, estimate[w]})
    BY <2>1, <2>2, MaxProperty
  <2>4. Duration(w) = Max({0, estimate[w]})
    BY <1>3 DEF Duration
  <2>5. QED
    BY <2>1, <2>3, <2>4
<1>4. QED
  BY <1>2, <1>3

\* The greatest of finitely many values and 0
LEMMA MaxOfValues ==
  ASSUME NEW S, IsFiniteSet(S), NEW g, \A v \in S : g[v] \in Nat
  PROVE  LET m == Max({0} \cup {g[v] : v \in S})
         IN  m \in Nat /\ (m = 0 \/ \E v \in S : m = g[v]) /\ \A v \in S : g[v] <= m
<1> DEFINE T == {g[v] : v \in S}
<1>1. IsFiniteSet(T)
  <2>1. [v \in S |-> g[v]] \in Surjection(S, T)
    BY DEF Surjection
  <2>2. QED
    BY <2>1, FS_Surjection
<1>2. T \subseteq Nat
  OBVIOUS
<1>3. \A x \in T : \E v \in S : x = g[v]
  OBVIOUS
<1>4. \A v \in S : g[v] \in T
  OBVIOUS
<1> HIDE DEF T
<1>5. IsFiniteSet({0} \cup T)
  <2>1. {0} \cup T = T \cup {0}
    OBVIOUS
  <2>2. QED
    BY <1>1, <2>1, FS_AddElement
<1>6. {0} \cup T \in SUBSET Int /\ {0} \cup T # {}
  BY <1>2
<1>7. Max({0} \cup T) \in {0} \cup T /\ \A x \in {0} \cup T : x <= Max({0} \cup T)
  BY <1>5, <1>6, MaxProperty
<1>8. Max({0} \cup T) \in Nat
  <2>1. {0} \cup T \subseteq Nat
    BY <1>2
  <2>2. QED
    BY <1>7, <2>1, Zenon
<1>9. QED
  BY <1>3, <1>4, <1>7, <1>8 DEF T

After(w, values) == Duration(w) + Max({0} \cup {values[v] : v \in successors[w]})

\* upward_ranks comes to an end, and a rank is a natural number: that of a WORK
\* is its duration and the greatest rank that follows.
LEMMA RankEquation ==
  ASSUME PInv
  PROVE  UpwardRanks \in [Work -> Nat] /\ \A w \in Work : UpwardRanks[w] = After(w, UpwardRanks)
<1> DEFINE F == [w \in Work |-> [g \in [successors[w] -> Nat] |-> After(w, g)]]
           Solves(f) == f = [w \in Work |-> After(w, f)]
<1>1. ASSUME NEW w \in Work, NEW g, \A v \in successors[w] : g[v] \in Nat
      PROVE  After(w, g) \in Nat
  <2>1. Max({0} \cup {g[v] : v \in successors[w]}) \in Nat
    BY <1>1, SuccessorFacts, MaxOfValues
  <2>2. QED
    BY <2>1, DurationNat DEF After
<1>2. \A w \in Work : \A g \in [successors[w] -> Nat] : F[w][g] = After(w, g)
  OBVIOUS
<1>3. Makes(F, Work, successors, Nat)
  BY <1>1, <1>2 DEF Makes
<1> HIDE DEF F
<1>4. PICK f \in [Work -> Nat] : Solution(f, F, Work, successors)
  <2>1. Dag(Work, successors)
    BY WorkFacts
  <2>2. QED
    BY <1>3, <2>1, Recursion, Zenon
<1>5. ASSUME NEW w \in Work PROVE f[w] = After(w, f)
  <2> DEFINE g == [v \in successors[w] |-> f[v]]
  <2>1. g \in [successors[w] -> Nat]
    BY SuccessorFacts
  <2>2. {g[v] : v \in successors[w]} = {f[v] : v \in successors[w]}
    OBVIOUS
  <2>3. f[w] = After(w, g)
    BY <1>2, <1>4, <2>1 DEF Solution
  <2> HIDE DEF g
  <2>4. QED
    BY <2>2, <2>3 DEF After
<1>6. Solves(f)
  BY <1>5
<1>7. UpwardRanks = CHOOSE r : Solves(r)
  BY DEF UpwardRanks, After
<1>8. Solves(UpwardRanks)
  BY <1>6, <1>7
<1> HIDE DEF Solves
<1>9. DOMAIN UpwardRanks = Work /\ \A w \in Work : UpwardRanks[w] = After(w, UpwardRanks)
  BY <1>8 DEF Solves
<1>10. UpwardRanks = [w \in Work |-> UpwardRanks[w]]
  BY <1>8, <1>9 DEF Solves
<1>11. \A w \in Work : UpwardRanks[w] \in Nat
  <2> DEFINE Bad == {w \in Work : UpwardRanks[w] \notin Nat}
  <2>1. ASSUME Bad # {} PROVE FALSE
    <3>1. PICK w \in Bad : \A v \in successors[w] : v \notin Bad
      BY <2>1, LastOf
    <3>2. \A v \in successors[w] : UpwardRanks[v] \in Nat
      BY <3>1, SuccessorFacts
    <3>3. QED
      BY <1>1, <1>9, <3>2
  <2>2. QED
    BY <2>1
<1>12. QED
  BY <1>9, <1>10, <1>11

-----------------------------------------------------------------------------
(* Descendants                                                             *)

\* descendant_counts comes to an end: the descendants of a WORK are its
\* successors and theirs.
LEMMA DescendantFacts ==
  ASSUME PInv
  PROVE  /\ Descendants \in [Work -> SUBSET Work]
         /\ \A w \in Work : \A v :
              v \in Descendants[w] <=> \E x \in successors[w] : v = x \/ v \in Descendants[x]
<1> DEFINE Below(w, sets) == UNION {{v} \cup sets[v] : v \in successors[w]}
           F == [w \in Work |-> [g \in [successors[w] -> SUBSET Work] |-> Below(w, g)]]
           Solves(f) == f = [w \in Work |-> Below(w, f)]
<1>1. ASSUME NEW w \in Work, NEW g, NEW v
      PROVE  v \in Below(w, g) <=> \E x \in successors[w] : v = x \/ v \in g[x]
  OBVIOUS
<1>2. ASSUME NEW w \in Work, NEW g, \A v \in successors[w] : g[v] \subseteq Work
      PROVE  Below(w, g) \subseteq Work
  BY <1>1, <1>2, SuccessorFacts
<1>3. \A w \in Work : \A g \in [successors[w] -> SUBSET Work] : F[w][g] = Below(w, g)
  OBVIOUS
<1>4. Makes(F, Work, successors, SUBSET Work)
  <2> HIDE DEF F, Below
  <2>1. ASSUME NEW w \in Work, NEW g \in [successors[w] -> SUBSET Work] PROVE F[w][g] \in SUBSET Work
    <3>1. \A v \in successors[w] : g[v] \subseteq Work
      OBVIOUS
    <3>2. Below(w, g) \subseteq Work
      BY <1>2, <3>1
    <3>3. QED
      BY <1>3, <3>2
  <2>2. QED
    BY <2>1 DEF Makes
<1> HIDE DEF F
<1>5. PICK f \in [Work -> SUBSET Work] : Solution(f, F, Work, successors)
  <2>1. Dag(Work, successors)
    BY WorkFacts
  <2>2. QED
    BY <1>4, <2>1, Recursion, Zenon
<1>6. ASSUME NEW w \in Work PROVE f[w] = Below(w, f)
  <2> DEFINE g == [v \in successors[w] |-> f[v]]
  <2>1. g \in [successors[w] -> SUBSET Work]
    BY SuccessorFacts
  <2>2. {{v} \cup g[v] : v \in successors[w]} = {{v} \cup f[v] : v \in successors[w]}
    OBVIOUS
  <2>3. f[w] = Below(w, g)
    <3> HIDE DEF Below
    <3>1. f[w] = F[w][g]
      BY <1>5 DEF Solution
    <3> HIDE DEF g
    <3>2. QED
      BY <1>3, <2>1, <3>1
  <2> HIDE DEF g
  <2>4. QED
    BY <2>2, <2>3
<1>7. Solves(f)
  <2> HIDE DEF Below
  <2>1. QED
    BY <1>6
<1>8. Descendants = CHOOSE r : Solves(r)
  BY DEF Descendants
<1> HIDE DEF Below
<1>9. Solves(Descendants)
  BY <1>7, <1>8
<1>10. \A w \in Work : Descendants[w] = Below(w, Descendants)
  BY <1>9
<1>11. Descendants = [w \in Work |-> Descendants[w]]
  BY <1>9, <1>10
<1>12. \A w \in Work : \A v :
         v \in Descendants[w] <=> \E x \in successors[w] : v = x \/ v \in Descendants[x]
  BY <1>1, <1>10
<1>13. \A w \in Work : Descendants[w] \subseteq Work
  <2> DEFINE Bad == {w \in Work : ~ (Descendants[w] \subseteq Work)}
  <2>1. ASSUME Bad # {} PROVE FALSE
    <3>1. PICK w \in Bad : \A v \in successors[w] : v \notin Bad
      BY <2>1, LastOf
    <3>2. \A v \in successors[w] : Descendants[v] \subseteq Work
      BY <3>1, SuccessorFacts
    <3>3. QED
      BY <1>2, <1>10, <3>2
  <2>2. QED
    BY <2>1
<1>14. QED
  BY <1>11, <1>12, <1>13

\* No WORK comes after itself.
LEMMA NotAfterItself ==
  ASSUME PInv, NEW w \in Work
  PROVE  w \notin Descendants[w]
<1> SUFFICES ASSUME w \in Descendants[w] PROVE FALSE
  OBVIOUS
<1> DEFINE S == {v \in Work : w \in Descendants[v]}
<1>1. PICK v \in S : \A x \in successors[v] : x \notin S
  BY LastOf
<1>2. PICK x \in successors[v] : w = x \/ w \in Descendants[x]
  BY DescendantFacts
<1>3. x \in S
  BY <1>2, SuccessorFacts
<1>4. QED
  BY <1>1, <1>2, <1>3

\* A WORK has more descendants than any of its successors.
LEMMA CountFacts ==
  ASSUME PInv
  PROVE  /\ DescendantCounts \in [Work -> Nat]
         /\ \A w \in Work : \A v \in successors[w] : DescendantCounts[v] < DescendantCounts[w]
<1>1. \A w \in Work : IsFiniteSet(Descendants[w]) /\ Cardinality(Descendants[w]) \in Nat
  <2> SUFFICES ASSUME NEW w \in Work PROVE IsFiniteSet(Descendants[w]) /\ Cardinality(Descendants[w]) \in Nat
    OBVIOUS
  <2>1. Descendants[w] \in SUBSET Work
    BY DescendantFacts
  <2>2. QED
    BY <2>1, WorkFacts, FS_Subset, FS_CardinalityType
<1>2. DescendantCounts \in [Work -> Nat]
  BY <1>1 DEF DescendantCounts
<1>3. ASSUME NEW w \in Work, NEW v \in successors[w] PROVE DescendantCounts[v] < DescendantCounts[w]
  <2>1. v \in Work
    BY SuccessorFacts
  <2>2. Descendants[v] \cup {v} \subseteq Descendants[w]
    BY DescendantFacts
  <2>3. Cardinality(Descendants[v] \cup {v}) = Cardinality(Descendants[v]) + 1
    BY <1>1, <2>1, NotAfterItself, FS_AddElement
  <2>4. Cardinality(Descendants[v] \cup {v}) <= Cardinality(Descendants[w])
    BY <1>1, <2>2, FS_Subset
  <2>5. Cardinality(Descendants[v]) + 1 <= Cardinality(Descendants[w])
    BY <2>3, <2>4
  <2>6. QED
    BY <1>1, <2>1, <2>5 DEF DescendantCounts
<1>4. QED
  BY <1>2, <1>3

-----------------------------------------------------------------------------
(* Orders                                                                  *)

Before(score, v, w) == score[v] > score[w] \/ (score[v] = score[w] /\ v < w)
Sorted(score, s) == \A j \in DOMAIN s : \A i \in 1 .. j - 1 : Before(score, s[i], s[j])

\* Before is a strict total order.
LEMMA BeforeOrder ==
  ASSUME PInv, NEW score \in [Work -> Int], NEW u \in Work, NEW v \in Work, NEW w \in Work
  PROVE  /\ ~ Before(score, u, u)
         /\ u # v => Before(score, u, v) \/ Before(score, v, u)
         /\ Before(score, u, v) /\ Before(score, v, w) => Before(score, u, w)
<1>1. u \in Int /\ v \in Int /\ w \in Int
  BY WorkFacts, PolicyAssumption
<1>2. score[u] \in Int /\ score[v] \in Int /\ score[w] \in Int
  OBVIOUS
<1>3. QED
  BY <1>1, <1>2 DEF Before

\* Of any WORK one is the last.
LEMMA LastInOrder ==
  ASSUME PInv, NEW score \in [Work -> Int], NEW S \in SUBSET Work, S # {}
  PROVE  \E m \in S : \A v \in S \ {m} : Before(score, v, m)
<1> DEFINE HasLast(T) == \E m \in T : \A v \in T \ {m} : Before(score, v, m)
           Bad == {T \in SUBSET S : T # {} /\ ~ HasLast(T)}
<1>1. ASSUME Bad # {} PROVE FALSE
  <2>1. IsFiniteSet(S)
    BY WorkFacts, FS_Subset
  <2>2. PICK T \in Bad : \A x \in T : T \ {x} \notin Bad
    BY <1>1, <2>1, SmallestSet
  <2>3. PICK x \in T : TRUE
    OBVIOUS
  <2>4. CASE T \ {x} = {}
    BY <2>4
  <2>5. CASE T \ {x} # {}
    <3>1. PICK m \in T \ {x} : \A v \in (T \ {x}) \ {m} : Before(score, v, m)
      BY <2>2, <2>5
    <3>2. \A v \in T : v \in Work
      OBVIOUS
    <3>3. CASE Before(score, x, m)
      <4>1. \A v \in T \ {m} : Before(score, v, m)
        BY <3>1, <3>3
      <4>2. QED
        BY <4>1
    <3>4. CASE Before(score, m, x)
      <4>1. \A v \in T \ {x} : Before(score, v, x)
        BY <3>1, <3>2, <3>4, BeforeOrder
      <4>2. QED
        BY <4>1
    <3>5. QED
      BY <3>2, <3>3, <3>4, BeforeOrder
  <2>6. QED
    BY <2>4, <2>5
<1>2. S \notin Bad
  BY <1>1
<1>3. QED
  BY <1>2

\* Any WORK can be put in order.
LEMMA SortedExists ==
  ASSUME PInv, NEW score \in [Work -> Int], NEW S \in SUBSET Work
  PROVE  \E s \in [1 .. Cardinality(S) -> S] : Sorted(score, s)
<1> DEFINE Sortable(T) == \E s \in [1 .. Cardinality(T) -> T] : Sorted(score, s)
           Bad == {T \in SUBSET S : ~ Sortable(T)}
<1>1. ASSUME Bad # {} PROVE FALSE
  <2>1. IsFiniteSet(S)
    BY WorkFacts, FS_Subset
  <2>2. PICK T \in Bad : \A x \in T : T \ {x} \notin Bad
    <3>1. \A T \in Bad : T \subseteq S
      OBVIOUS
    <3> HIDE DEF Bad
    <3>2. QED
      BY <1>1, <2>1, <3>1, SmallestSet, Zenon
  <2>3. T \subseteq S /\ IsFiniteSet(T) /\ Cardinality(T) \in Nat
    BY <2>1, FS_Subset, FS_CardinalityType
  <2>4. CASE T = {}
    <3>1. Cardinality(T) = 0
      BY <2>4, FS_EmptySet
    <3>2. [i \in 1 .. 0 |-> i] \in [1 .. Cardinality(T) -> T] /\ Sorted(score, [i \in 1 .. 0 |-> i])
      BY <2>4, <3>1 DEF Sorted
    <3>3. QED
      BY <3>2
  <2>5. CASE T # {}
    <3>1. PICK m \in T : \A v \in T \ {m} : Before(score, v, m)
      BY <2>3, <2>5, LastInOrder
    <3> DEFINE n == Cardinality(T)
    <3>2. Cardinality(T \ {m}) = n - 1 /\ n - 1 \in Nat
      <4>1. IsFiniteSet(T \ {m}) /\ Cardinality(T \ {m}) = n - 1
        BY <2>3, FS_RemoveElement
      <4>2. Cardinality(T \ {m}) \in Nat
        BY <4>1, FS_CardinalityType, Zenon
      <4>3. QED
        BY <4>1, <4>2
    <3>3. Sortable(T \ {m})
      BY <2>2, <2>3
    <3>4. PICK s \in [1 .. n - 1 -> T \ {m}] : Sorted(score, s)
      BY <3>2, <3>3
    <3> DEFINE t == [i \in 1 .. n |-> IF i = n THEN m ELSE s[i]]
    <3> HIDE DEF n
    <3>5. n \in Nat
      BY <2>3 DEF n
    <3>6. t \in [1 .. n -> T]
      BY <3>5
    <3>7. ASSUME NEW j \in 1 .. n, NEW i \in 1 .. j - 1 PROVE Before(score, t[i], t[j])
      <4>1. i \in 1 .. n - 1 /\ t[i] = s[i] /\ s[i] \in T \ {m}
        BY <3>5
      <4>2. CASE j = n
        <5>1. t[j] = m
          BY <4>2
        <5>2. QED
          BY <3>1, <4>1, <5>1
      <4>3. CASE j # n
        <5>1. j \in 1 .. n - 1 /\ t[j] = s[j]
          BY <3>5, <4>3
        <5>2. QED
          BY <3>4, <4>1, <5>1 DEF Sorted
      <4>4. QED
        BY <4>2, <4>3
    <3>8. DOMAIN t = 1 .. n
      OBVIOUS
    <3> HIDE DEF t
    <3>9. Sorted(score, t)
      BY <3>7, <3>8 DEF Sorted
    <3>10. QED
      BY <3>6, <3>9 DEF n
  <2>6. QED
    BY <2>4, <2>5
<1>2. S \notin Bad
  BY <1>1
<1>3. QED
  BY <1>2

\* Every element of S is at one place of s.
Enumerates(s, n, S) ==
  /\ \A v \in S : \E i \in 1 .. n : s[i] = v
  /\ \A i \in 1 .. n : \A j \in 1 .. n : i < j => s[i] # s[j]

\* In an order every WORK has one place ...
LEMMA SortedOnto ==
  ASSUME PInv, NEW score \in [Work -> Int], NEW S \in SUBSET Work,
         NEW s \in [1 .. Cardinality(S) -> S], Sorted(score, s)
  PROVE  Cardinality(S) \in Nat /\ Enumerates(s, Cardinality(S), S)
<1>1. IsFiniteSet(S) /\ Cardinality(S) \in Nat
  BY WorkFacts, FS_Subset, FS_CardinalityType
<1>2. ASSUME NEW i \in 1 .. Cardinality(S), NEW j \in 1 .. Cardinality(S), i < j PROVE s[i] # s[j]
  <2>1. i \in 1 .. j - 1
    BY <1>1, <1>2
  <2>2. Before(score, s[i], s[j])
    BY <2>1 DEF Sorted
  <2>3. s[i] \in Work
    OBVIOUS
  <2>4. QED
    BY <2>2, <2>3, BeforeOrder
<1>3. IsFiniteSet(1 .. Cardinality(S)) /\ Cardinality(1 .. Cardinality(S)) = Cardinality(S)
  BY <1>1, FS_Interval
<1>4. s \in Injection(1 .. Cardinality(S), S)
  <2>1. ASSUME NEW i \in 1 .. Cardinality(S), NEW j \in 1 .. Cardinality(S), s[i] = s[j] PROVE i = j
    BY <1>1, <1>2, <2>1
  <2>2. QED
    BY <2>1 DEF Injection, IsInjective
<1>5. s \in Surjection(1 .. Cardinality(S), S)
  BY <1>1, <1>3, <1>4, FS_Injection
<1>6. \A v \in S : \E i \in 1 .. Cardinality(S) : s[i] = v
  BY <1>5 DEF Surjection
<1>7. QED
  BY <1>1, <1>2, <1>6 DEF Enumerates

\* ... and there is one order only.
LEMMA SortedUnique ==
  ASSUME PInv, NEW score \in [Work -> Int], NEW S \in SUBSET Work,
         NEW s \in [1 .. Cardinality(S) -> S], Sorted(score, s),
         NEW t \in [1 .. Cardinality(S) -> S], Sorted(score, t)
  PROVE  s = t
<1> DEFINE n == Cardinality(S)
           Differ == {i \in 1 .. n : s[i] # t[i]}
<1>1. n \in Nat /\ Enumerates(s, n, S) /\ Enumerates(t, n, S)
  BY SortedOnto
<1>2. ASSUME Differ # {} PROVE FALSE
  <2>1. Differ \in SUBSET Nat
    BY <1>1
  <2>2. PICK i \in Differ : \A k \in Differ : i <= k
    BY <1>2, <2>1, LeastNat
  <2>3. \A k \in 1 .. n : k < i => s[k] = t[k]
    BY <1>1, <2>2
  <2>4. s[i] \in S /\ t[i] \in S /\ s[i] # t[i] /\ i \in 1 .. n
    OBVIOUS
  <2>5. PICK k \in 1 .. n : t[k] = s[i]
    BY <1>1, <2>4 DEF Enumerates
  <2>6. PICK l \in 1 .. n : s[l] = t[i]
    BY <1>1, <2>4 DEF Enumerates
  <2>7. i < k
    <3>1. k # i
      BY <2>4, <2>5
    <3>2. ASSUME k < i PROVE FALSE
      <4>1. s[k] = s[i]
        BY <2>3, <2>5, <3>2
      <4>2. QED
        BY <1>1, <2>4, <3>2, <4>1 DEF Enumerates
    <3>3. QED
      BY <1>1, <2>4, <3>1, <3>2
  <2>8. i < l
    <3>1. l # i
      BY <2>4, <2>6
    <3>2. ASSUME l < i PROVE FALSE
      <4>1. t[l] = t[i]
        BY <2>3, <2>6, <3>2
      <4>2. QED
        BY <1>1, <2>4, <3>2, <4>1 DEF Enumerates
    <3>3. QED
      BY <1>1, <2>4, <3>1, <3>2
  <2>9. Before(score, t[i], t[k])
    <3>1. i \in 1 .. k - 1
      BY <1>1, <2>4, <2>7
    <3>2. QED
      BY <3>1 DEF Sorted
  <2>10. Before(score, s[i], s[l])
    <3>1. i \in 1 .. l - 1
      BY <1>1, <2>4, <2>8
    <3>2. QED
      BY <3>1 DEF Sorted
  <2>11. s[i] \in Work /\ t[i] \in Work
    BY <2>4
  <2>12. QED
    BY <2>5, <2>6, <2>9, <2>10, <2>11, BeforeOrder
<1>3. \A i \in 1 .. n : s[i] = t[i]
  BY <1>2
<1>4. DOMAIN s = 1 .. n /\ DOMAIN t = 1 .. n
  OBVIOUS
<1>5. s = [i \in 1 .. n |-> s[i]] /\ t = [i \in 1 .. n |-> t[i]]
  BY <1>4
<1>6. QED
  BY <1>3, <1>5

\* What the policies return is an order of the candidates.
LEMMA OrderedSorted ==
  ASSUME PInv, NEW score \in [Work -> Int]
  PROVE  Ordered(score) \in Orders /\ Sorted(score, Ordered(score))
<1>1. \E s \in Orders : Sorted(score, s)
  BY SortedExists DEF Orders, Candidates
<1>2. Ordered(score) = CHOOSE s \in Orders : Sorted(score, s)
  BY DEF Ordered, Sorted, Before
<1>3. QED
  BY <1>1, <1>2

LEMMA ScoresAreIntegers ==
  ASSUME PInv
  PROVE  /\ UpwardRanks \in [Work -> Int]
         /\ DescendantCounts \in [Work -> Int]
         /\ \A w \in Work : Duration(w) \in Int
BY RankEquation, CountFacts, DurationNat

-----------------------------------------------------------------------------
(* CriticalFirst                                                           *)

\* A rank is not below that of a successor.
LEMMA RankGrows ==
  ASSUME PInv, NEW w \in Work, NEW v \in successors[w]
  PROVE  UpwardRanks[v] <= UpwardRanks[w]
<1> DEFINE m == Max({0} \cup {UpwardRanks[x] : x \in successors[w]})
<1>1. \A x \in successors[w] : UpwardRanks[x] \in Nat
  BY RankEquation, SuccessorFacts
<1>2. m \in Nat /\ UpwardRanks[v] <= m
  BY <1>1, SuccessorFacts, MaxOfValues
<1>3. UpwardRanks[w] = Duration(w) + m
  BY RankEquation DEF After
<1> HIDE DEF m
<1>4. QED
  BY <1>1, <1>2, <1>3, DurationNat

\* What comes after a successor of a WORK comes after the WORK.
LEMMA AfterPasses ==
  ASSUME PInv, NEW h \in Work, NEW p \in Work, NEW c \in successors[p], p = h \/ p \in Descendants[h]
  PROVE  c \in Descendants[h]
<1> DEFINE Bad == {w \in Work : p \in Descendants[w] /\ c \notin Descendants[w]}
<1>1. c \in Descendants[p]
  BY DescendantFacts
<1>2. ASSUME Bad # {} PROVE FALSE
  <2>1. PICK w \in Bad : \A v \in successors[w] : v \notin Bad
    BY <1>2, LastOf
  <2>2. PICK v \in successors[w] : p = v \/ p \in Descendants[v]
    BY <2>1, DescendantFacts
  <2>3. v \in Work
    BY SuccessorFacts
  <2>4. c \in Descendants[v]
    BY <1>1, <2>1, <2>2, <2>3
  <2>5. QED
    BY <2>2, <2>4, DescendantFacts
<1>3. QED
  BY <1>1, <1>2

\* Where nothing is held back, all WORK before is DONE or not held back either.
LEMMA OpenBackwards ==
  ASSUME PInv, NEW c \in Open, NEW p \in Work, c \in successors[p]
  PROVE  status[p] = "DONE" \/ p \in Open
<1> SUFFICES ASSUME status[p] # "DONE" PROVE p \in Open
  OBVIOUS
<1>1. p \notin Held
  <2>1. ASSUME p \in Held PROVE FALSE
    <3>1. c \in Descendants[p]
      BY AfterPasses
    <3>2. QED
      BY <2>1, <3>1 DEF Open
  <2>2. QED
    BY <2>1
<1>2. \A h \in Held : p \notin Descendants[h]
  <2>1. ASSUME NEW h \in Held, p \in Descendants[h] PROVE FALSE
    <3>1. h \in Work
      BY DEF Held
    <3>2. c \in Descendants[h]
      BY <2>1, <3>1, AfterPasses
    <3>3. QED
      BY <3>2 DEF Open
  <2>2. QED
    BY <2>1
<1>3. status[p] \in WorkStatus
  BY WorkFacts DEF PInv
<1>4. status[p] \in {"BLOCKED", "READY"}
  BY <1>1, <1>3 DEF Held, WorkStatus
<1>5. QED
  BY <1>1, <1>2, <1>4 DEF Open

\* WORK that only scheduling keeps back waits for a candidate that has no shorter way
\* to go: among such WORK of that rank or more, one with most descendants.
LEMMA CandidateInFront ==
  ASSUME PInv, NEW w \in Open
  PROVE  \E c \in Candidates : UpwardRanks[w] <= UpwardRanks[c]
<1> DEFINE S == {v \in Open : UpwardRanks[w] <= UpwardRanks[v]}
           count == [v \in Work |-> DescendantCounts[v]]
<1>1. \A v \in Work : UpwardRanks[v] \in Nat /\ DescendantCounts[v] \in Nat
  BY RankEquation, CountFacts
<1>2. S # {} /\ S \in SUBSET Work /\ w \in Work
  BY <1>1 DEF Open
<1>3. PICK c \in S : \A v \in S : DescendantCounts[v] <= DescendantCounts[c]
  <2> DEFINE T == {DescendantCounts[v] : v \in S}
  <2>1. IsFiniteSet(T)
    <3>1. [v \in S |-> DescendantCounts[v]] \in Surjection(S, T)
      BY DEF Surjection
    <3>2. IsFiniteSet(S)
      BY <1>2, WorkFacts, FS_Subset
    <3>3. QED
      BY <3>1, <3>2, FS_Surjection
  <2>2. T \in SUBSET Int /\ T # {}
    BY <1>1, <1>2
  <2>3. Max(T) \in T /\ \A x \in T : x <= Max(T)
    <3> HIDE DEF T
    <3>1. QED
      BY <2>1, <2>2, MaxProperty
  <2>4. QED
    BY <2>3
<1>4. ASSUME NEW p \in Predecessors(c) PROVE status[p] = "DONE"
  <2>1. p \in Work /\ c \in successors[p]
    BY DEF Predecessors
  <2>2. DescendantCounts[c] < DescendantCounts[p]
    BY <2>1, CountFacts
  <2>3. UpwardRanks[w] <= UpwardRanks[p]
    <3>1. UpwardRanks[c] <= UpwardRanks[p]
      BY <2>1, RankGrows
    <3>2. UpwardRanks[w] <= UpwardRanks[c]
      OBVIOUS
    <3>3. QED
      BY <1>1, <1>2, <2>1, <3>1, <3>2
  <2>4. p \notin S
    BY <1>1, <1>2, <1>3, <2>1, <2>2
  <2>5. QED
    BY <2>1, <2>3, <2>4, OpenBackwards
<1>5. c \in Candidates
  <2>1. c \in Work /\ status[c] \in {"BLOCKED", "READY"} /\ c \notin Held
    BY DEF Open
  <2>2. c \notin unusable
    BY <2>1 DEF Held
  <2>3. status[c] = Refreshed(status, unusable)[c]
    BY DEF PInv
  <2>4. status[c] = "READY"
    BY <1>4, <2>1, <2>2, <2>3 DEF Refreshed
  <2>5. QED
    BY <2>1, <2>4 DEF Candidates
<1>6. QED
  BY <1>5

LEMMA CriticalFirstHolds == PInv => CriticalFirst
<1> SUFFICES ASSUME PInv, NEW w \in Open
             PROVE  Candidates # {} /\ UpwardRanks[w] <= UpwardRanks[CriticalPath[1]]
  BY DEF CriticalFirst
<1> DEFINE n == Cardinality(Candidates)
<1>1. PICK c \in Candidates : UpwardRanks[w] <= UpwardRanks[c]
  BY CandidateInFront
<1>2. CriticalPath \in [1 .. n -> Candidates] /\ Sorted(UpwardRanks, CriticalPath)
  BY OrderedSorted, ScoresAreIntegers DEF CriticalPath, Orders
<1>3. Candidates \in SUBSET Work
  BY DEF Candidates
<1>4. n \in Nat /\ Enumerates(CriticalPath, n, Candidates)
  BY <1>2, <1>3, ScoresAreIntegers, SortedOnto
<1>5. PICK i \in 1 .. n : CriticalPath[i] = c
  BY <1>4 DEF Enumerates
<1> HIDE DEF n
<1>6. UpwardRanks[c] <= UpwardRanks[CriticalPath[1]]
  <2>1. 1 \in 1 .. n /\ CriticalPath[1] \in Work
    BY <1>2, <1>3, <1>4, <1>5
  <2>2. UpwardRanks[c] \in Int /\ UpwardRanks[CriticalPath[1]] \in Int
    BY <1>3, <2>1, ScoresAreIntegers
  <2>3. CASE i = 1
    BY <1>5, <2>2, <2>3
  <2>4. CASE i # 1
    <3>1. 1 \in 1 .. i - 1
      BY <1>4, <2>4
    <3>2. Before(UpwardRanks, CriticalPath[1], c)
      BY <1>2, <1>5, <3>1 DEF Sorted
    <3>3. QED
      BY <2>2, <3>2 DEF Before
  <2>5. QED
    BY <2>3, <2>4
<1>7. \A v \in Work : UpwardRanks[v] \in Int
  BY ScoresAreIntegers
<1>8. CriticalPath[1] \in Work /\ c \in Work /\ w \in Work
  BY <1>2, <1>3, <1>4, <1>5 DEF Open
<1>9. QED
  BY <1>1, <1>6, <1>7, <1>8

\* Whatever the graph, the metadata and the statuses: as long as some WORK is kept back
\* by scheduling alone, the policy critical_path has WORK to start with, and starts
\* with WORK that nothing so kept back outlasts.
THEOREM CriticalWorkFirst == PSpec => []CriticalFirst
BY SnapshotShape, CriticalFirstHolds, PTL

-----------------------------------------------------------------------------
(* HybridGeneralises                                                       *)

LEMMA HybridGeneralisesHolds == PInv => HybridGeneralises
<1> SUFFICES ASSUME PInv PROVE HybridGeneralises
  OBVIOUS
<1> DEFINE n == Cardinality(Candidates)
           score(cp, fo, du) == [w \in Work |-> cp * UpwardRanks[w] + fo * DescendantCounts[w] - du * Duration(w)]
           zero == [w \in Work |-> 0]
<1>1. \A w \in Work : UpwardRanks[w] \in Int /\ DescendantCounts[w] \in Int /\ Duration(w) \in Int
  BY ScoresAreIntegers
<1>2. Candidates \in SUBSET Work
  BY DEF Candidates
<1>3. Hybrid(0, 0, 0) = Fifo
  <2>1. score(0, 0, 0) = zero
    BY <1>1
  <2>2. zero \in [Work -> Int]
    OBVIOUS
  <2>3. Hybrid(0, 0, 0) = Ordered(zero)
    BY <2>1 DEF Hybrid
  <2>4. Ordered(zero) \in Orders /\ Sorted(zero, Ordered(zero))
    BY <2>2, OrderedSorted
  <2>5. ASSUME NEW s \in Orders
        PROVE  Sorted(zero, s) <=> \A j \in DOMAIN s : \A i \in 1 .. j - 1 : s[i] < s[j]
    <3>1. DOMAIN s = 1 .. n
      BY DEF Orders
    <3>2. ASSUME NEW j \in DOMAIN s, NEW i \in 1 .. j - 1 PROVE Before(zero, s[i], s[j]) <=> s[i] < s[j]
      <4>1. n \in Nat
        BY <1>2, WorkFacts, FS_Subset, FS_CardinalityType
      <4> HIDE DEF n
      <4>2. i \in 1 .. n /\ j \in 1 .. n
        BY <3>1, <4>1
      <4>3. s[i] \in Work /\ s[j] \in Work
        BY <1>2, <4>2 DEF Orders, n
      <4>4. zero[s[i]] = 0 /\ zero[s[j]] = 0
        BY <4>3
      <4> HIDE DEF zero
      <4>5. QED
        BY <4>4 DEF Before
    <3> HIDE DEF zero
    <3>3. QED
      BY <3>2 DEF Sorted
  <2> DEFINE Aged(s) == \A j \in DOMAIN s : \A i \in 1 .. j - 1 : s[i] < s[j]
  <2>6. Fifo = CHOOSE s \in Orders : Aged(s)
    BY DEF Fifo
  <2>7. \E s \in Orders : Aged(s)
    BY <2>4, <2>5
  <2> HIDE DEF Aged
  <2>8. Fifo \in Orders /\ Aged(Fifo)
    BY <2>6, <2>7
  <2>9. Sorted(zero, Fifo)
    BY <2>5, <2>8 DEF Aged
  <2> HIDE DEF zero
  <2>10. Fifo = Ordered(zero)
    BY <1>2, <2>2, <2>4, <2>8, <2>9, SortedUnique DEF Orders
  <2>11. QED
    BY <2>3, <2>10
<1>4. Hybrid(1, 0, 0) = CriticalPath
  <2>1. UpwardRanks = [w \in Work |-> UpwardRanks[w]]
    BY ScoresAreIntegers
  <2>2. score(1, 0, 0) = UpwardRanks
    <3>1. \A w \in Work : 1 * UpwardRanks[w] + 0 * DescendantCounts[w] - 0 * Duration(w) = UpwardRanks[w]
      BY <1>1
    <3>2. QED
      BY <2>1, <3>1
  <2>3. QED
    BY <2>2 DEF Hybrid, CriticalPath
<1>5. Hybrid(0, 1, 0) = Fanout
  <2>1. DescendantCounts = [w \in Work |-> DescendantCounts[w]]
    BY ScoresAreIntegers
  <2>2. score(0, 1, 0) = DescendantCounts
    <3>1. \A w \in Work : 0 * UpwardRanks[w] + 1 * DescendantCounts[w] - 0 * Duration(w) = DescendantCounts[w]
      BY <1>1
    <3>2. QED
      BY <2>1, <3>1
  <2>3. QED
    BY <2>2 DEF Hybrid, Fanout
<1>6. ASSUME NEW v \in Candidates, NEW w \in Candidates, Duration(v) < Duration(w)
      PROVE  \E i, j \in 1 .. Len(Hybrid(0, 0, 1)) : i < j /\ Hybrid(0, 0, 1)[i] = v /\ Hybrid(0, 0, 1)[j] = w
  <2> DEFINE s == Hybrid(0, 0, 1)
             q == score(0, 0, 1)
  <2>1. \A x \in Work : q[x] = 0 - Duration(x)
    BY <1>1
  <2>2. q \in [Work -> Int]
    BY <1>1
  <2>3. s = Ordered(q)
    BY DEF Hybrid
  <2> HIDE DEF q, s
  <2>4. s \in [1 .. n -> Candidates] /\ Sorted(q, s)
    BY <2>2, <2>3, OrderedSorted DEF Orders
  <2>5. n \in Nat /\ Enumerates(s, n, Candidates)
    BY <1>2, <2>2, <2>4, SortedOnto
  <2>6. PICK i \in 1 .. n : s[i] = v
    BY <2>5 DEF Enumerates
  <2>7. PICK j \in 1 .. n : s[j] = w
    BY <2>5 DEF Enumerates
  <2>8. v \in Work /\ w \in Work
    BY <1>2
  <2>9. ~ Before(q, w, v)
    BY <1>1, <1>6, <2>1, <2>8 DEF Before
  <2> HIDE DEF n
  <2>10. i # j
    BY <1>1, <1>6, <2>6, <2>7, <2>8
  <2>11. ~ (j < i)
    <3>1. ASSUME j < i PROVE FALSE
      <4>1. j \in 1 .. i - 1 /\ i \in DOMAIN s
        BY <2>4, <2>5, <3>1
      <4>2. Before(q, s[j], s[i])
        BY <2>4, <4>1 DEF Sorted
      <4>3. QED
        BY <2>6, <2>7, <2>9, <4>2
    <3>2. QED
      BY <3>1
  <2>12. i < j
    BY <2>5, <2>10, <2>11
  <2>13. Len(s) = n
    BY <2>4, <2>5
  <2>14. \E x, y \in 1 .. Len(s) : x < y /\ s[x] = v /\ s[y] = w
    BY <2>6, <2>7, <2>12, <2>13
  <2>15. QED
    BY <2>14 DEF s
<1> HIDE DEF n, score, zero
<1>7. QED
  BY <1>3, <1>4, <1>5, <1>6 DEF HybridGeneralises

\* The hybrid order contains the three others as special cases, for every graph.
THEOREM HybridIsGeneral == PSpec => []HybridGeneralises
BY SnapshotShape, HybridGeneralisesHolds, PTL

-----------------------------------------------------------------------------
(* Paths                                                                   *)

IsPath(s, k) == s \in [1 .. k -> Work] /\ \A i \in 1 .. k - 1 : s[i + 1] \in successors[s[i]]

\* A path of an acyclic graph visits no WORK twice, so none is longer than MaxWork.
LEMMA PathBound ==
  ASSUME PInv, NEW k \in Nat, NEW s, IsPath(s, k)
  PROVE  k <= MaxWork
<1>1. ASSUME NEW i \in 1 .. k, NEW j \in 1 .. k, i < j PROVE s[i] # s[j]
  <2> SUFFICES ASSUME s[i] = s[j] PROVE FALSE
    OBVIOUS
  <2> DEFINE S == {s[m] : m \in i .. j - 1}
  <2>1. s[i] \in S
    BY <1>1
  <2>2. S \in SUBSET Work
    BY DEF IsPath
  <2>3. \A w \in S : \E m \in i .. j - 1 : w = s[m]
    OBVIOUS
  <2>4. \A m \in i .. j - 1 : s[m] \in S
    OBVIOUS
  <2> HIDE DEF S
  <2>5. PICK w \in S : \A v \in successors[w] : v \notin S
    BY <2>1, <2>2, LastOf
  <2>6. PICK m \in i .. j - 1 : w = s[m]
    BY <2>3
  <2>7. s[m + 1] \in successors[w]
    BY <2>6 DEF IsPath
  <2>8. s[m + 1] \in S
    <3>1. CASE m = j - 1
      <4>1. m + 1 = j
        BY <3>1
      <4>2. QED
        BY <2>1, <4>1
    <3>2. CASE m # j - 1
      <4>1. m + 1 \in i .. j - 1
        BY <3>2
      <4>2. QED
        BY <2>4, <4>1
    <3>3. QED
      BY <3>1, <3>2
  <2>9. QED
    BY <2>5, <2>7, <2>8
<1>2. s \in Injection(1 .. k, Work)
  <2>1. ASSUME NEW i \in 1 .. k, NEW j \in 1 .. k, s[i] = s[j] PROVE i = j
    BY <1>1, <2>1
  <2>2. QED
    BY <2>1 DEF Injection, IsInjective, IsPath
<1>3. Cardinality(1 .. k) <= Cardinality(Work)
  BY <1>2, WorkFacts, FS_Injection
<1>4. Cardinality(1 .. k) = k
  BY FS_Interval
<1>5. QED
  BY <1>3, <1>4, WorkFacts

\* Paths has every path.
LEMMA PathFacts ==
  ASSUME PInv
  PROVE  /\ \A s \in Paths : Len(s) \in Nat \ {0} /\ IsPath(s, Len(s))
         /\ \A k \in Nat \ {0} : \A s : IsPath(s, k) => s \in Paths /\ Len(s) = k
<1>1. ASSUME NEW s \in Paths PROVE Len(s) \in Nat \ {0} /\ IsPath(s, Len(s))
  <2>1. PICK k \in 1 .. MaxWork : s \in [1 .. k -> Work]
    BY DEF Paths
  <2>2. k \in Nat \ {0}
    BY <2>1, PolicyAssumption
  <2>3. Len(s) = k
    BY <2>1, <2>2
  <2>4. \A i \in 1 .. Len(s) - 1 : s[i + 1] \in successors[s[i]]
    BY DEF Paths
  <2>5. QED
    BY <2>1, <2>2, <2>3, <2>4 DEF IsPath
<1>2. ASSUME NEW k \in Nat \ {0}, NEW s, IsPath(s, k) PROVE s \in Paths /\ Len(s) = k
  <2>1. k \in 1 .. MaxWork
    BY <1>2, PathBound, PolicyAssumption
  <2>2. s \in [1 .. k -> Work]
    BY <1>2 DEF IsPath
  <2>3. Len(s) = k
    BY <2>2
  <2>4. \A i \in 1 .. Len(s) - 1 : s[i + 1] \in successors[s[i]]
    BY <1>2, <2>3 DEF IsPath
  <2>5. s \in UNION {[1 .. n -> Work] : n \in 1 .. MaxWork}
    BY <2>1, <2>2
  <2>6. QED
    BY <2>3, <2>4, <2>5 DEF Paths
<1>3. QED
  BY <1>1, <1>2

Alone(w) == [i \in 1 .. 1 |-> w]
Longer(w, s, k) == [i \in 1 .. k + 1 |-> IF i = 1 THEN w ELSE s[i - 1]]

LEMMA AloneIsPath == ASSUME NEW w \in Work PROVE IsPath(Alone(w), 1) /\ Alone(w)[1] = w
BY DEF IsPath, Alone

\* A path can be prolonged by a predecessor of its first WORK.
LEMMA LongerIsPath ==
  ASSUME PInv, NEW w \in Work, NEW k \in Nat \ {0}, NEW s, IsPath(s, k), s[1] \in successors[w]
  PROVE  /\ IsPath(Longer(w, s, k), k + 1)
         /\ Longer(w, s, k)[1] = w
         /\ \A i \in 1 .. k : Longer(w, s, k)[i + 1] = s[i]
<1> DEFINE t == Longer(w, s, k)
<1>1. s \in [1 .. k -> Work]
  BY DEF IsPath
<1>2. t[1] = w
  BY DEF Longer
<1>3. \A i \in 1 .. k : t[i + 1] = s[i]
  BY DEF Longer
<1>4. t \in [1 .. k + 1 -> Work]
  BY <1>1 DEF Longer
<1>5. ASSUME NEW i \in 1 .. (k + 1) - 1 PROVE t[i + 1] \in successors[t[i]]
  <2>1. t[i + 1] = s[i]
    BY <1>3
  <2>2. CASE i = 1
    BY <1>2, <2>1, <2>2
  <2>3. CASE i # 1
    <3>1. i - 1 \in 1 .. k - 1 /\ i - 1 \in 1 .. k /\ (i - 1) + 1 = i
      BY <2>3
    <3>2. s[i] \in successors[s[i - 1]]
      BY <3>1 DEF IsPath
    <3>3. t[i] = s[i - 1]
      BY <1>3, <3>1
    <3>4. QED
      BY <2>1, <3>2, <3>3
  <2>4. QED
    BY <2>2, <2>3
<1>6. QED
  BY <1>2, <1>3, <1>4, <1>5 DEF IsPath

-----------------------------------------------------------------------------
(* CountIsReachability                                                     *)

\* The end of a path comes after every other WORK on it.
LEMMA EndOfPath ==
  ASSUME PInv, NEW k \in Nat \ {0}, NEW s, IsPath(s, k), NEW i \in 1 .. k - 1
  PROVE  s[k] \in Descendants[s[i]]
<1> DEFINE Bad == {m \in 1 .. k - 1 : s[k] \notin Descendants[s[k - m]]}
<1>1. ASSUME Bad # {} PROVE FALSE
  <2>1. Bad \in SUBSET Nat
    OBVIOUS
  <2>2. PICK m \in Bad : \A n \in Bad : m <= n
    BY <1>1, <2>1, LeastNat
  <2>3. m \in 1 .. k - 1
    OBVIOUS
  <2>4. k - m \in 1 .. k - 1 /\ (k - m) + 1 = k - (m - 1)
    BY <2>3
  <2>5. s[k - m] \in Work /\ s[k - (m - 1)] \in successors[s[k - m]]
    BY <2>4 DEF IsPath
  <2>6. CASE m = 1
    <3>1. k - (m - 1) = k
      BY <2>6
    <3>2. s[k] \in Descendants[s[k - m]]
      BY <2>5, <3>1, DescendantFacts
    <3>3. QED
      BY <3>2
  <2>7. CASE m # 1
    <3>1. m - 1 \in 1 .. k - 1 /\ m - 1 < m
      BY <2>3, <2>7
    <3>2. m - 1 \notin Bad
      <4>1. m \in Int
        BY <2>3
      <4>2. ~ (m <= m - 1)
        BY <4>1
      <4> HIDE DEF Bad
      <4>3. QED
        BY <2>2, <4>2, Zenon
    <3>3. s[k] \in Descendants[s[k - (m - 1)]]
      BY <3>1, <3>2
    <3>4. s[k] \in Descendants[s[k - m]]
      BY <2>5, <3>3, DescendantFacts
    <3>5. QED
      BY <3>4
  <2>8. QED
    BY <2>6, <2>7
<1>2. k - i \in 1 .. k - 1 /\ k - (k - i) = i
  OBVIOUS
<1>3. k - i \notin Bad
  BY <1>1
<1>4. QED
  BY <1>2, <1>3

Leads(w, v) == \E k \in Nat \ {0} : \E s : IsPath(s, k) /\ s[1] = w /\ s[k] = v

\* A path leads to every descendant.
LEMMA PathToDescendant ==
  ASSUME PInv, NEW w \in Work, NEW v \in Descendants[w]
  PROVE  Leads(w, v)
<1> DEFINE Bad == {u \in Work : ~ \A x \in Descendants[u] : Leads(u, x)}
<1>1. ASSUME Bad # {} PROVE FALSE
  <2>1. PICK u \in Bad : \A y \in successors[u] : y \notin Bad
    BY <1>1, LastOf
  <2>2. ASSUME NEW x \in Descendants[u] PROVE Leads(u, x)
    <3>1. PICK y \in successors[u] : x = y \/ x \in Descendants[y]
      BY DescendantFacts
    <3>2. y \in Work
      BY SuccessorFacts
    <3>3. Leads(y, x)
      <4>1. CASE x = y
        BY <3>2, <4>1, AloneIsPath DEF Leads
      <4>2. CASE x \in Descendants[y]
        BY <2>1, <3>2, <4>2
      <4>3. QED
        BY <3>1, <4>1, <4>2
    <3>4. PICK k \in Nat \ {0} : \E s : IsPath(s, k) /\ s[1] = y /\ s[k] = x
      BY <3>3 DEF Leads
    <3>5. PICK s : IsPath(s, k) /\ s[1] = y /\ s[k] = x
      BY <3>4
    <3>6. IsPath(Longer(u, s, k), k + 1) /\ Longer(u, s, k)[1] = u /\ Longer(u, s, k)[k + 1] = x
      BY <3>5, LongerIsPath
    <3>7. k + 1 \in Nat \ {0}
      OBVIOUS
    <3>8. QED
      BY <3>6, <3>7 DEF Leads
  <2>3. QED
    BY <2>2
<1>2. w \notin Bad
  BY <1>1
<1>3. QED
  BY <1>2

LEMMA CountIsReachabilityHolds == PInv => CountIsReachability
<1> SUFFICES ASSUME PInv, NEW w \in Work
             PROVE  DescendantCounts[w]
                      = Cardinality({v \in Work \ {w} : \E s \in Paths : s[1] = w /\ s[Len(s)] = v})
  BY DEF CountIsReachability
<1> DEFINE Reached == {v \in Work \ {w} : \E s \in Paths : s[1] = w /\ s[Len(s)] = v}
<1>1. ASSUME NEW v \in Reached PROVE v \in Descendants[w]
  <2>1. PICK s \in Paths : s[1] = w /\ s[Len(s)] = v
    OBVIOUS
  <2> DEFINE k == Len(s)
  <2>2. k \in Nat \ {0} /\ IsPath(s, k)
    BY PathFacts
  <2>3. k # 1 /\ s[k] = v
    BY <2>1
  <2> HIDE DEF k
  <2>4. 1 \in 1 .. k - 1
    BY <2>2, <2>3
  <2>5. QED
    BY <2>1, <2>2, <2>3, <2>4, EndOfPath
<1>2. ASSUME NEW v \in Descendants[w] PROVE v \in Reached
  <2>1. v \in Work /\ v # w
    BY DescendantFacts, NotAfterItself
  <2>2. PICK k \in Nat \ {0} : \E s : IsPath(s, k) /\ s[1] = w /\ s[k] = v
    BY PathToDescendant DEF Leads
  <2>3. PICK s : IsPath(s, k) /\ s[1] = w /\ s[k] = v
    BY <2>2
  <2>4. s \in Paths /\ Len(s) = k
    BY <2>3, PathFacts
  <2>5. QED
    BY <2>1, <2>3, <2>4
<1>3. Descendants[w] = Reached
  BY <1>1, <1>2
<1>4. QED
  BY <1>3 DEF DescendantCounts

\* The count of the policy fanout is the number of WORK that a path leads to,
\* each counted once, in every acyclic graph.
THEOREM FanoutCountsReachable == PSpec => []CountIsReachability
BY SnapshotShape, CountIsReachabilityHolds, PTL

-----------------------------------------------------------------------------
(* RankIsLongestPath                                                       *)

\* t[i] is the time of the path s from its place i on.
Elapses(t, s, k) == t \in [1 .. k -> Nat] /\ \A i \in 1 .. k : t[i] = Duration(s[i]) + (IF i = k THEN 0 ELSE t[i + 1])

LEMMA ChainIsDag ==
  ASSUME NEW k \in Nat
  PROVE  Dag(1 .. k, [i \in 1 .. k |-> {i + 1} \cap 1 .. k])
<1> DEFINE next == [i \in 1 .. k |-> {i + 1} \cap 1 .. k]
<1>1. IsFiniteSet(1 .. k)
  BY FS_Interval
<1>2. next \in [1 .. k -> SUBSET (1 .. k)]
  OBVIOUS
<1>3. ASSUME NEW S \in (SUBSET (1 .. k)) \ {{}} PROVE \E i \in S : next[i] \cap S = {}
  <2>1. S \in SUBSET Int /\ S # {} /\ IsFiniteSet(S)
    <3>1. S \in SUBSET (1 .. k) /\ S # {}
      OBVIOUS
    <3>2. IsFiniteSet(S)
      BY <1>1, <3>1, FS_Subset, Zenon
    <3>3. QED
      BY <3>1, <3>2
  <2>2. Max(S) \in S /\ \A j \in S : j <= Max(S)
    BY <2>1, MaxProperty
  <2>3. PICK i \in S : \A j \in S : j <= i
    BY <2>2
  <2>4. i \in 1 .. k /\ i + 1 \notin S
    BY <2>3
  <2>5. next[i] \cap S = {}
    BY <2>4
  <2>6. QED
    BY <2>5
<1>4. QED
  BY <1>1, <1>2, <1>3 DEF Dag

\* The total time of a path is its first Elapses.
LEMMA TimeEquation ==
  ASSUME PInv, NEW k \in Nat \ {0}, NEW s, IsPath(s, k)
  PROVE  \E t : Elapses(t, s, k) /\ TotalTime(s) = t[1]
<1> DEFINE next == [i \in 1 .. k |-> {i + 1} \cap 1 .. k]
           From(i, g) == Duration(s[i]) + (IF i = k THEN 0 ELSE g[i + 1])
           F == [i \in 1 .. k |-> [g \in [next[i] -> Nat] |-> From(i, g)]]
           Solves(t) == t = [i \in 1 .. k |-> From(i, t)]
<1>1. \A i \in 1 .. k : Duration(s[i]) \in Nat
  BY DurationNat DEF IsPath
<1>2. \A i \in 1 .. k : i # k => i + 1 \in next[i]
  OBVIOUS
<1>3. ASSUME NEW i \in 1 .. k, NEW g, i # k => g[i + 1] \in Nat PROVE From(i, g) \in Nat
  BY <1>1, <1>3
<1>4. \A i \in 1 .. k : \A g \in [next[i] -> Nat] : F[i][g] = From(i, g)
  OBVIOUS
<1> HIDE DEF F
<1>5. Makes(F, 1 .. k, next, Nat)
  <2> HIDE DEF From
  <2>1. ASSUME NEW i \in 1 .. k, NEW g \in [next[i] -> Nat] PROVE F[i][g] \in Nat
    <3>1. i # k => g[i + 1] \in Nat
      BY <1>2
    <3>2. From(i, g) \in Nat
      BY <1>3, <3>1
    <3>3. QED
      BY <1>4, <3>2
  <2> HIDE DEF next
  <2>2. QED
    BY <2>1 DEF Makes
<1>6. PICK f \in [1 .. k -> Nat] : Solution(f, F, 1 .. k, next)
  <2>1. Dag(1 .. k, next)
    BY ChainIsDag
  <2> HIDE DEF next
  <2>2. QED
    BY <1>5, <2>1, Recursion, Zenon
<1>7. ASSUME NEW i \in 1 .. k PROVE f[i] = From(i, f)
  <2> DEFINE g == [j \in next[i] |-> f[j]]
  <2>1. g \in [next[i] -> Nat]
    OBVIOUS
  <2>2. i # k => g[i + 1] = f[i + 1]
    BY <1>2
  <2>3. f[i] = F[i][g]
    BY <1>6 DEF Solution
  <2> HIDE DEF g, next
  <2>4. F[i][g] = From(i, g)
    <3> HIDE DEF From
    <3>1. QED
      BY <1>4, <2>1
  <2>5. QED
    BY <2>2, <2>3, <2>4
<1>8. Solves(f)
  <2> HIDE DEF From
  <2>1. QED
    BY <1>7
<1>9. Len(s) = k
  BY DEF IsPath
<1> DEFINE time == CHOOSE t : Solves(t)
<1>10. TotalTime(s) = time[1]
  BY <1>9 DEF TotalTime
<1>11. Solves(time)
  <2> HIDE DEF Solves
  <2>1. QED
    BY <1>8
<1> HIDE DEF time
<1>12. \A i \in 1 .. k : time[i] = From(i, time)
  <2> HIDE DEF From
  <2>1. QED
    BY <1>11
<1>13. time = [i \in 1 .. k |-> time[i]]
  <2> HIDE DEF From
  <2>1. QED
    BY <1>11, <1>12
<1>14. \A i \in 1 .. k : time[i] \in Nat
  <2> DEFINE Bad == {m \in 0 .. k - 1 : time[k - m] \notin Nat}
  <2>1. ASSUME Bad # {} PROVE FALSE
    <3>1. Bad \in SUBSET Nat
      OBVIOUS
    <3>2. PICK m \in Bad : \A n \in Bad : m <= n
      BY <2>1, <3>1, LeastNat
    <3>3. k - m \in 1 .. k /\ m \in 0 .. k - 1
      OBVIOUS
    <3>4. k - m # k => time[(k - m) + 1] \in Nat
      <4>1. ASSUME k - m # k PROVE time[(k - m) + 1] \in Nat
        <5>1. m - 1 \in 0 .. k - 1 /\ (k - m) + 1 = k - (m - 1) /\ m - 1 < m
          BY <3>3, <4>1
        <5>2. m - 1 \notin Bad
          <6>1. m \in Int
            BY <3>3
          <6>2. ~ (m <= m - 1)
            BY <6>1
          <6> HIDE DEF Bad
          <6>3. QED
            BY <3>2, <6>2, Zenon
        <5>3. QED
          BY <5>1, <5>2
      <4>2. QED
        BY <4>1
    <3> HIDE DEF From
    <3>5. time[k - m] \in Nat
      BY <1>3, <1>12, <3>3, <3>4
    <3>6. QED
      BY <3>5
  <2>2. ASSUME NEW i \in 1 .. k PROVE time[i] \in Nat
    <3>1. k - i \in 0 .. k - 1 /\ k - (k - i) = i
      OBVIOUS
    <3>2. k - i \notin Bad
      BY <2>1
    <3>3. QED
      BY <3>1, <3>2
  <2>3. QED
    BY <2>2
<1>15. Elapses(time, s, k)
  BY <1>12, <1>13, <1>14 DEF Elapses
<1>16. QED
  BY <1>10, <1>15

\* No path takes longer than the rank of its first WORK.
LEMMA RankBounds ==
  ASSUME PInv, NEW k \in Nat \ {0}, NEW s, IsPath(s, k), NEW t, Elapses(t, s, k)
  PROVE  t[1] <= UpwardRanks[s[1]]
<1> DEFINE Bad == {m \in 0 .. k - 1 : ~ (t[k - m] <= UpwardRanks[s[k - m]])}
<1>1. ASSUME Bad # {} PROVE FALSE
  <2>1. Bad \in SUBSET Nat
    OBVIOUS
  <2>2. PICK m \in Bad : \A n \in Bad : m <= n
    BY <1>1, <2>1, LeastNat
  <2> DEFINE i == k - m
  <2>3. m \in 0 .. k - 1 /\ i \in 1 .. k
    OBVIOUS
  <2> DEFINE last == Max({0} \cup {UpwardRanks[x] : x \in successors[s[i]]})
  <2>4. s[i] \in Work /\ Duration(s[i]) \in Nat
    BY <2>3, DurationNat DEF IsPath
  <2>5. UpwardRanks[s[i]] = Duration(s[i]) + last
    BY <2>4, RankEquation DEF After
  <2>6. last \in Nat /\ \A x \in successors[s[i]] : UpwardRanks[x] <= last
    <3>1. \A x \in successors[s[i]] : UpwardRanks[x] \in Nat
      BY <2>4, RankEquation, SuccessorFacts
    <3>2. QED
      BY <2>4, <3>1, SuccessorFacts, MaxOfValues
  <2> HIDE DEF last
  <2>7. t[i] <= UpwardRanks[s[i]]
    <3>1. CASE i = k
      <4>1. t[i] = Duration(s[i]) + 0
        BY <2>3, <3>1 DEF Elapses
      <4>2. QED
        BY <2>4, <2>5, <2>6, <4>1
    <3>2. CASE i # k
      <4>1. t[i] = Duration(s[i]) + t[i + 1]
        BY <2>3, <3>2 DEF Elapses
      <4>2. m - 1 \in 0 .. k - 1 /\ i + 1 = k - (m - 1) /\ m - 1 < m
        BY <2>3, <3>2
      <4>3. m - 1 \notin Bad
        <5>1. m \in Int
          BY <2>3
        <5>2. ~ (m <= m - 1)
          BY <5>1
        <5> HIDE DEF Bad
        <5>3. QED
          BY <2>2, <5>2, Zenon
      <4>4. t[i + 1] <= UpwardRanks[s[i + 1]]
        BY <4>2, <4>3
      <4>5. i \in 1 .. k - 1 /\ i + 1 \in 1 .. k
        BY <2>3, <3>2
      <4>6. s[i + 1] \in successors[s[i]]
        BY <4>5 DEF IsPath
      <4>7. UpwardRanks[s[i + 1]] <= last /\ UpwardRanks[s[i + 1]] \in Nat /\ t[i + 1] \in Nat
        BY <2>4, <2>6, <4>5, <4>6, RankEquation, SuccessorFacts DEF Elapses
      <4>8. t[i + 1] <= last
        BY <2>6, <4>4, <4>7
      <4>9. QED
        BY <2>4, <2>5, <2>6, <4>1, <4>7, <4>8
    <3>3. QED
      BY <3>1, <3>2
  <2>8. QED
    BY <2>7
<1>2. k - 1 \in 0 .. k - 1 /\ k - (k - 1) = 1
  OBVIOUS
<1>3. k - 1 \notin Bad
  BY <1>1
<1>4. QED
  BY <1>2, <1>3

\* A path that is prolonged takes longer by the duration of what is added.
LEMMA TimeGrows ==
  ASSUME PInv, NEW w \in Work, NEW k \in Nat \ {0}, NEW s, IsPath(s, k), s[1] \in successors[w],
         NEW t, Elapses(t, s, k), NEW u, Elapses(u, Longer(w, s, k), k + 1)
  PROVE  u[1] = Duration(w) + t[1]
<1> DEFINE p == Longer(w, s, k)
           Bad == {m \in 0 .. k - 1 : u[(k - m) + 1] # t[k - m]}
<1>1. p[1] = w /\ \A i \in 1 .. k : p[i + 1] = s[i]
  BY LongerIsPath
<1>2. \A i \in 1 .. k + 1 : u[i] = Duration(p[i]) + (IF i = k + 1 THEN 0 ELSE u[i + 1])
  BY DEF Elapses
<1>3. \A i \in 1 .. k : t[i] = Duration(s[i]) + (IF i = k THEN 0 ELSE t[i + 1])
  BY DEF Elapses
<1> HIDE DEF p
<1>4. ASSUME Bad # {} PROVE FALSE
  <2>1. Bad \in SUBSET Nat
    OBVIOUS
  <2>2. PICK m \in Bad : \A n \in Bad : m <= n
    BY <1>4, <2>1, LeastNat
  <2> DEFINE i == k - m
  <2>3. m \in 0 .. k - 1 /\ i \in 1 .. k /\ i + 1 \in 1 .. k + 1
    OBVIOUS
  <2>4. u[i + 1] = Duration(s[i]) + (IF i = k THEN 0 ELSE u[(i + 1) + 1])
    <3>1. u[i + 1] = Duration(p[i + 1]) + (IF i + 1 = k + 1 THEN 0 ELSE u[(i + 1) + 1])
      BY <1>2, <2>3
    <3>2. p[i + 1] = s[i]
      BY <1>1, <2>3
    <3>3. i + 1 = k + 1 <=> i = k
      BY <2>3
    <3> HIDE DEF i
    <3>4. QED
      BY <3>1, <3>2, <3>3
  <2>5. i # k => u[(i + 1) + 1] = t[i + 1]
    <3>1. ASSUME i # k PROVE u[(i + 1) + 1] = t[i + 1]
      <4>1. m - 1 \in 0 .. k - 1 /\ k - (m - 1) = i + 1 /\ m - 1 < m
        BY <2>3, <3>1
      <4>2. m - 1 \notin Bad
        <5>1. m \in Int
          BY <2>3
        <5>2. ~ (m <= m - 1)
          BY <5>1
        <5> HIDE DEF Bad
        <5>3. QED
          BY <2>2, <5>2, Zenon
      <4>3. QED
        BY <4>1, <4>2
    <3>2. QED
      BY <3>1
  <2>6. u[i + 1] = t[i]
    <3>1. t[i] = Duration(s[i]) + (IF i = k THEN 0 ELSE t[i + 1])
      BY <1>3, <2>3
    <3> HIDE DEF i
    <3>2. QED
      BY <2>4, <2>5, <3>1
  <2>7. QED
    BY <2>6
<1>5. u[2] = t[1]
  <2>1. k - 1 \in 0 .. k - 1 /\ k - (k - 1) = 1 /\ 1 + 1 = 2
    OBVIOUS
  <2>2. k - 1 \notin Bad
    BY <1>4
  <2>3. QED
    BY <2>1, <2>2
<1>6. u[1] = Duration(p[1]) + u[2]
  <2>1. 1 \in 1 .. k + 1 /\ 1 # k + 1 /\ 1 + 1 = 2
    OBVIOUS
  <2>2. QED
    BY <1>2, <2>1
<1>7. QED
  BY <1>1, <1>5, <1>6

Attained(w) ==
  \E k \in Nat \ {0} : \E s : IsPath(s, k) /\ s[1] = w /\ TotalTime(s) = UpwardRanks[w]

\* Some path takes as long as the rank of its first WORK.
LEMMA RankAttained ==
  ASSUME PInv, NEW w \in Work
  PROVE  Attained(w)
<1> DEFINE Bad == {v \in Work : ~ Attained(v)}
<1>1. ASSUME Bad # {} PROVE FALSE
  <2>1. PICK v \in Bad : \A y \in successors[v] : y \notin Bad
    BY <1>1, LastOf
  <2>2. v \in Work
    OBVIOUS
  <2> DEFINE last == Max({0} \cup {UpwardRanks[x] : x \in successors[v]})
  <2>3. UpwardRanks[v] = Duration(v) + last
    BY <2>2, RankEquation DEF After
  <2>4. last \in Nat /\ (last = 0 \/ \E x \in successors[v] : last = UpwardRanks[x])
    <3>1. \A x \in successors[v] : UpwardRanks[x] \in Nat
      BY <2>2, RankEquation, SuccessorFacts
    <3>2. QED
      BY <2>2, <3>1, SuccessorFacts, MaxOfValues
  <2> HIDE DEF last
  <2>5. CASE last = 0
    <3>1. IsPath(Alone(v), 1) /\ Alone(v)[1] = v
      BY <2>2, AloneIsPath
    <3>2. 1 \in Nat \ {0}
      OBVIOUS
    <3>3. PICK t : Elapses(t, Alone(v), 1) /\ TotalTime(Alone(v)) = t[1]
      BY <3>1, <3>2, TimeEquation
    <3>4. t[1] = Duration(v) + 0
      BY <3>1, <3>3 DEF Elapses
    <3>5. TotalTime(Alone(v)) = UpwardRanks[v]
      BY <2>3, <2>5, <3>3, <3>4
    <3>6. Attained(v)
      BY <3>1, <3>2, <3>5 DEF Attained
    <3>7. QED
      BY <3>6
  <2>6. CASE \E x \in successors[v] : last = UpwardRanks[x]
    <3>1. PICK x \in successors[v] : last = UpwardRanks[x]
      BY <2>6
    <3>2. Attained(x)
      BY <2>1, <2>2, SuccessorFacts
    <3>3. PICK k \in Nat \ {0} : \E s : IsPath(s, k) /\ s[1] = x /\ TotalTime(s) = UpwardRanks[x]
      BY <3>2 DEF Attained
    <3>4. PICK s : IsPath(s, k) /\ s[1] = x /\ TotalTime(s) = UpwardRanks[x]
      BY <3>3
    <3>5. IsPath(Longer(v, s, k), k + 1) /\ Longer(v, s, k)[1] = v
      BY <2>2, <3>4, LongerIsPath
    <3>6. k + 1 \in Nat \ {0}
      OBVIOUS
    <3>7. PICK t : Elapses(t, s, k) /\ TotalTime(s) = t[1]
      BY <3>4, TimeEquation
    <3>8. PICK u : Elapses(u, Longer(v, s, k), k + 1) /\ TotalTime(Longer(v, s, k)) = u[1]
      BY <3>5, <3>6, TimeEquation
    <3>9. u[1] = Duration(v) + t[1]
      BY <2>2, <3>4, <3>7, <3>8, TimeGrows
    <3>10. TotalTime(Longer(v, s, k)) = UpwardRanks[v]
      BY <2>3, <3>1, <3>4, <3>7, <3>8, <3>9
    <3>11. Attained(v)
      BY <3>5, <3>6, <3>10 DEF Attained
    <3>12. QED
      BY <3>11
  <2>7. QED
    BY <2>4, <2>5, <2>6
<1>2. w \notin Bad
  BY <1>1
<1>3. QED
  BY <1>2

LEMMA RankIsLongestPathHolds == PInv => RankIsLongestPath
<1> SUFFICES ASSUME PInv, NEW w \in Work
             PROVE  UpwardRanks[w] = Max({TotalTime(s) : s \in {p \in Paths : p[1] = w}})
  BY DEF RankIsLongestPath
<1> DEFINE Times == {TotalTime(s) : s \in {p \in Paths : p[1] = w}}
<1>1. UpwardRanks[w] \in Nat
  BY RankEquation
<1>2. ASSUME NEW s \in Paths, s[1] = w PROVE TotalTime(s) \in Nat /\ TotalTime(s) <= UpwardRanks[w]
  <2> DEFINE k == Len(s)
  <2>1. k \in Nat \ {0} /\ IsPath(s, k)
    BY PathFacts
  <2> HIDE DEF k
  <2>2. PICK t : Elapses(t, s, k) /\ TotalTime(s) = t[1]
    BY <2>1, TimeEquation
  <2>3. t[1] <= UpwardRanks[w]
    BY <1>2, <2>1, <2>2, RankBounds
  <2>4. t[1] \in Nat
    BY <2>1, <2>2 DEF Elapses
  <2>5. QED
    BY <2>2, <2>3, <2>4
<1>3. \A x \in Times : x \in Nat /\ x <= UpwardRanks[w]
  BY <1>2
<1>4. UpwardRanks[w] \in Times
  <2>1. PICK k \in Nat \ {0} : \E s : IsPath(s, k) /\ s[1] = w /\ TotalTime(s) = UpwardRanks[w]
    BY RankAttained DEF Attained
  <2>2. PICK s : IsPath(s, k) /\ s[1] = w /\ TotalTime(s) = UpwardRanks[w]
    BY <2>1
  <2>3. s \in Paths
    BY <2>2, PathFacts
  <2>4. QED
    BY <2>2, <2>3
<1> HIDE DEF Times
<1>5. \A x \in Times : UpwardRanks[w] >= x
  BY <1>1, <1>3
<1>6. Max(Times) \in Times /\ \A x \in Times : Max(Times) >= x
  BY <1>4, <1>5 DEF Max
<1>7. Max(Times) = UpwardRanks[w]
  BY <1>1, <1>3, <1>4, <1>6
<1>8. QED
  BY <1>7 DEF Times

\* upward_ranks computes critical paths: the rank of a WORK is the length of the
\* longest path that begins with it, in every acyclic graph.
THEOREM RanksAreCriticalPaths == PSpec => []RankIsLongestPath
BY SnapshotShape, RankIsLongestPathHolds, PTL

=============================================================================
