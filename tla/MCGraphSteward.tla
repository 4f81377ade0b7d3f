--------------------------- MODULE MCGraphSteward ---------------------------
\* Small instances of GraphSteward for TLC.
EXTENDS GraphSteward, TLC

CONSTANTS a1, t1, t2, shared, other, private, s1

\* An artifact with the schema of shared is valid only at the time it was seen.
MCTTL == [i \in Identity |-> IF i = shared THEN 0 ELSE None]

Provided(p, cs, i, age) == [producer |-> p, consumers |-> cs, identity |-> i, maxAge |-> age]
FragmentOf(n, control, artifacts, terminals) ==
  [work |-> [l \in 1 .. n |-> a1], control |-> control, artifacts |-> artifacts, terminals |-> terminals]

Solo == FragmentOf(1, {}, <<>>, {})
Chain == FragmentOf(2, {<<1, 2>>}, <<>>, {})
\* a provider and its consumer
Handoff(i, age) == FragmentOf(2, {}, <<Provided(1, {2}, i, age)>>, {})
\* a provider that is its task's only WORK
Lookup(i) == FragmentOf(1, {}, <<Provided(1, {}, i, None)>>, {1})
\* two providers, the second fed by the first
Relay(i, j) == FragmentOf(2, {}, <<Provided(1, {2}, i, None), Provided(2, {}, j, None)>>, {1, 2})
\* refused by _validate_fragment: an artifact's provider as target of a control edge
ProviderInControl(i) == FragmentOf(2, {<<2, 1>>}, <<Provided(1, {}, i, None)>>, {})

\* refused too: a step that precedes the provider it could itself come to need
StepThenProvide(i) == FragmentOf(2, {<<1, 2>>}, <<Provided(2, {}, i, None)>>, {})

\* and a provider of two artifacts
TwoOutputs(i, j) == FragmentOf(1, {}, <<Provided(1, {}, i, None), Provided(1, {}, j, None)>>, {})

SmallFragment == {Handoff(shared, None), ProviderInControl(shared)}
RelayFragment == {Relay(shared, other), Relay(other, shared)}
ExpandFragment == {Chain, Lookup(other), Handoff(other, None), StepThenProvide(other),
                   TwoOutputs(shared, other)} \cup RelayFragment

Plain == [observedAt |-> None, validUntil |-> None]
PlainDraft == {Plain}
\* an executor may know how long its result is valid
StampedDraft == {Plain, [observedAt |-> None, validUntil |-> 1]}

\* Submission and execution only: no direct resolution, evaluation or invalidation.
Execute ==
  \/ \E t \in Task, f \in Fragment : SubmitTask(t, f)
  \/ \E w \in WorkId, s \in Assignment :
       \/ Assign(w, s)
       \/ Start(w, s)
       \/ \E d \in Draft : CommitWork(w, s, TRUE, d)
       \/ FailWork(w, s)
       \/ \E g \in Capable, i \in Identity \cup {None}, d \in Draft : ExpandWork(w, s, g, i, None, d)
  \/ Tick
ExecuteSpec == Init /\ [][Execute]_vars

TaskSymmetry == Permutations(Task)
=============================================================================
