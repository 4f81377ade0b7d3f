----------------------------- MODULE MCRuntime ------------------------------
\* Small instances of Runtime for TLC.
EXTENDS Runtime, TLC

CONSTANTS a1, a2, t1, t2, w1, w2, w3, u1, code, service1, service2, display

MCTTL == [i \in Identity |-> IF i = code THEN 0 ELSE None]
MCDraft == {[observedAt |-> None, validUntil |-> None]}

\* Two agents that share the display of the phone, one with two threads.
ThreadAgents == [th \in Worker |-> IF th = w3 THEN a2 ELSE a1]
DisplayNeeds == [g \in Agent |-> {display, IF g = a1 THEN service1 ELSE service2}]
NothingRequired == [w \in WorkId |-> {}]
\* The first WORK also drives the service of the other agent.
FirstRequires == [w \in WorkId |-> IF w = 1 THEN {service2} ELSE {}]
OneEach == [r \in Resource |-> 1]
\* ... or one each of two displays, and two instances of the first service.
TwoDisplays == [r \in Resource |-> IF r = service2 THEN 1 ELSE 2]
Interchangeable == Permutations({w1, w2}) \cup Permutations(Task)

Provided(p, cs, i, age) == [producer |-> p, consumers |-> cs, identity |-> i, maxAge |-> age]
FragmentOf(agents, control, artifacts, terminals) ==
  [work |-> agents, control |-> control, artifacts |-> artifacts, terminals |-> terminals]

Solo == FragmentOf(<<a1>>, {}, <<>>, {})
Handoff == FragmentOf(<<a2, a1>>, {}, <<Provided(1, {2}, code, None)>>, {})

DisplayFragment == {Handoff, Solo}

FairNotifyingSpec == NotifyingSpec /\ RFairness

\* Submission and direct resolution, and then nothing goes wrong.
ResolvingNext ==
  \/ \E th \in Thread : Schedule(th)
  \/ \E th \in Worker : RunPick(th) \/ RunClaim(th) \/ RunCommit(th)
  \/ \E th \in Client : ClientSubmit(th) \/ ClientResolve(th)
ResolvingSpec == RInit /\ [][ResolvingNext]_rvars
=============================================================================
