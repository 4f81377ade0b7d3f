----------------------------- MODULE MCRecovery -----------------------------
\* A small instance of Recovery for TLC.
EXTENDS Recovery, TLC

CONSTANTS a1, a2, t1, w1, w2, u1, code, service1, service2, display

MCTTL == [i \in Identity |-> None]
MCDraft == {[observedAt |-> None, validUntil |-> None]}

\* Two agents that share the display of the phone.
TwoAgents == [th \in Worker |-> IF th = w1 THEN a1 ELSE a2]
DisplayNeeds == [g \in Agent |-> {display, IF g = a1 THEN service1 ELSE service2}]
NothingRequired == [w \in WorkId |-> {}]
OneEach == [r \in Resource |-> 1]

FragmentOf(agents, artifacts) ==
  [work |-> agents, control |-> {}, artifacts |-> artifacts, terminals |-> {}]
Both == FragmentOf(<<a1, a2>>, <<>>)
Handoff == FragmentOf(<<a2, a1>>, <<[producer |-> 1, consumers |-> {2}, identity |-> code, maxAge |-> None]>>)
MCFragment == {Both, Handoff}
=============================================================================
