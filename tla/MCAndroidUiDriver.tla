-------------------------- MODULE MCAndroidUiDriver --------------------------
\* Small instances of the driver for TLC: callers that do what they like.
EXTENDS AndroidUiDriver, TLC

CONSTANTS notes, shop, x, y, z

\* Two threads that serve one app, and one that serves another
SharedAgent == [th \in Thread |-> IF th = z THEN shop ELSE notes]
Asked == [a \in App |-> IF a = notes THEN 1 ELSE 0]
Together == [a \in App |-> IF a = notes THEN {0, 1} ELSE {0}]

\* The calls that take all the locks between them, or element ids after one
\* observation; each app is observed a bounded number of times.
CONSTANT MaxObserve
Calls(th) == {"input_text"} \cup (IF observed[AppOf[th]] < MaxObserve THEN {"observe"} ELSE {})
FewNext == \E th \in Thread : DriverStep(th) \/ (\E c \in Calls(th) : Enter(th, c)) \/ Leave(th)
FewSpec == DInit /\ [][FewNext]_dvars

\* Threads of one app are alike.
Alike == Permutations({x, y})
=============================================================================
