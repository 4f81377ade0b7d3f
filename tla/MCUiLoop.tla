------------------------------ MODULE MCUiLoop -------------------------------
\* Small instances of the UI loop for TLC.
EXTENDS UiLoop, TLC

CONSTANTS notes, shop, x, y, artifact, answer, other

\* One thread per app, as in the l3 harness
OneEach == [th \in Thread |-> IF th = x THEN notes ELSE shop]

\* notes asks for display 1, shop for the primary one.  Android may put notes on a
\* display of its own, or on the one of shop.
Asked == [a \in App |-> IF a = notes THEN 1 ELSE 0]
Apart == [a \in App |-> IF a = notes THEN {1, 2} ELSE {0}]
Together == [a \in App |-> IF a = notes THEN {0, 1} ELSE {0}]

\* A WORK has at most one output: a fragment may not give it two.  What a WORK without
\* output reports is never refused.
OneOutput == {{[id |-> artifact, kind |-> answer]}}
NoOutput == {{}}
Offers == [c \in Capability |-> IF c = "retrieve" THEN {notes} ELSE {notes, shop}]

FairUSpec == USpec /\ UFairness
=============================================================================
