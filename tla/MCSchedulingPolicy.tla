------------------------- MODULE MCSchedulingPolicy --------------------------
\* All acyclic graphs of a few WORK nodes, for TLC.
EXTENDS SchedulingPolicy

\* A negative estimate, one that is not a number, and a long one: durations 0, 1 and 3
Estimates == {-1, BadEstimate, 3}
=============================================================================
