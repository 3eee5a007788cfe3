--------------------------- MODULE MCScheduledScans ---------------------------
\* Instances of ScheduledScans for TLC.
EXTENDS ScheduledScans
\* The first, which asks, has two moments, the second one of them.
TwoMoments == [s \in Schedules |-> IF s = 1 THEN {2, 3} ELSE {3}]
=============================================================================
