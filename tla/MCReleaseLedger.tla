-------------------------- MODULE MCReleaseLedger --------------------------
\* Two controllers and two sequences above the floor.
EXTENDS ReleaseLedger, TLC
CONSTANTS c1, c2
=============================================================================
