------------------------------ MODULE MCUpdater ------------------------------
(***************************************************************************)
(* Small instances of Updater for TLC.                                     *)
(***************************************************************************)
EXTENDS Updater, TLC

CONSTANTS r1, r2, r2x, r3, t1, t2

\* r2 and r2x are two releases an authority signed with one sequence.
MCSeq == [r \in Releases |-> IF r = r1 THEN 1 ELSE IF r = r3 THEN 3 ELSE 2]

TokenSymmetry == Permutations(Ids)

\* Without power losses nothing reads what is flushed.
ProcessView == <<procVars, diskVars, envVars, cache, failures>>

=============================================================================
