---------------------------- MODULE MCEnrollment ----------------------------
(***************************************************************************)
(* A small instance of Enrollment, with the sessions and recoveries that   *)
(* follow it, for TLC.                                                     *)
(***************************************************************************)
EXTENDS Enrollment

CONSTANTS r1, r2, t1

MCSeq == [r \in Releases |-> IF r = r1 THEN 1 ELSE 2]
=============================================================================
