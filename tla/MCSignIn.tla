------------------------------ MODULE MCSignIn ------------------------------
(* Two browser sign-ins, two launches and two faults.                      *)
EXTENDS SignIn
=============================================================================
