------------------------- MODULE MCSessionAuthority -------------------------
(***************************************************************************)
(* A small instance of SessionAuthority for TLC.                           *)
(***************************************************************************)
EXTENDS SessionAuthority, TLC

Interchangeable == Permutations(Launchers) \cup Permutations(Calls)
=============================================================================
