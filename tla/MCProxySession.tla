--------------------------- MODULE MCProxySession ---------------------------
(***************************************************************************)
(* Small instances of ProxySession for TLC.                                *)
(***************************************************************************)
EXTENDS ProxySession, TLC
CONSTANTS a1, a2, a3, s1, s2, g1, g2, g3
IdentitySymmetry ==
  Permutations(Attempts) \cup Permutations(Sessions) \cup Permutations(Targets)
=============================================================================
