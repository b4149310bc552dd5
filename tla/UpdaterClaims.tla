---------------------------- MODULE UpdaterClaims ----------------------------
(***************************************************************************)
(* What the design documents say of the updater where the code does        *)
(* something else.  The claim is violated by a run.                        *)
(***************************************************************************)
EXTENDS MCUpdater

\* "CLEANING final DONE/SKIPPED -> IDLE": a cleanup comes to its end and the
\* installation takes updates again, sessions being all that ever runs.
CleaningEnds == Current(cache).phase = "CLEANING" ~> Current(cache).phase = "IDLE"
=============================================================================
