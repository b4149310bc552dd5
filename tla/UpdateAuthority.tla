--------------------------- MODULE UpdateAuthority ---------------------------
(***************************************************************************)
(* What the updater promises of an installation, with no slot, process or  *)
(* directory in sight: one release is committed, at most one is tried, and *)
(* the floors below which nothing is admitted never sink.                  *)
(***************************************************************************)
EXTENDS Naturals

CONSTANTS Releases, SeqNo, Baseline, None

VARIABLES committed,  \* the release that runs
          previous,   \* the release a rollback returns to, or None
          highwater,  \* the admission floor
          observed,   \* the newest release taken note of
          failed,     \* the release that must not be tried again, or None
          trial,      \* the candidate of the transaction in progress, or None
          rolling     \* a rollback to `previous` is under way

authority == <<committed, previous, highwater, observed, failed, trial, rolling>>

Init == /\ committed = Baseline /\ highwater = Baseline /\ observed = Baseline
        /\ previous = None /\ failed = None /\ trial = None /\ rolling = FALSE

Quiet == trial = None /\ ~rolling

\* A newer release is taken note of; nothing is tried yet.
Admit(r) ==
  /\ Quiet /\ SeqNo[r] > SeqNo[observed]
  /\ highwater' = r /\ observed' = r
  /\ UNCHANGED <<committed, previous, failed, trial, rolling>>

\* A newer release is tried, or the noted one unless it failed, or the
\* committed one, to repair it.
Try(r) ==
  /\ Quiet
  /\ \/ SeqNo[r] > SeqNo[observed]
     \/ r = observed /\ (failed # r \/ r = committed)
  /\ trial' = r /\ observed' = r /\ failed' = None
  /\ UNCHANGED <<committed, previous, highwater, rolling>>

Accept ==
  /\ trial # None
  /\ committed' = trial /\ previous' = committed
  /\ highwater' = trial /\ trial' = None
  /\ UNCHANGED <<observed, failed, rolling>>

Reject ==
  /\ trial # None
  /\ failed' = observed /\ trial' = None
  /\ UNCHANGED <<committed, previous, highwater, observed, rolling>>

StartRollback ==
  /\ Quiet /\ previous # None
  /\ rolling' = TRUE /\ failed' = observed
  /\ UNCHANGED <<committed, previous, highwater, observed, trial>>

FinishRollback ==
  /\ rolling
  /\ committed' = previous /\ previous' = None /\ rolling' = FALSE
  /\ UNCHANGED <<highwater, observed, failed, trial>>

Next == \/ \E r \in Releases : Admit(r) \/ Try(r)
        \/ Accept \/ Reject \/ StartRollback \/ FinishRollback

Spec == Init /\ [][Next]_authority
=============================================================================
