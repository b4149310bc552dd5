----------------------------- MODULE UpdateState -----------------------------
(***************************************************************************)
(* The durable record of the NekoUpdater: its fields, the transitions that *)
(* validate_transition accepts, the evidence rule of the slot selector,    *)
(* and the next record each handler formulates.  Everything here is        *)
(* constant level: the modules that EXTEND it own the variables.           *)
(*                                                                         *)
(* A release stands for a Binding (sequence, release id, payload digest)   *)
(* and for the Generation that its signed envelope determines; two         *)
(* releases may carry the same sequence.  Releases holds the releases      *)
(* whose envelope verifies and whose updater_protocol range admits this    *)
(* helper: any other envelope is refused before a state is formulated.     *)
(***************************************************************************)
EXTENDS Naturals

CONSTANTS Releases,   \* the releases an authority has signed
          SeqNo,        \* the release_sequence of each release
          Ids,        \* the transaction tokens a helper can draw
          None        \* Python's None

ASSUME ReleaseAssumption == /\ SeqNo \in [Releases -> Nat \ {0}]
                            /\ None \notin Releases

Phases == {"ENROLLING", "IDLE", "PREPARING", "QUIESCING", "PROBATION",
           "ROLLING_BACK", "CLEANING"}

Stages == {"ADMITTED", "BUILDING", "VERIFIED", "QUIESCING", "PROBATION"}

Optional(S) == S \cup {None}

\* A scratch container: <root>/incoming/<id> or <root>/staging/<id>.
Directories == {"incoming", "staging"} \X Ids

\* `staging` says whether the staging container's identity is recorded;
\* `repair` says whether the transaction has repair_components.
Transactions == [id: Ids, candidate: Releases, old: Optional(Releases),
                 stage: Stages, staging: BOOLEAN, repair: BOOLEAN]

Rollbacks == [mode: {"precommit", "postcommit"}, target: Releases,
              scratch: SUBSET Directories]

\* `cleanup` is the set of containers queued for deletion ({} for null);
\* `complete` is enrollment_complete; `evidence` holds the releases whose
\* signed envelope is embedded in the record.
States == [revision: Nat, complete: BOOLEAN, phase: Phases,
           committed: Optional(Releases), previous: Optional(Releases),
           highwater: Optional(Releases), observed: Optional(Releases),
           failed: Optional(Releases), tx: Optional(Transactions),
           cleanup: SUBSET Directories, rollback: Optional(Rollbacks),
           evidence: SUBSET Releases]

\* None is no record either.
ASSUME NoneAssumption == None \notin Transactions \cup Rollbacks \cup States

SeqOf(r) == IF r = None THEN 0 ELSE SeqNo[r]

(***************************************************************************)
(* validate_transition.                                                    *)
(***************************************************************************)
FloorsKept(cur, nxt) ==
  /\ cur.highwater # None => /\ nxt.highwater # None
                             /\ SeqOf(nxt.highwater) >= SeqOf(cur.highwater)
  /\ cur.observed # None => /\ nxt.observed # None
                            /\ SeqOf(nxt.observed) >= SeqOf(cur.observed)
                            /\ \/ SeqOf(nxt.observed) # SeqOf(cur.observed)
                               \/ nxt.observed = cur.observed

AuthorityAdmission(cur, nxt) ==
  /\ cur.complete /\ nxt.complete
  /\ nxt.committed = cur.committed
  /\ nxt.previous = cur.previous
  /\ nxt.failed = cur.failed
  /\ nxt.tx = None /\ nxt.cleanup = {} /\ nxt.rollback = None
  /\ nxt.highwater # None /\ nxt.highwater = nxt.observed
  /\ SeqOf(nxt.highwater) > SeqOf(cur.highwater)
  /\ SeqOf(nxt.highwater) > SeqOf(cur.committed)
  /\ nxt.evidence = cur.evidence \cup {nxt.highwater}

SelectionKept(cur, nxt) ==
  nxt.committed = cur.committed /\ nxt.previous = cur.previous

RollbackDone(cur, nxt) ==
  /\ cur.rollback # None
  /\ nxt.rollback = None
  /\ \/ cur.rollback.mode = "precommit" /\ SelectionKept(cur, nxt)
     \/ /\ cur.rollback.mode = "postcommit"
        /\ nxt.committed = cur.rollback.target
        /\ nxt.previous = None

\* The phase matrix, one disjunct per edge.
Edge(cur, nxt) ==
  LET From(p) == cur.phase = p
      To(P)   == nxt.phase \in P
  IN
  \/ From("ENROLLING") /\ To({"ENROLLING"})
  \/ /\ From("ENROLLING") /\ To({"IDLE"})
     /\ nxt.committed # None /\ nxt.highwater # None
  \/ /\ From("IDLE") /\ To({"IDLE"})
     /\ (~cur.complete /\ nxt.complete) \/ AuthorityAdmission(cur, nxt)
  \/ /\ From("IDLE") /\ To({"PREPARING"})
     /\ nxt.tx # None
     /\ nxt.tx.stage = "ADMITTED" /\ nxt.tx.old = cur.committed
  \/ /\ From("IDLE") /\ To({"ROLLING_BACK"})
     /\ cur.previous # None
     /\ nxt.rollback # None
     /\ nxt.rollback.mode = "postcommit"
  \/ From("PREPARING") /\ To({"PREPARING"})
  \/ /\ From("PREPARING") /\ To({"QUIESCING"})
     /\ cur.tx # None
     /\ cur.tx.stage = "VERIFIED"
  \/ /\ From("PREPARING") /\ To({"CLEANING", "IDLE"})
     /\ SelectionKept(cur, nxt)
     /\ nxt.tx = None /\ nxt.failed = cur.observed
  \/ From("QUIESCING") /\ To({"PROBATION"})
  \/ /\ From("QUIESCING") /\ To({"ROLLING_BACK"})
     /\ nxt.rollback # None
     /\ nxt.rollback.mode = "precommit"
  \/ /\ From("PROBATION") /\ To({"CLEANING"})
     /\ cur.tx # None
     /\ nxt.committed = cur.tx.candidate /\ nxt.previous = cur.committed
     /\ nxt.tx = None
  \/ From("PROBATION") /\ To({"ROLLING_BACK"}) /\ nxt.rollback # None
  \/ From("ROLLING_BACK") /\ To({"ROLLING_BACK"})
  \/ From("ROLLING_BACK") /\ To({"CLEANING", "IDLE"}) /\ RollbackDone(cur, nxt)
  \/ From("CLEANING") /\ To({"CLEANING"})
  \/ From("CLEANING") /\ To({"IDLE"}) /\ nxt.cleanup = {}
  \/ From("CLEANING") /\ To({"ROLLING_BACK"}) /\ cur.previous # None

ValidTransition(cur, nxt) ==
  /\ \/ nxt.revision = cur.revision + 1
     \/ cur.phase = "ENROLLING" /\ cur.revision = 1 /\ nxt = cur
  /\ FloorsKept(cur, nxt)
  /\ Edge(cur, nxt)

(***************************************************************************)
(* Evidence.                                                               *)
(***************************************************************************)
Referenced(s) ==
  ( {s.committed, s.previous, s.highwater, s.observed, s.failed}
    \cup (IF s.tx = None THEN {} ELSE {s.tx.candidate, s.tx.old})
    \cup (IF s.rollback = None THEN {} ELSE {s.rollback.target}) ) \ {None}

\* Every binding the record refers to is backed by an envelope it embeds.
Authenticated(s) == Referenced(s) \subseteq s.evidence

\* Mutant: the walk forgets the backup generation.
RetainedWithoutPrevious(s) ==
  ( {s.committed, s.highwater, s.observed, s.failed}
    \cup (IF s.tx = None THEN {} ELSE {s.tx.candidate, s.tx.old})
    \cup (IF s.rollback = None THEN {} ELSE {s.rollback.target}) ) \ {None}

\* prune_unreferenced_evidence walks the record on its own account.
Retained(s) ==
  ( {s.committed, s.previous, s.highwater, s.observed, s.failed}
    \cup (IF s.tx = None THEN {} ELSE {s.tx.candidate, s.tx.old})
    \cup (IF s.rollback = None THEN {} ELSE {s.rollback.target}) ) \ {None}

Prune(s) == [s EXCEPT !.evidence = @ \cap Retained(s)]

(***************************************************************************)
(* The records the handlers formulate.                                     *)
(***************************************************************************)
Scratch(tx) ==
  IF tx = None THEN {}
  ELSE {<<"incoming", tx.id>>}
       \cup (IF tx.staging THEN {<<"staging", tx.id>>} ELSE {})

\* ADMIT_AUTHORITY: the floors rise to r and nothing else changes.
Admitted(s, r) ==
  [s EXCEPT !.revision = @ + 1, !.highwater = r, !.observed = r,
            !.tx = None, !.cleanup = {}, !.rollback = None,
            !.evidence = @ \cup {r}]

\* BEGIN: a transaction towards r, with a new token.
Begun(s, r, id, repair) ==
  Prune([s EXCEPT !.revision = @ + 1, !.phase = "PREPARING",
                  !.observed = r, !.failed = None,
                  !.tx = [id |-> id, candidate |-> r, old |-> s.committed,
                          stage |-> "ADMITTED", staging |-> FALSE,
                          repair |-> repair],
                  !.cleanup = {}, !.rollback = None,
                  !.evidence = @ \cup {r}])

\* APPLY: the staging container is recorded, then the build is verified.
Building(s) == [s EXCEPT !.revision = @ + 1,
                         !.tx.stage = "BUILDING", !.tx.staging = TRUE]
Verified(s) == [s EXCEPT !.revision = @ + 1, !.tx.stage = "VERIFIED"]

\* Mutant: the commit leaves the admission floor where it was.
CommittedAboveFloor(s) ==
  LET candidate == s.tx.candidate IN
  Prune([s EXCEPT !.revision = @ + 1, !.phase = "CLEANING",
                  !.committed = candidate, !.previous = s.committed,
                  !.observed = candidate,
                  !.tx = None, !.cleanup = Scratch(s.tx),
                  !.rollback = None])

\* Activation: QUIESCING, PROBATION, then the commit.
Quiescing(s) == [s EXCEPT !.revision = @ + 1, !.phase = "QUIESCING",
                          !.tx.stage = "QUIESCING"]
Probation(s) == [s EXCEPT !.revision = @ + 1, !.phase = "PROBATION",
                          !.tx.stage = "PROBATION"]
Committed(s) ==
  LET candidate == s.tx.candidate IN
  Prune([s EXCEPT !.revision = @ + 1, !.phase = "CLEANING",
                  !.committed = candidate, !.previous = s.committed,
                  !.highwater = candidate, !.observed = candidate,
                  !.tx = None, !.cleanup = Scratch(s.tx),
                  !.rollback = None])

\* Mutant: the abort goes straight back to IDLE.
AbortedIdle(s) ==
  Prune([s EXCEPT !.revision = @ + 1, !.phase = "IDLE",
                  !.failed = s.observed, !.tx = None,
                  !.cleanup = {}, !.rollback = None])

\* Pre-quiesce abort.
Aborted(s) ==
  Prune([s EXCEPT !.revision = @ + 1,
                  !.phase = IF s.tx = None THEN "IDLE" ELSE "CLEANING",
                  !.failed = s.observed, !.tx = None,
                  !.cleanup = Scratch(s.tx), !.rollback = None])

\* Mutant: the release that is rolled back is not marked as failed.
PostcommitRollbackUnmarked(s) ==
  Prune([s EXCEPT !.revision = @ + 1, !.phase = "ROLLING_BACK",
                  !.tx = None, !.cleanup = {},
                  !.rollback = [mode |-> "postcommit", target |-> s.previous,
                                scratch |-> s.cleanup]])

\* initiate_postcommit_rollback: the cleanup queue is frozen as scratch.
PostcommitRollback(s) ==
  Prune([s EXCEPT !.revision = @ + 1, !.phase = "ROLLING_BACK",
                  !.failed = s.observed, !.tx = None, !.cleanup = {},
                  !.rollback = [mode |-> "postcommit", target |-> s.previous,
                                scratch |-> s.cleanup]])

\* Mutant: the rollback of an activation that never committed targets the
\* backup, as the postcommit one does.
PrecommitRollbackToBackup(s) ==
  Prune([s EXCEPT !.revision = @ + 1, !.phase = "ROLLING_BACK",
                  !.failed = s.observed, !.tx = None, !.cleanup = {},
                  !.rollback = [mode |-> "precommit", target |-> s.previous,
                                scratch |-> {}]])

\* The recovery engine's rollback of an interrupted activation.
PrecommitRollback(s) ==
  Prune([s EXCEPT !.revision = @ + 1, !.phase = "ROLLING_BACK",
                  !.failed = s.observed, !.tx = None, !.cleanup = {},
                  !.rollback = [mode |-> "precommit", target |-> s.committed,
                                scratch |-> {}]])

\* The recovery engine's completion of a rollback.
RolledBack(s) ==
  Prune([s EXCEPT !.revision = @ + 1, !.phase = "IDLE",
                  !.committed = IF s.rollback = None THEN @
                                ELSE s.rollback.target,
                  !.previous = IF s.rollback = None THEN @
                               ELSE IF s.rollback.mode = "postcommit"
                                    THEN None ELSE @,
                  !.tx = None, !.cleanup = {}, !.rollback = None])

\* The recovery engine's end of a cleanup.
Cleaned(s) ==
  Prune([s EXCEPT !.revision = @ + 1, !.phase = "IDLE", !.tx = None,
                  !.cleanup = {}, !.rollback = None])

(***************************************************************************)
(* The handlers' conditions.                                               *)
(***************************************************************************)
AtFloor(s, r)    == \A q \in {s.highwater, s.observed, s.committed} :
                       SeqNo[r] >= SeqOf(q)
AboveFloor(s, r) == \A q \in {s.highwater, s.observed, s.committed} :
                       SeqNo[r] > SeqOf(q)

\* Mutant: a failed release passes like any observed one.
AntiDowngradeOnly(s, r) ==
  /\ AtFloor(s, r)
  /\ AboveFloor(s, r) \/ s.observed \in {None, r}

\* At the floor itself only the observed release passes, unless it failed.
AntiDowngrade(s, r) ==
  /\ AtFloor(s, r)
  /\ \/ AboveFloor(s, r)
     \/ s.observed = None
     \/ s.observed = r /\ s.failed # r

AdmissionUnchanged(s, r) ==
  /\ s.phase = "IDLE" /\ s.complete /\ s.failed # r
  /\ s.highwater = r /\ s.observed = r

AdmissionChanges(s, r) ==
  /\ s.phase = "IDLE" /\ s.complete /\ s.failed # r
  /\ ~AdmissionUnchanged(s, r)
  /\ AntiDowngrade(s, r)
  /\ ValidTransition(s, Admitted(s, r))

\* What handle_begin_request checks before it creates the incoming
\* container; the transition itself is validated after.
BeginChecked(s, r, repair) ==
  /\ s.phase = "IDLE"
  /\ IF repair THEN s.committed \in {None, r} ELSE AntiDowngrade(s, r)

\* Mutant: the highwater is taken as the record has it.
BuildAuthorityAsRecorded(s) ==
  /\ s.committed # None /\ s.tx.old = s.committed
  /\ s.observed = s.tx.candidate
  /\ SeqOf(s.committed) <= SeqOf(s.highwater)
  /\ SeqOf(s.highwater) <= SeqOf(s.observed)
  /\ IF s.tx.repair THEN SeqOf(s.tx.candidate) = SeqOf(s.highwater)
                    ELSE SeqOf(s.tx.candidate) > SeqOf(s.highwater)
  /\ s.previous # s.committed

\* _validate_authority, on the record apply hands it: a highwater that an
\* admission already raised to the candidate is put back to committed.
BuildAuthority(s) ==
  LET highwater == IF s.committed # None /\ s.highwater = s.tx.candidate
                   THEN s.committed ELSE s.highwater
  IN
  /\ s.committed # None /\ s.tx.old = s.committed
  /\ s.observed = s.tx.candidate
  /\ SeqOf(s.committed) <= SeqOf(highwater)
  /\ SeqOf(highwater) <= SeqOf(s.observed)
  /\ IF s.tx.repair THEN SeqOf(s.tx.candidate) = SeqOf(highwater)
                    ELSE SeqOf(s.tx.candidate) > SeqOf(highwater)
  /\ s.previous # s.committed
  /\ {s.committed, s.previous, highwater, s.observed, s.tx.candidate} \ {None}
       \subseteq s.evidence
=============================================================================
