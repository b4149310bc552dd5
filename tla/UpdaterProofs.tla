---------------------------- MODULE UpdaterProofs ----------------------------
(***************************************************************************)
(* What holds of UpdateState and of Updater under ProcessSpec, for any     *)
(* releases, tokens and number of faults: what the records have in common  *)
(* and that validate_transition accepts every step between them; that the  *)
(* helper keeps to them and implements UpdateAuthority; and what a record  *)
(* knows of the releases' past - which failed, which are on disk, which    *)
(* can be tried next, and that recovery mends what it cut short.  Then of  *)
(* Enrollment, for any number of power losses as well: what a directory    *)
(* holds from its first file on, and what a power loss leaves of it.       *)
(***************************************************************************)
EXTENDS Enrollment, TLAPS

(***************************************************************************)
(* The invariant of a record, in parts.                                    *)
(***************************************************************************)
Trying == {"PREPARING", "QUIESCING", "PROBATION"}

Selectable(s) ==
  /\ s \in States
  /\ s.phase # "ENROLLING"
  /\ s.committed # None /\ s.highwater # None /\ s.observed # None

Floors(s) ==
  LET trusted == {s.committed, s.previous, s.highwater, s.observed} \ {None} IN
  /\ SeqOf(s.previous) <= SeqOf(s.committed)
  /\ SeqOf(s.committed) <= SeqOf(s.highwater)
  /\ SeqOf(s.highwater) <= SeqOf(s.observed)
  /\ \A p, q \in trusted : SeqNo[p] = SeqNo[q] => p = q

StageOf(s) ==
  CASE s.phase = "PREPARING" -> {"ADMITTED", "BUILDING", "VERIFIED"}
    [] s.phase = "QUIESCING" -> {"QUIESCING"}
    [] s.phase = "PROBATION" -> {"PROBATION"}
    [] OTHER -> {}

Ancillary(s) ==
  /\ s.phase \in Trying <=> s.tx # None
  /\ s.tx # None => /\ s.tx.old = s.committed /\ s.tx.candidate = s.observed
                    /\ s.failed = None /\ s.tx.stage \in StageOf(s)
  /\ s.phase = "ROLLING_BACK" <=> s.rollback # None
  /\ s.rollback # None =>
       \/ s.rollback.mode = "precommit" /\ s.rollback.target = s.committed
       \/ s.rollback.mode = "postcommit" /\ s.rollback.target = s.previous
  /\ s.phase # "CLEANING" => s.cleanup = {}

RecordInv(s) == Selectable(s) /\ Floors(s) /\ Ancillary(s) /\ Authenticated(s)

(***************************************************************************)
(* The steps the handlers and the recovery engine formulate.               *)
(***************************************************************************)
AdmitStep(s, t) ==
  \E r \in Releases : AdmissionChanges(s, r) /\ t = Admitted(s, r)

BeginStep(s, t) ==
  \E r \in Releases, id \in Ids, repair \in BOOLEAN :
    /\ BeginChecked(s, r, repair)
    /\ t = Begun(s, r, id, repair) /\ ValidTransition(s, t)

StageStep(s, t) ==
  \/ s.phase = "PREPARING" /\ t = Building(s)
  \/ s.phase = "PREPARING" /\ t = Verified(s)
  \/ s.phase = "PREPARING" /\ s.tx.stage = "VERIFIED" /\ t = Quiescing(s)
  \/ s.phase = "QUIESCING" /\ t = Probation(s)

AbortStep(s, t) == s.phase = "PREPARING" /\ t = Aborted(s)

CommitStep(s, t) == s.phase = "PROBATION" /\ t = Committed(s)

RollbackStep(s, t) ==
  \/ s.phase \in {"QUIESCING", "PROBATION"} /\ t = PrecommitRollback(s)
  \/ s.phase = "IDLE" /\ s.previous # None /\ t = PostcommitRollback(s)

FinishStep(s, t) ==
  \/ s.phase = "ROLLING_BACK" /\ t = RolledBack(s)
  \/ s.phase = "CLEANING" /\ t = Cleaned(s)

RecordStep(s, t) ==
  \/ AdmitStep(s, t) \/ BeginStep(s, t) \/ StageStep(s, t) \/ AbortStep(s, t)
  \/ CommitStep(s, t) \/ RollbackStep(s, t) \/ FinishStep(s, t)

(***************************************************************************)
(* Lemmas.                                                                 *)
(***************************************************************************)
\* The fields of a record of States have their types.
LEMMA StateFields ==
  ASSUME NEW s \in States
  PROVE  /\ s.revision \in Nat /\ s.complete \in BOOLEAN /\ s.phase \in Phases
         /\ s.committed \in Optional(Releases)
         /\ s.previous \in Optional(Releases)
         /\ s.highwater \in Optional(Releases)
         /\ s.observed \in Optional(Releases)
         /\ s.failed \in Optional(Releases)
         /\ s.tx \in Optional(Transactions)
         /\ s.cleanup \in SUBSET Directories
         /\ s.rollback \in Optional(Rollbacks)
         /\ s.evidence \in SUBSET Releases
  BY DEF States

\* prune_unreferenced_evidence drops only what nothing refers to, and touches
\* no other field.
LEMMA PruneKeeps ==
  ASSUME NEW s \in States
  PROVE  /\ Prune(s) \in States
         /\ Prune(s).revision = s.revision /\ Prune(s).complete = s.complete
         /\ Prune(s).phase = s.phase /\ Prune(s).committed = s.committed
         /\ Prune(s).previous = s.previous /\ Prune(s).highwater = s.highwater
         /\ Prune(s).observed = s.observed /\ Prune(s).failed = s.failed
         /\ Prune(s).tx = s.tx /\ Prune(s).cleanup = s.cleanup
         /\ Prune(s).rollback = s.rollback
         /\ Authenticated(s) => Authenticated(Prune(s))
  <1>1. Prune(s) \in States /\ Prune(s).evidence = s.evidence \cap Retained(s)
    BY DEF Prune, States
  <1>2. /\ Prune(s).revision = s.revision /\ Prune(s).complete = s.complete
        /\ Prune(s).phase = s.phase /\ Prune(s).committed = s.committed
        /\ Prune(s).previous = s.previous /\ Prune(s).highwater = s.highwater
        /\ Prune(s).observed = s.observed /\ Prune(s).failed = s.failed
        /\ Prune(s).tx = s.tx /\ Prune(s).cleanup = s.cleanup
        /\ Prune(s).rollback = s.rollback
    BY DEF Prune, States
  <1>3. Referenced(Prune(s)) = Retained(s)
    BY <1>2 DEF Referenced, Retained
  <1>4. Referenced(s) = Retained(s)
    BY DEF Referenced, Retained
  <1> QED BY <1>1, <1>2, <1>3, <1>4 DEF Authenticated

\* Admission raises both floors to the release it admits.
LEMMA AdmitPreserves ==
  ASSUME NEW s, NEW t, RecordInv(s), AdmitStep(s, t)
  PROVE  RecordInv(t) /\ ValidTransition(s, t)
  <1>1. PICK r \in Releases : AdmissionChanges(s, r) /\ t = Admitted(s, r)
    BY DEF AdmitStep
  <1>2. s \in States /\ s.phase = "IDLE"
    BY <1>1 DEF RecordInv, Selectable, AdmissionChanges
  <1>a. /\ s.revision + 1 \in Nat /\ r \in Optional(Releases)
        /\ None \in Optional(Transactions) /\ None \in Optional(Rollbacks)
        /\ {} \in SUBSET Directories /\ s.evidence \cup {r} \in SUBSET Releases
    BY <1>2, StateFields DEF Optional
  <1>b. t \in States
    BY <1>1, <1>2, <1>a DEF Admitted, States
  <1>3. /\ t \in States
        /\ t.revision = s.revision + 1 /\ t.complete = s.complete
        /\ t.phase = s.phase /\ t.committed = s.committed
        /\ t.previous = s.previous /\ t.highwater = r /\ t.observed = r
        /\ t.failed = s.failed /\ t.tx = None /\ t.cleanup = {}
        /\ t.rollback = None /\ t.evidence = s.evidence \cup {r}
    BY <1>1, <1>2, <1>b DEF Admitted, States
  <1>4. ValidTransition(s, t)
    BY <1>1 DEF AdmissionChanges
  <1>5. Selectable(t)
    BY <1>2, <1>3, ReleaseAssumption DEF RecordInv, Selectable
  <1>6. Floors(t)
    BY <1>1, <1>2, <1>3, ReleaseAssumption, StateFields
    DEF RecordInv, Selectable, Floors, SeqOf, AdmissionChanges, AntiDowngrade,
        AtFloor, AboveFloor, Optional
  <1>7. Ancillary(t)
    BY <1>2, <1>3 DEF Ancillary, Trying
  <1>8. Authenticated(t)
    BY <1>2, <1>3 DEF RecordInv, Ancillary, Trying, Authenticated, Referenced
  <1> QED BY <1>4, <1>5, <1>6, <1>7, <1>8 DEF RecordInv

\* BEGIN keeps the floors in order: also a repair at the observed sequence.
LEMMA BeginPreserves ==
  ASSUME NEW s, NEW t, RecordInv(s), BeginStep(s, t)
  PROVE  RecordInv(t) /\ ValidTransition(s, t)
  <1>1. PICK r \in Releases, id \in Ids, repair \in BOOLEAN :
           /\ BeginChecked(s, r, repair)
           /\ t = Begun(s, r, id, repair) /\ ValidTransition(s, t)
    BY DEF BeginStep
  <1> DEFINE tx == [id |-> id, candidate |-> r, old |-> s.committed,
                    stage |-> "ADMITTED", staging |-> FALSE,
                    repair |-> repair]
             u == [s EXCEPT !.revision = @ + 1, !.phase = "PREPARING",
                            !.observed = r, !.failed = None,
                            !.tx = tx, !.cleanup = {}, !.rollback = None,
                            !.evidence = @ \cup {r}]
  <1>2. s \in States /\ s.phase = "IDLE"
    BY <1>1 DEF RecordInv, Selectable, BeginChecked
  <1>3. tx \in Transactions
    BY <1>2, StateFields DEF Transactions, Stages
  <1>a. /\ tx # None /\ tx.candidate = r /\ tx.old = s.committed
        /\ tx.stage = "ADMITTED"
    BY <1>3, NoneAssumption
  <1> HIDE DEF tx
  <1>b. /\ s.revision + 1 \in Nat /\ r \in Optional(Releases)
        /\ tx \in Optional(Transactions) /\ None \in Optional(Rollbacks)
        /\ None \in Optional(Releases) /\ "PREPARING" \in Phases
        /\ {} \in SUBSET Directories /\ s.evidence \cup {r} \in SUBSET Releases
    BY <1>2, <1>3, StateFields DEF Optional, Phases
  <1>c. u \in States
    BY <1>2, <1>b DEF States
  <1>4. /\ u.revision = s.revision + 1 /\ u.complete = s.complete
        /\ u.phase = "PREPARING" /\ u.committed = s.committed
        /\ u.previous = s.previous /\ u.highwater = s.highwater
        /\ u.observed = r /\ u.failed = None /\ u.tx = tx
        /\ u.cleanup = {} /\ u.rollback = None
        /\ u.evidence = s.evidence \cup {r}
    BY <1>2, <1>c DEF States
  <1>5. t = Prune(u)
    BY <1>1 DEF Begun, tx
  <1>6. Authenticated(u)
    BY <1>2, <1>4, <1>a DEF RecordInv, Ancillary, Trying, Authenticated, Referenced
  <1> HIDE DEF u
  <1>7. /\ t \in States /\ Authenticated(t)
        /\ t.complete = s.complete
        /\ t.phase = "PREPARING" /\ t.committed = s.committed
        /\ t.previous = s.previous /\ t.highwater = s.highwater
        /\ t.observed = r /\ t.failed = None /\ t.tx = tx
        /\ t.cleanup = {} /\ t.rollback = None
    BY <1>4, <1>5, <1>6, <1>c, PruneKeeps
  <1>8. Selectable(t)
    BY <1>7, ReleaseAssumption DEF RecordInv, Selectable
  <1>9. SeqOf(r) >= SeqOf(s.observed) /\ (SeqOf(r) = SeqOf(s.observed) => r = s.observed)
    BY <1>1, <1>7, ReleaseAssumption, StateFields
    DEF RecordInv, Selectable, ValidTransition, FloorsKept
  <1>10. Floors(t)
    BY <1>2, <1>7, <1>9, ReleaseAssumption, StateFields
    DEF RecordInv, Selectable, Floors, SeqOf, Optional
  <1>11. Ancillary(t)
    BY <1>a, <1>7 DEF Ancillary, Trying, StageOf
  <1> QED BY <1>1, <1>7, <1>8, <1>10, <1>11 DEF RecordInv

\* The stages of a transaction: only phase and stage move.
LEMMA StagePreserves ==
  ASSUME NEW s, NEW t, RecordInv(s), StageStep(s, t)
  PROVE  RecordInv(t) /\ ValidTransition(s, t)
  <1>1. /\ s \in States /\ s.tx \in Transactions /\ s.tx # None
        /\ s.cleanup = {} /\ s.rollback = None
    BY StateFields
    DEF StageStep, RecordInv, Selectable, Ancillary, Trying, Optional
  <1>2. ASSUME NEW p \in Trying, NEW g \in StageOf([phase |-> p]),
               NEW b \in BOOLEAN,
               t = [s EXCEPT !.revision = @ + 1, !.phase = p,
                             !.tx = [s.tx EXCEPT !.stage = g, !.staging = b]]
        PROVE  /\ RecordInv(t) /\ t.phase = p /\ t.revision = s.revision + 1
               /\ FloorsKept(s, t)
    <2> DEFINE tx == [s.tx EXCEPT !.stage = g, !.staging = b]
    <2>1. g \in Stages /\ p \in Phases
      BY DEF StageOf, Stages, Trying, Phases
    <2>2. tx \in Transactions
      BY <1>1, <2>1 DEF Transactions
    <2>3. /\ tx # None /\ tx.candidate = s.tx.candidate /\ tx.old = s.tx.old
          /\ tx.stage = g
      BY <1>1, <2>2, NoneAssumption DEF Transactions
    <2> HIDE DEF tx
    <2>4. t = [s EXCEPT !.revision = @ + 1, !.phase = p, !.tx = tx]
      BY <1>2 DEF tx
    <2>5. s.revision + 1 \in Nat /\ tx \in Optional(Transactions)
      BY <1>1, <2>2, StateFields DEF Optional
    <2>6. t \in States
      BY <1>1, <2>1, <2>4, <2>5 DEF States
    <2>7. /\ t.revision = s.revision + 1 /\ t.complete = s.complete
          /\ t.phase = p /\ t.committed = s.committed
          /\ t.previous = s.previous /\ t.highwater = s.highwater
          /\ t.observed = s.observed /\ t.failed = s.failed
          /\ t.tx = tx /\ t.cleanup = {} /\ t.rollback = None
          /\ t.evidence = s.evidence
      BY <1>1, <2>4 DEF States
    <2>8. Selectable(t)
      BY <2>6, <2>7 DEF RecordInv, Selectable, Trying
    <2>9. Floors(t)
      BY <2>7 DEF RecordInv, Floors
    <2>10. Ancillary(t)
      BY <1>1, <2>3, <2>7 DEF RecordInv, Ancillary, Trying, StageOf
    <2>11. Authenticated(t)
      BY <1>1, <2>3, <2>7 DEF RecordInv, Authenticated, Referenced
    <2>12. FloorsKept(s, t)
      BY <1>1, <2>7, StateFields, ReleaseAssumption
      DEF FloorsKept, SeqOf, Optional
    <2> QED BY <2>7, <2>8, <2>9, <2>10, <2>11, <2>12 DEF RecordInv
  <1>3. CASE s.phase = "PREPARING" /\ t = Building(s)
    <2>1. t = [s EXCEPT !.revision = @ + 1, !.phase = "PREPARING",
                        !.tx = [s.tx EXCEPT !.stage = "BUILDING",
                                            !.staging = TRUE]]
      BY <1>1, <1>3 DEF Building, States, Transactions
    <2> QED BY <1>2, <1>3, <2>1 DEF Trying, StageOf, ValidTransition, Edge
  <1>4. CASE s.phase = "PREPARING" /\ t = Verified(s)
    <2>1. t = [s EXCEPT !.revision = @ + 1, !.phase = "PREPARING",
                        !.tx = [s.tx EXCEPT !.stage = "VERIFIED",
                                            !.staging = s.tx.staging]]
      BY <1>1, <1>4 DEF Verified, States, Transactions
    <2>2. s.tx.staging \in BOOLEAN
      BY <1>1 DEF Transactions
    <2> QED BY <1>2, <1>4, <2>1, <2>2 DEF Trying, StageOf, ValidTransition, Edge
  <1>5. CASE s.phase = "PREPARING" /\ s.tx.stage = "VERIFIED" /\ t = Quiescing(s)
    <2>1. t = [s EXCEPT !.revision = @ + 1, !.phase = "QUIESCING",
                        !.tx = [s.tx EXCEPT !.stage = "QUIESCING",
                                            !.staging = s.tx.staging]]
      BY <1>1, <1>5 DEF Quiescing, States, Transactions
    <2>2. s.tx.staging \in BOOLEAN
      BY <1>1 DEF Transactions
    <2> QED BY <1>1, <1>2, <1>5, <2>1, <2>2
            DEF Trying, StageOf, ValidTransition, Edge
  <1>6. CASE s.phase = "QUIESCING" /\ t = Probation(s)
    <2>1. t = [s EXCEPT !.revision = @ + 1, !.phase = "PROBATION",
                        !.tx = [s.tx EXCEPT !.stage = "PROBATION",
                                            !.staging = s.tx.staging]]
      BY <1>1, <1>6 DEF Probation, States, Transactions
    <2>2. s.tx.staging \in BOOLEAN
      BY <1>1 DEF Transactions
    <2> QED BY <1>2, <1>6, <2>1, <2>2 DEF Trying, StageOf, ValidTransition, Edge
  <1> QED BY <1>3, <1>4, <1>5, <1>6 DEF StageStep

\* The containers of a transaction are containers.
LEMMA ScratchType ==
  ASSUME NEW tx \in Optional(Transactions)
  PROVE  Scratch(tx) \in SUBSET Directories
  BY DEF Optional, Transactions, Scratch, Directories

\* A record whose selection and floors are those of s has the floors of s.
LEMMA SameFloors ==
  ASSUME NEW s, NEW t, RecordInv(s),
         t.committed = s.committed, t.previous = s.previous,
         t.highwater = s.highwater, t.observed = s.observed
  PROVE  Floors(t) /\ FloorsKept(s, t)
  <1>1. SeqOf(s.highwater) \in Nat /\ SeqOf(s.observed) \in Nat
    BY StateFields, ReleaseAssumption DEF RecordInv, Selectable, SeqOf, Optional
  <1> QED BY <1>1 DEF RecordInv, Floors, FloorsKept

\* An abort records the candidate as failed and queues its containers.
LEMMA AbortPreserves ==
  ASSUME NEW s, NEW t, RecordInv(s), AbortStep(s, t)
  PROVE  RecordInv(t) /\ ValidTransition(s, t)
  <1> DEFINE queue == Scratch(s.tx)
             u == [s EXCEPT !.revision = @ + 1, !.phase = "CLEANING",
                            !.failed = s.observed, !.tx = None,
                            !.cleanup = queue, !.rollback = None]
  <1>1. s \in States /\ s.phase = "PREPARING" /\ s.tx # None
    BY DEF AbortStep, RecordInv, Selectable, Ancillary, Trying
  <1>2. /\ s.revision + 1 \in Nat /\ "CLEANING" \in Phases
        /\ queue \in SUBSET Directories
        /\ None \in Optional(Transactions) /\ None \in Optional(Rollbacks)
    BY <1>1, ScratchType, StateFields DEF Optional, Phases
  <1>3. t = Prune(u)
    BY <1>1 DEF AbortStep, Aborted
  <1> HIDE DEF queue
  <1>4. u \in States
    BY <1>1, <1>2, StateFields DEF States
  <1>5. /\ u.revision = s.revision + 1 /\ u.complete = s.complete
        /\ u.phase = "CLEANING" /\ u.committed = s.committed
        /\ u.previous = s.previous /\ u.highwater = s.highwater
        /\ u.observed = s.observed /\ u.failed = s.observed /\ u.tx = None
        /\ u.cleanup = queue /\ u.rollback = None /\ u.evidence = s.evidence
    BY <1>1 DEF States
  <1> HIDE DEF u
  <1>6. Authenticated(u)
    BY <1>5 DEF RecordInv, Authenticated, Referenced
  <1>7. /\ t \in States /\ Authenticated(t)
        /\ t.revision = s.revision + 1 /\ t.complete = s.complete
        /\ t.phase = "CLEANING" /\ t.committed = s.committed
        /\ t.previous = s.previous /\ t.highwater = s.highwater
        /\ t.observed = s.observed /\ t.failed = s.observed
        /\ t.tx = None /\ t.rollback = None
    BY <1>3, <1>4, <1>5, <1>6, PruneKeeps
  <1>8. Selectable(t)
    BY <1>7 DEF RecordInv, Selectable
  <1>9. Floors(t) /\ FloorsKept(s, t)
    BY <1>7, SameFloors
  <1>10. Ancillary(t)
    BY <1>7 DEF Ancillary, Trying
  <1>11. ValidTransition(s, t)
    BY <1>1, <1>7, <1>9 DEF ValidTransition, Edge, SelectionKept
  <1> QED BY <1>7, <1>8, <1>9, <1>10, <1>11 DEF RecordInv

\* A commit moves the selection and the floors to the candidate.
LEMMA CommitPreserves ==
  ASSUME NEW s, NEW t, RecordInv(s), CommitStep(s, t)
  PROVE  RecordInv(t) /\ ValidTransition(s, t)
  <1> DEFINE queue == Scratch(s.tx)
             c == s.tx.candidate
             u == [s EXCEPT !.revision = @ + 1, !.phase = "CLEANING",
                            !.committed = c, !.previous = s.committed,
                            !.highwater = c, !.observed = c, !.tx = None,
                            !.cleanup = queue, !.rollback = None]
  <1>1. /\ s \in States /\ s.phase = "PROBATION" /\ s.tx # None
        /\ s.tx \in Transactions /\ c = s.observed /\ s.failed = None
    BY StateFields
    DEF CommitStep, RecordInv, Selectable, Ancillary, Trying, Optional
  <1>2. /\ s.revision + 1 \in Nat /\ "CLEANING" \in Phases
        /\ queue \in SUBSET Directories
        /\ c \in Optional(Releases)
        /\ None \in Optional(Transactions) /\ None \in Optional(Rollbacks)
    BY <1>1, ScratchType, StateFields DEF Optional, Phases
  <1>3. t = Prune(u)
    BY <1>1 DEF CommitStep, Committed
  <1> HIDE DEF queue, c
  <1>4. u \in States
    BY <1>1, <1>2, StateFields DEF States
  <1>5. /\ u.revision = s.revision + 1 /\ u.complete = s.complete
        /\ u.phase = "CLEANING" /\ u.committed = c
        /\ u.previous = s.committed /\ u.highwater = c
        /\ u.observed = c /\ u.failed = s.failed /\ u.tx = None
        /\ u.cleanup = queue /\ u.rollback = None /\ u.evidence = s.evidence
    BY <1>1 DEF States
  <1> HIDE DEF u
  <1>6. Authenticated(u)
    BY <1>1, <1>5 DEF RecordInv, Authenticated, Referenced
  <1>7. /\ t \in States /\ Authenticated(t)
        /\ t.revision = s.revision + 1 /\ t.complete = s.complete
        /\ t.phase = "CLEANING" /\ t.committed = c
        /\ t.previous = s.committed /\ t.highwater = c
        /\ t.observed = c /\ t.tx = None /\ t.rollback = None
    BY <1>3, <1>4, <1>5, <1>6, PruneKeeps
  <1>8. Selectable(t)
    BY <1>1, <1>7 DEF RecordInv, Selectable
  <1>9. Floors(t) /\ FloorsKept(s, t)
    BY <1>1, <1>7, StateFields, ReleaseAssumption
    DEF RecordInv, Selectable, Floors, FloorsKept, SeqOf, Optional
  <1>10. Ancillary(t)
    BY <1>7 DEF Ancillary, Trying
  <1>11. ValidTransition(s, t)
    BY <1>1, <1>7, <1>9 DEF ValidTransition, Edge, c
  <1> QED BY <1>7, <1>8, <1>9, <1>10, <1>11 DEF RecordInv

\* A rollback of either mode, from a record with the release it returns to.
LEMMA RollbackPreserves ==
  ASSUME NEW s, NEW t, RecordInv(s), RollbackStep(s, t)
  PROVE  RecordInv(t) /\ ValidTransition(s, t)
  <1>1. s \in States
    BY DEF RecordInv, Selectable
  <1>2. ASSUME NEW m \in {"precommit", "postcommit"}, NEW g \in Releases,
               NEW kept \in SUBSET Directories,
               t = Prune([s EXCEPT !.revision = @ + 1, !.phase = "ROLLING_BACK",
                                   !.failed = s.observed, !.tx = None,
                                   !.cleanup = {},
                                   !.rollback = [mode |-> m, target |-> g,
                                                 scratch |-> kept]]),
               \/ m = "precommit" /\ g = s.committed
               \/ m = "postcommit" /\ g = s.previous
        PROVE  /\ RecordInv(t) /\ t.phase = "ROLLING_BACK"
               /\ t.revision = s.revision + 1 /\ FloorsKept(s, t)
               /\ t.rollback # None /\ t.rollback.mode = m
    <2> DEFINE rb == [mode |-> m, target |-> g, scratch |-> kept]
               u == [s EXCEPT !.revision = @ + 1, !.phase = "ROLLING_BACK",
                              !.failed = s.observed, !.tx = None,
                              !.cleanup = {}, !.rollback = rb]
    <2>1. rb \in Rollbacks
      BY DEF Rollbacks
    <2>2. rb # None /\ rb.mode = m /\ rb.target = g
      BY <2>1, NoneAssumption
    <2>3. t = Prune(u)
      BY <1>2
    <2> HIDE DEF rb
    <2>4. /\ s.revision + 1 \in Nat /\ "ROLLING_BACK" \in Phases
          /\ rb \in Optional(Rollbacks) /\ None \in Optional(Transactions)
          /\ {} \in SUBSET Directories
      BY <1>1, <2>1, StateFields DEF Optional, Phases
    <2>5. u \in States
      BY <1>1, <2>4, StateFields DEF States
    <2>6. /\ u.revision = s.revision + 1 /\ u.complete = s.complete
          /\ u.phase = "ROLLING_BACK" /\ u.committed = s.committed
          /\ u.previous = s.previous /\ u.highwater = s.highwater
          /\ u.observed = s.observed /\ u.failed = s.observed
          /\ u.tx = None /\ u.cleanup = {} /\ u.rollback = rb
          /\ u.evidence = s.evidence
      BY <1>1 DEF States
    <2> HIDE DEF u
    <2>7. Authenticated(u)
      BY <1>2, <2>2, <2>6 DEF RecordInv, Authenticated, Referenced
    <2>8. /\ t \in States /\ Authenticated(t)
          /\ t.revision = s.revision + 1 /\ t.complete = s.complete
          /\ t.phase = "ROLLING_BACK" /\ t.committed = s.committed
          /\ t.previous = s.previous /\ t.highwater = s.highwater
          /\ t.observed = s.observed /\ t.failed = s.observed
          /\ t.tx = None /\ t.cleanup = {} /\ t.rollback = rb
      BY <2>3, <2>5, <2>6, <2>7, PruneKeeps
    <2>9. Selectable(t)
      BY <2>8 DEF RecordInv, Selectable
    <2>10. Floors(t) /\ FloorsKept(s, t)
      BY <2>8, SameFloors
    <2>11. Ancillary(t)
      BY <1>2, <2>2, <2>8 DEF Ancillary, Trying
    <2> QED BY <2>2, <2>8, <2>9, <2>10, <2>11 DEF RecordInv
  <1>3. CASE s.phase \in {"QUIESCING", "PROBATION"} /\ t = PrecommitRollback(s)
    <2>1. s.committed \in Releases /\ {} \in SUBSET Directories
      BY <1>1, StateFields DEF RecordInv, Selectable, Optional
    <2>b. "precommit" \in {"precommit", "postcommit"}
      OBVIOUS
    <2>a. t = Prune([s EXCEPT !.revision = @ + 1, !.phase = "ROLLING_BACK",
                              !.failed = s.observed, !.tx = None, !.cleanup = {},
                              !.rollback = [mode |-> "precommit",
                                            target |-> s.committed,
                                            scratch |-> {}]])
      BY <1>3 DEF PrecommitRollback
    <2>2. RecordInv(t) /\ t.phase = "ROLLING_BACK" /\ t.revision = s.revision + 1
          /\ FloorsKept(s, t) /\ t.rollback # None /\ t.rollback.mode = "precommit"
      BY <1>2, <2>1, <2>a, <2>b
    <2> QED BY <1>3, <2>2 DEF ValidTransition, Edge
  <1>4. CASE s.phase = "IDLE" /\ s.previous # None /\ t = PostcommitRollback(s)
    <2>1. s.previous \in Releases /\ s.cleanup \in SUBSET Directories
      BY <1>1, <1>4, StateFields DEF Optional
    <2>a. t = Prune([s EXCEPT !.revision = @ + 1, !.phase = "ROLLING_BACK",
                              !.failed = s.observed, !.tx = None, !.cleanup = {},
                              !.rollback = [mode |-> "postcommit",
                                            target |-> s.previous,
                                            scratch |-> s.cleanup]])
      BY <1>4 DEF PostcommitRollback
    <2>2. RecordInv(t) /\ t.phase = "ROLLING_BACK" /\ t.revision = s.revision + 1
          /\ FloorsKept(s, t) /\ t.rollback # None /\ t.rollback.mode = "postcommit"
      BY <1>2, <2>1, <2>a
    <2> QED BY <1>4, <2>2 DEF ValidTransition, Edge
  <1> QED BY <1>3, <1>4 DEF RollbackStep

\* The end of a rollback selects its target, the end of a cleanup nothing new.
LEMMA FinishPreserves ==
  ASSUME NEW s, NEW t, RecordInv(s), FinishStep(s, t)
  PROVE  RecordInv(t) /\ ValidTransition(s, t)
  <1>1. s \in States /\ s.tx = None
    BY DEF RecordInv, Selectable, FinishStep, Ancillary, Trying
  <1>2. ASSUME NEW c \in Releases, NEW p \in Optional(Releases),
               t = Prune([s EXCEPT !.revision = @ + 1, !.phase = "IDLE",
                                   !.committed = c, !.previous = p,
                                   !.tx = None, !.cleanup = {},
                                   !.rollback = None]),
               \/ c = s.committed /\ p = s.previous
               \/ c = s.previous /\ p = None
        PROVE  /\ RecordInv(t) /\ t.phase = "IDLE" /\ t.cleanup = {}
               /\ t.rollback = None /\ t.committed = c /\ t.previous = p
               /\ t.revision = s.revision + 1 /\ FloorsKept(s, t)
    <2> DEFINE u == [s EXCEPT !.revision = @ + 1, !.phase = "IDLE",
                              !.committed = c, !.previous = p,
                              !.tx = None, !.cleanup = {}, !.rollback = None]
    <2>1. /\ s.revision + 1 \in Nat /\ "IDLE" \in Phases
          /\ c \in Optional(Releases) /\ c # None
          /\ None \in Optional(Rollbacks) /\ None \in Optional(Transactions)
          /\ {} \in SUBSET Directories
      BY <1>1, StateFields, ReleaseAssumption DEF Optional, Phases
    <2>2. t = Prune(u)
      BY <1>2
    <2>3. u \in States
      BY <1>1, <2>1, StateFields DEF States
    <2>4. /\ u.revision = s.revision + 1 /\ u.complete = s.complete
          /\ u.phase = "IDLE" /\ u.committed = c
          /\ u.previous = p /\ u.highwater = s.highwater
          /\ u.observed = s.observed /\ u.failed = s.failed
          /\ u.tx = None /\ u.cleanup = {} /\ u.rollback = None
          /\ u.evidence = s.evidence
      BY <1>1 DEF States
    <2> HIDE DEF u
    <2>5. Authenticated(u)
      BY <1>2, <2>4 DEF RecordInv, Authenticated, Referenced
    <2>6. /\ t \in States /\ Authenticated(t)
          /\ t.revision = s.revision + 1 /\ t.complete = s.complete
          /\ t.phase = "IDLE" /\ t.committed = c
          /\ t.previous = p /\ t.highwater = s.highwater
          /\ t.observed = s.observed /\ t.failed = s.failed
          /\ t.tx = None /\ t.cleanup = {} /\ t.rollback = None
      BY <2>2, <2>3, <2>4, <2>5, PruneKeeps
    <2>7. Selectable(t)
      BY <2>1, <2>6 DEF RecordInv, Selectable
    <2>8. FloorsKept(s, t)
      BY <1>1, <2>6, StateFields, ReleaseAssumption
      DEF RecordInv, Selectable, FloorsKept, SeqOf, Optional
    <2>9. Floors(t)
      BY <1>1, <1>2, <2>6, StateFields, ReleaseAssumption
      DEF RecordInv, Selectable, Floors, SeqOf, Optional
    <2>10. Ancillary(t)
      BY <2>6 DEF Ancillary, Trying
    <2> QED BY <2>6, <2>7, <2>8, <2>9, <2>10 DEF RecordInv
  <1>3. CASE s.phase = "ROLLING_BACK" /\ t = RolledBack(s)
    <2>1. /\ s.rollback \in Rollbacks /\ s.rollback # None
          /\ s.committed \in Releases
          /\ \/ s.rollback.mode = "precommit" /\ s.rollback.target = s.committed
             \/ s.rollback.mode = "postcommit" /\ s.rollback.target = s.previous
      BY <1>1, <1>3, StateFields
      DEF RecordInv, Selectable, Ancillary, Optional
    <2>2. s.rollback.target \in Releases
      BY <2>1 DEF Rollbacks
    <2>3. t = Prune([s EXCEPT !.revision = @ + 1, !.phase = "IDLE",
                              !.committed = s.rollback.target,
                              !.previous = IF s.rollback.mode = "postcommit"
                                           THEN None ELSE s.previous,
                              !.tx = None, !.cleanup = {}, !.rollback = None])
      BY <1>3, <2>1 DEF RolledBack
    <2>4. CASE s.rollback.mode = "precommit"
      <3>1. t = Prune([s EXCEPT !.revision = @ + 1, !.phase = "IDLE",
                                !.committed = s.committed,
                                !.previous = s.previous,
                                !.tx = None, !.cleanup = {}, !.rollback = None])
        BY <2>1, <2>3, <2>4
      <3>2. s.previous \in Optional(Releases)
        BY <1>1, StateFields
      <3>3. /\ RecordInv(t) /\ t.phase = "IDLE" /\ t.rollback = None
            /\ t.committed = s.committed /\ t.previous = s.previous
            /\ t.revision = s.revision + 1 /\ FloorsKept(s, t)
        BY <1>2, <2>1, <3>1, <3>2
      <3> QED BY <1>3, <2>1, <2>4, <3>3
              DEF ValidTransition, Edge, RollbackDone, SelectionKept
    <2>5. CASE s.rollback.mode = "postcommit"
      <3>1. t = Prune([s EXCEPT !.revision = @ + 1, !.phase = "IDLE",
                                !.committed = s.rollback.target,
                                !.previous = None,
                                !.tx = None, !.cleanup = {}, !.rollback = None])
        BY <2>3, <2>5
      <3>2. None \in Optional(Releases) /\ s.rollback.target = s.previous
        BY <2>1, <2>5 DEF Optional
      <3>3. /\ RecordInv(t) /\ t.phase = "IDLE" /\ t.rollback = None
            /\ t.committed = s.rollback.target /\ t.previous = None
            /\ t.revision = s.revision + 1 /\ FloorsKept(s, t)
        BY <1>2, <2>2, <3>1, <3>2
      <3> QED BY <1>3, <2>1, <2>5, <3>3
              DEF ValidTransition, Edge, RollbackDone
    <2> QED BY <2>1, <2>4, <2>5
  <1>4. CASE s.phase = "CLEANING" /\ t = Cleaned(s)
    <2>1. s.committed \in Releases /\ s.previous \in Optional(Releases)
      BY <1>1, StateFields DEF RecordInv, Selectable, Optional
    <2>2. t = Prune([s EXCEPT !.revision = @ + 1, !.phase = "IDLE",
                              !.committed = s.committed,
                              !.previous = s.previous,
                              !.tx = None, !.cleanup = {}, !.rollback = None])
      BY <1>1, <1>4 DEF Cleaned, States
    <2>3. /\ RecordInv(t) /\ t.phase = "IDLE" /\ t.cleanup = {}
          /\ t.revision = s.revision + 1 /\ FloorsKept(s, t)
      BY <1>2, <2>1, <2>2
    <2> QED BY <1>4, <2>3 DEF ValidTransition, Edge
  <1> QED BY <1>3, <1>4 DEF FinishStep

\* Every record that a handler or the recovery engine formulates from a record
\* of the invariant satisfies it again, and validate_transition accepts it:
\* also where the recovery engine writes without asking.
THEOREM StepsLegal ==
  ASSUME NEW s, NEW t, RecordInv(s), RecordStep(s, t)
  PROVE  RecordInv(t) /\ ValidTransition(s, t) /\ t.revision = s.revision + 1
  <1>1. RecordInv(t) /\ ValidTransition(s, t)
    BY AdmitPreserves, BeginPreserves, StagePreserves, AbortPreserves,
       CommitPreserves, RollbackPreserves, FinishPreserves DEF RecordStep
  <1>2. s.phase # "ENROLLING"
    BY DEF RecordInv, Selectable
  <1> QED BY <1>1, <1>2 DEF ValidTransition

(***************************************************************************)
(* The inductive invariant.                                                *)
(***************************************************************************)
\* One slot is selected, and its record is one of the invariant.
SlotInv(img) ==
  /\ img \in [Slots -> Frames]
  /\ \E x \in Slots : Selects(img, x) /\ RecordInv(img[x])

\* Where the helper goes on from, with the record it wrote last.
Holding == {"ready", "build", "publish", "replace", "check", "verified",
            "selftest", "quiescing", "probation"}

\* What that record is.
Holds(p, s) ==
  /\ p \in {"ready", "build", "publish", "replace", "check", "verified",
            "selftest"} => s.phase = "PREPARING"
  /\ p \in {"verified", "selftest"} => s.tx.stage = "VERIFIED"
  /\ p = "quiescing" => s.phase = "QUIESCING"
  /\ p = "probation" => s.phase = "PROBATION"

\* A record an abort may be formulated from: the current one, or one that
\* the slots have left behind, whose successor write_state will refuse.
Abortable(s) ==
  /\ RecordInv(s) /\ s.phase = "PREPARING"
  /\ s = Current(cache) \/ s.revision < Current(cache).revision

HelperInv ==
  /\ pc \in Holding => mem = Current(cache) /\ Holds(pc, mem)
  /\ pc = "abort" => Abortable(mem)
  /\ pc \in {"write", "flush"} =>
       /\ w \in Writes /\ w.ok \in Holding \cup {"admitted", "off"}
       /\ Holds(w.ok, w.state)
       /\ w.fail = "abort" => Abortable(mem)
  /\ pc = "write" =>
       /\ w.slot = InactiveSlot(cache)
       /\ \/ RecordStep(Current(cache), w.state)
          \/ w.state.revision # Current(cache).revision + 1
  /\ pc \in {"truncate", "rewrite"} =>
       /\ w \in Writes /\ w.slot = InactiveSlot(cache)
       /\ RecordStep(Current(cache), w.state)
  /\ pc \in {"flush", "sync"} =>
       /\ w \in Writes /\ Selects(cache, w.slot) /\ cache[w.slot] = w.state
       /\ RecordInv(w.state)

Inv == TypeOK /\ SlotInv(cache) /\ HelperInv

(***************************************************************************)
(* The slots.                                                              *)
(***************************************************************************)
\* The slots are each other's other one, and a state is a frame that is
\* neither torn nor short.
LEMMA SlotFacts ==
  /\ \A x \in Slots : Other(x) \in Slots /\ Other(x) # x /\ Other(Other(x)) = x
  /\ \A s \in States : s \in Frames /\ IsState(s)
  /\ Torn \in Frames /\ Short \in Frames /\ ~IsState(Torn) /\ ~IsState(Short)
  BY FrameAssumption DEF Slots, Other, Frames, IsState

\* Two slots are never selected at once, so ActiveSlot is the one that is.
LEMMA OneActiveSlot ==
  ASSUME NEW img \in [Slots -> Frames], NEW x \in Slots, Selects(img, x)
  PROVE  ActiveSlot(img) = x /\ Current(img) = img[x]
  <1>1. \A y \in Slots : Selects(img, y) => y = x
    <2> SUFFICES ASSUME Selects(img, Other(x)) PROVE FALSE
      BY DEF Slots, Other
    <2>1. img[x] \in States /\ img[Other(x)] \in States
      BY SlotFacts DEF Selects, Frames, IsState
    <2>2. img[x].revision \in Nat /\ img[Other(x)].revision \in Nat
      BY <2>1, StateFields
    <2> QED BY <2>1, <2>2, SlotFacts DEF Selects, Slots, Other
  <1>2. ActiveSlot(img) \in Slots /\ Selects(img, ActiveSlot(img))
    BY DEF ActiveSlot
  <1> QED BY <1>1, <1>2 DEF Current

\* What the invariant of an image gives: one slot is active, and the record
\* in it is current, legal and selectable.
LEMMA SlotInvFacts ==
  ASSUME NEW img, SlotInv(img)
  PROVE  /\ img \in [Slots -> Frames] /\ Selected(img)
         /\ ActiveSlot(img) \in Slots /\ Selects(img, ActiveSlot(img))
         /\ InactiveSlot(img) \in Slots /\ InactiveSlot(img) # ActiveSlot(img)
         /\ Other(InactiveSlot(img)) = ActiveSlot(img)
         /\ Current(img) = img[ActiveSlot(img)] /\ RecordInv(Current(img))
         /\ Current(img) \in States
  <1>1. PICK x \in Slots : Selects(img, x) /\ RecordInv(img[x])
    BY DEF SlotInv
  <1>2. img \in [Slots -> Frames]
    BY DEF SlotInv
  <1>3. ActiveSlot(img) = x /\ Current(img) = img[x]
    BY <1>1, <1>2, OneActiveSlot
  <1> QED BY <1>1, <1>2, <1>3, SlotFacts
          DEF Selected, InactiveSlot, RecordInv, Selectable

\* Writing the successor of the current record selects it.
LEMMA SuccessorSelected ==
  ASSUME SlotInv(cache), RecordStep(Current(cache), w.state),
         w.slot = InactiveSlot(cache),
         cache' = [cache EXCEPT ![w.slot] = w.state]
  PROVE  /\ SlotInv(cache') /\ Selects(cache', w.slot)
         /\ cache'[w.slot] = w.state /\ Current(cache') = w.state
         /\ RecordInv(w.state)
         /\ w.state.revision = Current(cache).revision + 1
  <1> DEFINE cur == Current(cache)
             s == w.state
             x == w.slot
             new == cache'
  <1>1. /\ RecordInv(s) /\ ValidTransition(cur, s)
        /\ s.revision = cur.revision + 1
    BY SlotInvFacts, StepsLegal
  <1>2. s \in States /\ cur \in States /\ Authenticated(s) /\ Authenticated(cur)
    BY <1>1, SlotInvFacts DEF RecordInv, Selectable
  <1>3. /\ x \in Slots /\ new \in [Slots -> Frames] /\ new[x] = s
        /\ new[Other(x)] = cur
    BY <1>2, SlotInvFacts, SlotFacts
  <1> HIDE DEF cur, s, x, new
  <1>4. Selects(new, x)
    BY <1>1, <1>2, <1>3, SlotFacts DEF Selects
  <1>5. SlotInv(new)
    BY <1>1, <1>3, <1>4 DEF SlotInv
  <1>6. ActiveSlot(new) = x /\ Current(new) = s
    BY <1>3, <1>4, OneActiveSlot
  <1> QED BY <1>1, <1>3, <1>4, <1>5, <1>6 DEF cur, s, x, new

\* Spoiling the inactive slot leaves the current record selected.
LEMMA SpoiltIgnored ==
  ASSUME NEW img, SlotInv(img), NEW f \in {Torn, Short},
         NEW x, x = InactiveSlot(img), NEW new, new = [img EXCEPT ![x] = f]
  PROVE  /\ SlotInv(new) /\ Current(new) = Current(img)
         /\ ActiveSlot(new) = ActiveSlot(img)
  <1> DEFINE y == ActiveSlot(img)
  <1>1. /\ y \in Slots /\ x = Other(y) /\ new \in [Slots -> Frames]
        /\ new[y] = Current(img) /\ new[Other(y)] = f
    BY SlotInvFacts, SlotFacts DEF InactiveSlot
  <1>2. RecordInv(new[y]) /\ new[y] \in States
    BY <1>1, SlotInvFacts
  <1> HIDE DEF y
  <1>3. Selects(new, y)
    BY <1>1, <1>2, SlotFacts DEF Selects, RecordInv
  <1>4. ActiveSlot(new) = y /\ Current(new) = new[y]
    BY <1>1, <1>3, OneActiveSlot
  <1> QED BY <1>1, <1>2, <1>3, <1>4 DEF SlotInv, y

(***************************************************************************)
(* The two ways an action moves the control point.                         *)
(***************************************************************************)
\* The part of TypeOK that Goto and Persist change.
ControlType ==
  /\ pc \in HelperPcs \cup RecoveryPcs \cup {"off"}
  /\ mem \in Optional(States) /\ w \in Optional(Writes)

\* Moving on without a write keeps the invariant, provided the record the
\* helper holds still fits the place it goes to.
LEMMA GotoKeeps ==
  ASSUME Inv, NEW p \in HelperPcs \cup {"off", "recover"}, Goto(p),
         SlotInv(cache)',
         p \in Holding => mem = Current(cache') /\ Holds(p, mem),
         p = "abort" => /\ RecordInv(mem) /\ mem.phase = "PREPARING"
                        /\ \/ mem = Current(cache')
                           \/ mem.revision < Current(cache').revision,
         p \notin {"write", "flush"}
  PROVE  HelperInv' /\ ControlType'
  <1>1. pc' = p /\ w' = None /\ (p \in HelperPcs => mem' = mem)
    BY DEF Goto, HelperPcs
  <1>2. Holding \subseteq HelperPcs /\ "abort" \in HelperPcs
    BY DEF Holding, HelperPcs
  <1>3. HelperInv'
    BY <1>1, <1>2 DEF HelperInv, Holding, Abortable, HelperPcs
  <1>4. mem' \in Optional(States)
    BY DEF Goto, Inv, TypeOK, Optional
  <1>5. ControlType'
    BY <1>1, <1>4 DEF ControlType, HelperPcs, RecoveryPcs, Optional
  <1> QED BY <1>3, <1>5

\* Formulating a record to write keeps the invariant, provided the record is
\* a successor of the current one, or one write_state will refuse.
LEMMA PersistKeeps ==
  ASSUME Inv, NEW first \in {"write", "truncate"}, NEW s \in States,
         NEW ok \in Holding \cup {"admitted", "off", "recover"},
         NEW fail \in {"off", "abort"}, Persist(first, s, ok, fail),
         cache' = cache,
         \/ RecordStep(Current(cache), s)
         \/ first = "write" /\ s.revision # Current(cache).revision + 1,
         first = "write" => ok # "recover" /\ Holds(ok, s),
         fail = "abort" => Abortable(mem)
  PROVE  SlotInv(cache)' /\ HelperInv' /\ ControlType'
  <1>1. SlotInv(cache) /\ InactiveSlot(cache) \in Slots
    BY SlotInvFacts DEF Inv
  <1>2. /\ pc' = first /\ mem' = mem
        /\ w' = [state |-> s, slot |-> InactiveSlot(cache), ok |-> ok,
                 fail |-> fail]
    BY DEF Persist
  <1>3. w' \in Writes
    BY <1>1, <1>2 DEF Writes, Holding, HelperPcs
  <1>4. /\ w'.state = s /\ w'.slot = InactiveSlot(cache) /\ w'.ok = ok
        /\ w'.fail = fail
    BY <1>2
  <1>5. HelperInv'
    BY <1>1, <1>2, <1>3, <1>4 DEF HelperInv, Holding, Abortable
  <1>6. ControlType'
    BY <1>2, <1>3 DEF ControlType, Inv, TypeOK, Optional, HelperPcs, RecoveryPcs
  <1> QED BY <1>1, <1>5, <1>6

(***************************************************************************)
(* SlotStore.write_state.                                                  *)
(***************************************************************************)
\* What is being written is the successor of the current record, if
\* write_state accepts it.
LEMMA AcceptedWrite ==
  ASSUME Inv, pc = "write", WriteChecked(cache, w.state)
  PROVE  RecordStep(Current(cache), w.state)
  BY DEF Inv, HelperInv, WriteChecked

\* No step of write_state, a failing one included, breaks the invariant: until
\* the slot holds the whole record, the record before it stays selected.
LEMMA WriteKeeps ==
  ASSUME Inv, WriteStep \/ WriteFault
  PROVE  Inv'
  <1>1. /\ pc \in {"write", "flush"} => w \in Writes /\ w.fail \in {"off", "abort"}
        /\ SlotInv(cache) /\ HelperInv /\ TypeOK
    BY DEF Inv, HelperInv, Writes
  <1>2. CASE WriteRefused
    <2>1. cache' = cache /\ Goto(w.fail) /\ pc = "write"
      BY <1>2 DEF WriteRefused, slotVars
    <2>2. w.fail \in HelperPcs \cup {"off", "recover"}
      BY <1>1, <2>1 DEF HelperPcs
    <2>3. HelperInv' /\ ControlType'
      BY <1>1, <2>1, <2>2, GotoKeeps DEF HelperInv, Abortable, Holding
    <2> QED BY <1>1, <1>2, <2>1, <2>3
            DEF Inv, TypeOK, ControlType, WriteRefused, slotVars, diskVars, envVars
  <1>3. CASE WriteSlot
    <2>1. /\ pc = "write" /\ w' = w /\ mem' = mem /\ pc' = "flush"
          /\ cache' = [cache EXCEPT ![w.slot] = w.state]
          /\ RecordStep(Current(cache), w.state) /\ w.slot = InactiveSlot(cache)
      BY <1>1, <1>3, AcceptedWrite DEF WriteSlot, HelperInv
    <2>2. /\ SlotInv(cache') /\ Selects(cache', w.slot)
          /\ cache'[w.slot] = w.state /\ Current(cache') = w.state
          /\ RecordInv(w.state)
          /\ w.state.revision = Current(cache).revision + 1
      BY <1>1, <2>1, SuccessorSelected
    <2>3. w.fail = "abort" =>
             /\ RecordInv(mem) /\ mem.phase = "PREPARING"
             /\ mem.revision < Current(cache').revision
      <3>1. Current(cache).revision \in Nat
        BY <1>1, SlotInvFacts, StateFields
      <3>2. SUFFICES ASSUME w.fail = "abort"
                     PROVE  /\ RecordInv(mem) /\ mem.phase = "PREPARING"
                            /\ mem.revision < Current(cache').revision
        OBVIOUS
      <3>3. Abortable(mem)
        BY <1>1, <2>1, <3>2 DEF HelperInv
      <3>4. mem.revision \in Nat
        BY <3>3, StateFields DEF Abortable, RecordInv, Selectable
      <3> QED BY <2>2, <3>1, <3>3, <3>4 DEF Abortable
    <2>4. HelperInv'
      BY <1>1, <2>1, <2>2, <2>3 DEF HelperInv, Holding, Abortable
    <2>5. cache' \in [Slots -> Frames]
      BY <2>2 DEF SlotInv
    <2> QED BY <1>1, <1>3, <2>1, <2>2, <2>4, <2>5
            DEF Inv, TypeOK, WriteSlot, diskVars, envVars, HelperPcs
  <1>4. CASE FlushSlot
    <2>1. /\ pc = "flush" /\ cache' = cache
          /\ w \in Writes /\ Selects(cache, w.slot) /\ cache[w.slot] = w.state
          /\ RecordInv(w.state) /\ w.ok \in Holding \cup {"admitted", "off"}
          /\ Holds(w.ok, w.state)
      BY <1>1, <1>4 DEF FlushSlot, HelperInv
    <2>2. /\ pc' = w.ok /\ w' = None
          /\ mem' = IF w.ok = "off" THEN None ELSE w.state
      BY <1>4, <2>1 DEF FlushSlot
    <2>3. Current(cache) = w.state /\ w.slot \in Slots /\ w.state \in States
      BY <1>1, <2>1, OneActiveSlot DEF SlotInv, Writes
    <2>4. HelperInv'
      BY <2>1, <2>2, <2>3 DEF HelperInv, Holding
    <2>5. ControlType'
      BY <2>1, <2>2, <2>3 DEF ControlType, Holding, HelperPcs, RecoveryPcs, Optional
    <2>6. w.state.failed \in Optional(Releases) /\ cache[w.slot] \in Frames
      BY <1>1, <2>3, StateFields DEF TypeOK
    <2> QED BY <1>1, <1>4, <2>1, <2>4, <2>5, <2>6
            DEF Inv, TypeOK, ControlType, FlushSlot, diskVars, envVars, Optional
  <1>5. CASE WriteFault
    <2>1. /\ pc \in {"write", "flush"} /\ Goto(w.fail)
          /\ pc = "write" => WriteChecked(cache, w.state)
      BY <1>5 DEF WriteFault
    <2>2. PICK f \in {cache[w.slot], w.state, Torn} :
            /\ f = Torn => pc = "write"
            /\ cache' = [cache EXCEPT ![w.slot] = f]
      BY <1>5 DEF WriteFault
    <2>3. w.slot \in Slots /\ w \in Writes
      BY <1>1, <2>1 DEF Writes
    <2>4. /\ SlotInv(cache')
          /\ w.fail = "abort" =>
               /\ RecordInv(mem) /\ mem.phase = "PREPARING"
               /\ \/ mem = Current(cache')
                  \/ mem.revision < Current(cache').revision
      <3>1. CASE pc = "flush"
        <4>1. cache' = cache
          BY <1>1, <2>2, <2>3, <3>1 DEF HelperInv, SlotInv
        <4> QED BY <1>1, <3>1, <4>1 DEF HelperInv, Abortable
      <3>2. CASE pc = "write" /\ f = cache[w.slot]
        <4>1. cache' = cache
          BY <1>1, <2>2, <2>3, <3>2 DEF SlotInv
        <4> QED BY <1>1, <3>2, <4>1 DEF HelperInv, Abortable
      <3>3. CASE pc = "write" /\ f = Torn
        <4>1. SlotInv(cache') /\ Current(cache') = Current(cache)
          BY <1>1, <2>2, <3>3, SpoiltIgnored DEF HelperInv
        <4> QED BY <1>1, <3>3, <4>1 DEF HelperInv, Abortable
      <3>4. CASE pc = "write" /\ f = w.state
        <4>1. RecordStep(Current(cache), w.state) /\ w.slot = InactiveSlot(cache)
          BY <1>1, <2>1, <3>4, AcceptedWrite DEF HelperInv
        <4>2. /\ SlotInv(cache') /\ Current(cache') = w.state
              /\ w.state.revision = Current(cache).revision + 1
          BY <1>1, <2>2, <3>4, <4>1, SuccessorSelected
        <4>3. Current(cache).revision \in Nat
          BY <1>1, SlotInvFacts, StateFields
        <4>4. w.fail = "abort" => Abortable(mem)
          BY <1>1, <3>4 DEF HelperInv
        <4>5. Abortable(mem) => mem.revision \in Nat
          BY StateFields DEF Abortable, RecordInv, Selectable
        <4> QED BY <4>2, <4>3, <4>4, <4>5 DEF Abortable
      <3> QED BY <2>1, <2>2, <3>1, <3>2, <3>3, <3>4
    <2>5. w.fail \in {"off", "abort"} /\ w.fail \in HelperPcs \cup {"off", "recover"}
      BY <1>1, <2>1 DEF HelperPcs
    <2>6. HelperInv' /\ ControlType'
      BY <2>1, <2>4, <2>5, GotoKeeps DEF Holding
    <2>7. cache' \in [Slots -> Frames]
      BY <2>4 DEF SlotInv
    <2>8. unsafe' \in BOOLEAN /\ faults' \in Nat
      BY <1>1, <1>5 DEF WriteFault, TypeOK, Dirty
    <2> QED BY <1>1, <1>5, <2>4, <2>6, <2>7, <2>8
            DEF Inv, TypeOK, ControlType, WriteFault, diskVars
  <1> QED BY <1>2, <1>3, <1>4, <1>5 DEF WriteStep

(***************************************************************************)
(* The session.                                                            *)
(***************************************************************************)
\* Steps that move on without a write.
Moves == \/ StartSession \/ SessionEnds \/ Build \/ BuildFails \/ Publish
         \/ Retire \/ Replace \/ Release
         \/ \E r \in Releases : AdmitUnchanged(r)

\* Those steps keep the invariant: the slots are left alone.
LEMMA MovesKeep ==
  ASSUME Inv, Moves
  PROVE  Inv'
  <1>1. SlotInv(cache) /\ HelperInv /\ TypeOK
    BY DEF Inv
  <1>2. PICK p \in {"initial", "admitted", "publish", "check", "replace",
                    "selftest", "abort", "off"} : Goto(p)
    BY DEF Moves, StartSession, SessionEnds, Build, BuildFails, Publish, Retire,
           Replace, Release, AdmitUnchanged
  <1>3. cache' = cache /\ slotVars' = slotVars
    BY DEF Moves, StartSession, SessionEnds, Build, BuildFails, Publish, Retire,
           Replace, Release, AdmitUnchanged, slotVars
  <1>4. /\ p \in {"publish", "check", "replace", "abort"} =>
             pc \in {"build", "publish", "replace", "check"}
        /\ p = "selftest" => pc = "verified"
    BY <1>2 DEF Moves, StartSession, SessionEnds, Build, BuildFails, Publish,
                Retire, Replace, Release, AdmitUnchanged, Goto
  <1>5. p \in Holding => mem = Current(cache) /\ Holds(p, mem)
    BY <1>1, <1>4 DEF HelperInv, Holding, Holds
  <1>6. p = "abort" => /\ mem = Current(cache) /\ RecordInv(mem)
                       /\ mem.phase = "PREPARING"
    BY <1>1, <1>4, SlotInvFacts DEF HelperInv, Holding, Holds
  <1>7. p \in HelperPcs \cup {"off", "recover"} /\ p \notin {"write", "flush"}
    BY DEF HelperPcs
  <1>8. HelperInv' /\ ControlType'
    BY <1>1, <1>2, <1>3, <1>5, <1>6, <1>7, GotoKeeps
  <1>9. /\ published' \subseteq Releases /\ lost' = lost
        /\ retired' \subseteq Releases /\ scratch' = scratch
        /\ used' = used /\ faults' = faults /\ outages' = outages
        /\ result' \in {"none", "converged", "repair"}
    <2>1. mem.tx.candidate \in Releases \/ ~(Publish \/ Retire \/ Replace)
      <3> SUFFICES ASSUME Publish \/ Retire \/ Replace
                   PROVE  mem.tx.candidate \in Releases
        OBVIOUS
      <3>1. pc \in {"publish", "replace"}
        BY DEF Publish, Retire, Replace
      <3>2. mem = Current(cache) /\ mem.phase = "PREPARING"
        BY <1>1, <3>1 DEF HelperInv, Holding, Holds
      <3>3. mem \in States /\ mem.tx # None
        BY <1>1, <3>2, SlotInvFacts DEF RecordInv, Ancillary, Trying
      <3> QED BY <3>3, StateFields DEF Transactions, Optional
    <2> QED BY <1>1, <2>1
            DEF TypeOK, Moves, StartSession, SessionEnds, Build, BuildFails,
                Publish, Retire, Replace, Release, AdmitUnchanged,
                diskVars, envVars
  <1> QED BY <1>1, <1>3, <1>8, <1>9
          DEF Inv, TypeOK, ControlType, slotVars

\* Steps of the helper that formulate the next record.
LEMMA RequestsKeep ==
  ASSUME Inv,
         \/ \E r \in Releases : Admit(r)
         \/ \E r \in Releases, id \in Ids : BeginUpdate(r, id) \/ BeginRepair(r, id)
  PROVE  Inv'
  <1>1. /\ SlotInv(cache) /\ HelperInv /\ TypeOK /\ RecordInv(Current(cache))
    BY SlotInvFacts DEF Inv
  <1>2. ASSUME NEW r \in Releases, Admit(r)
        PROVE  Inv'
    <2> DEFINE s == Admitted(Current(cache), r)
    <2>1. AdmissionChanges(Current(cache), r)
      BY <1>2 DEF Admit
    <2>2. RecordStep(Current(cache), s)
      BY <2>1 DEF RecordStep, AdmitStep
    <2>3. s \in States
      BY <1>1, <2>2, StepsLegal DEF RecordInv, Selectable
    <2>4. Persist("write", s, "admitted", "off") /\ cache' = cache
      BY <1>2 DEF Admit, HelperWrite, slotVars
    <2>5. Holds("admitted", s)
      BY DEF Holds
    <2> HIDE DEF s
    <2>6. SlotInv(cache)' /\ HelperInv' /\ ControlType'
      BY <2>2, <2>3, <2>4, <2>5, PersistKeeps
    <2> QED BY <1>1, <1>2, <2>6
            DEF Inv, TypeOK, ControlType, Admit, slotVars, diskVars, envVars
  <1>3. ASSUME NEW r \in Releases, NEW id \in Ids, NEW repair \in BOOLEAN,
               BeginWith(r, repair, id)
        PROVE  Inv'
    <2> DEFINE s == Begun(Current(cache), r, id, repair)
    <2>1. BeginChecked(Current(cache), r, repair) /\ cache' = cache
      BY <1>3 DEF BeginWith, slotVars
    <2>2. SlotInv(cache)' /\ HelperInv' /\ ControlType'
      <3>1. CASE ValidTransition(Current(cache), s)
        <4>1. RecordStep(Current(cache), s)
          BY <2>1, <3>1 DEF RecordStep, BeginStep
        <4>2. s \in States
          BY <1>1, <4>1, StepsLegal DEF RecordInv, Selectable
        <4>3. Persist("write", s, "ready", "off")
          BY <1>3, <3>1 DEF BeginWith, HelperWrite
        <4>4. s.phase = "PREPARING"
          <5>1. Current(cache) \in States
            BY <1>1, SlotInvFacts
          <5> QED BY <5>1 DEF Begun, Prune, States
        <4>5. Holds("ready", s)
          BY <4>4 DEF Holds
        <4>6. "ready" \in Holding
          BY DEF Holding
        <4> HIDE DEF s
        <4> QED BY <2>1, <4>1, <4>2, <4>3, <4>5, <4>6, PersistKeeps
      <3>2. CASE ~ValidTransition(Current(cache), s)
        <4>1. Goto("off") /\ "off" \notin Holding
          BY <1>3, <3>2 DEF BeginWith, Holding
        <4> QED BY <1>1, <2>1, <4>1, GotoKeeps
      <3> QED BY <3>1, <3>2
    <2>3. scratch' \subseteq Directories /\ used' \subseteq Ids
      BY <1>1, <1>3 DEF BeginWith, TypeOK, Directories
    <2> QED BY <1>1, <1>3, <2>2, <2>3
            DEF Inv, TypeOK, ControlType, BeginWith, slotVars, envVars
  <1> QED BY <1>2, <1>3 DEF BeginUpdate, BeginRepair

\* A write of the successor of the record in hand.
HelperWrites == \/ ApplyRejected \/ Apply \/ Check \/ SelfTestFails
                \/ Quiesce \/ StartProbation \/ Commit \/ Abort

\* Formulating any of those writes keeps the invariant: the record in hand is
\* current, or an abort's stale one, which write_state refuses.
LEMMA HelperWritesKeep ==
  ASSUME Inv, HelperWrites
  PROVE  Inv'
  <1>1. /\ SlotInv(cache) /\ HelperInv /\ TypeOK
        /\ RecordInv(Current(cache)) /\ Current(cache) \in States
    BY SlotInvFacts DEF Inv
  <1>2. cache' = cache /\ slotVars' = slotVars /\ envVars' = envVars
    BY DEF HelperWrites, ApplyRejected, Apply, Check, SelfTestFails, Quiesce,
           StartProbation, Commit, Abort, slotVars, envVars
  <1>3. CASE ApplyRejected \/ SelfTestFails
    <2>1. /\ mem = Current(cache) /\ mem.phase = "PREPARING"
          /\ Persist("write", Aborted(mem), "off", "off")
      BY <1>1, <1>3 DEF ApplyRejected, SelfTestFails, HelperWrite, HelperInv,
                        Holding, Holds
    <2>2. RecordStep(Current(cache), Aborted(mem))
      BY <2>1 DEF RecordStep, AbortStep
    <2>3. Aborted(mem) \in States
      BY <1>1, <2>2, StepsLegal DEF RecordInv, Selectable
    <2>4. Holds("off", Aborted(mem))
      BY DEF Holds
    <2>5. SlotInv(cache)' /\ HelperInv' /\ ControlType'
      BY <1>2, <2>1, <2>2, <2>3, <2>4, PersistKeeps
    <2>6. diskVars' = diskVars
      BY <1>3 DEF ApplyRejected, SelfTestFails, diskVars
    <2> QED BY <1>1, <1>2, <2>5, <2>6
            DEF Inv, TypeOK, ControlType, slotVars, diskVars, envVars
  <1>4. CASE Abort
    <2>1. /\ RecordInv(mem) /\ mem.phase = "PREPARING"
          /\ Persist("write", Aborted(mem), "off", "off")
          /\ mem = Current(cache) \/ mem.revision < Current(cache).revision
      BY <1>1, <1>4 DEF Abort, HelperWrite, HelperInv, Abortable
    <2>2. RecordStep(mem, Aborted(mem))
      BY <2>1 DEF RecordStep, AbortStep
    <2>3. Aborted(mem) \in States /\ Aborted(mem).revision = mem.revision + 1
      BY <2>1, <2>2, StepsLegal DEF RecordInv, Selectable
    <2>4. \/ RecordStep(Current(cache), Aborted(mem))
          \/ Aborted(mem).revision # Current(cache).revision + 1
      <3>1. mem.revision \in Nat /\ Current(cache).revision \in Nat
        BY <1>1, <2>1, StateFields DEF RecordInv, Selectable
      <3> QED BY <2>1, <2>2, <2>3, <3>1
    <2>5. Holds("off", Aborted(mem))
      BY DEF Holds
    <2>6. SlotInv(cache)' /\ HelperInv' /\ ControlType'
      BY <1>2, <2>1, <2>3, <2>4, <2>5, PersistKeeps
    <2>7. diskVars' = diskVars
      BY <1>4 DEF Abort, diskVars
    <2> QED BY <1>1, <1>2, <2>6, <2>7
            DEF Inv, TypeOK, ControlType, slotVars, diskVars, envVars
  <1>5. CASE Apply \/ Check
    <2>1. /\ mem = Current(cache) /\ mem.phase = "PREPARING" /\ mem \in States
          /\ RecordInv(mem)
      BY <1>1, <1>5 DEF Apply, Check, HelperInv, Holding, Holds
    <2>2. mem.tx \in Transactions /\ mem.tx # None /\ mem.tx.id \in Ids
      BY <2>1, StateFields
      DEF RecordInv, Ancillary, Trying, Optional, Transactions
    <2>3. PICK s \in {Building(mem), Verified(mem)},
               ok \in {"build", "verified"} :
            /\ Persist("write", s, ok, "abort")
            /\ ok = "verified" => s = Verified(mem)
      BY <1>5 DEF Apply, Check, HelperWrite
    <2>4. RecordStep(Current(cache), s)
      BY <2>1, <2>3 DEF RecordStep, StageStep
    <2>5. s \in States
      BY <1>1, <2>4, StepsLegal DEF RecordInv, Selectable
    <2>6. s.phase = "PREPARING" /\ (s = Verified(mem) => s.tx.stage = "VERIFIED")
      <3>1. Building(mem).phase = "PREPARING" /\ Verified(mem).phase = "PREPARING"
        BY <2>1 DEF Building, Verified, States
      <3>2. Verified(mem).tx.stage = "VERIFIED"
        BY <2>1, <2>2 DEF Verified, States, Transactions
      <3> QED BY <2>3, <3>1, <3>2
    <2>7. Holds(ok, s) /\ ok \in Holding
      BY <2>3, <2>6 DEF Holds, Holding
    <2>8. Abortable(mem)
      BY <2>1 DEF Abortable
    <2>9. SlotInv(cache)' /\ HelperInv' /\ ControlType'
      BY <1>2, <2>3, <2>4, <2>5, <2>7, <2>8, PersistKeeps
    <2>10. /\ scratch' \subseteq Directories
           /\ published' = published /\ used' = used /\ retired' = retired
      BY <1>1, <1>5, <2>2 DEF Apply, Check, TypeOK, Directories, diskVars
    <2> QED BY <1>1, <1>2, <2>9, <2>10
            DEF Inv, TypeOK, ControlType, slotVars, envVars
  <1>6. CASE Quiesce \/ StartProbation \/ Commit
    <2>1. PICK s \in {Quiescing(mem), Probation(mem), Committed(mem)},
               ok \in {"quiescing", "probation", "off"} :
            /\ Persist("write", s, ok, "off")
            /\ s = Quiescing(mem) /\ ok = "quiescing"
                 => mem.phase = "PREPARING" /\ mem.tx.stage = "VERIFIED"
            /\ \/ Quiesce /\ s = Quiescing(mem) /\ ok = "quiescing"
               \/ StartProbation /\ s = Probation(mem) /\ ok = "probation"
               \/ Commit /\ s = Committed(mem) /\ ok = "off"
      BY <1>1, <1>6 DEF Quiesce, StartProbation, Commit, HelperWrite,
                        HelperInv, Holding, Holds
    <2>2. /\ mem = Current(cache) /\ RecordInv(mem) /\ mem \in States
          /\ Quiesce => mem.phase = "PREPARING" /\ mem.tx.stage = "VERIFIED"
          /\ StartProbation => mem.phase = "QUIESCING"
          /\ Commit => mem.phase = "PROBATION"
      BY <1>1, <1>6 DEF Quiesce, StartProbation, Commit, HelperInv, Holding, Holds
    <2>3. RecordStep(Current(cache), s)
      BY <2>1, <2>2 DEF RecordStep, StageStep, CommitStep
    <2>4. s \in States
      BY <1>1, <2>3, StepsLegal DEF RecordInv, Selectable
    <2>5. /\ s = Quiescing(mem) => s.phase = "QUIESCING"
          /\ s = Probation(mem) => s.phase = "PROBATION"
      BY <2>2 DEF Quiescing, Probation, States
    <2>6. Holds(ok, s) /\ ok \in Holding \cup {"admitted", "off", "recover"}
      BY <2>1, <2>5 DEF Holds, Holding
    <2>7. SlotInv(cache)' /\ HelperInv' /\ ControlType'
      BY <1>2, <2>1, <2>3, <2>4, <2>6, PersistKeeps
    <2>8. diskVars' = diskVars
      BY <1>6 DEF Quiesce, StartProbation, Commit, diskVars
    <2> QED BY <1>1, <1>2, <2>7, <2>8
            DEF Inv, TypeOK, ControlType, slotVars, diskVars, envVars
  <1> QED BY <1>3, <1>4, <1>5, <1>6 DEF HelperWrites

(***************************************************************************)
(* Recovery.                                                               *)
(***************************************************************************)
\* The steps of recovery that write a slot.
RecoveryWrites == \/ RecoverMissing \/ RecoverPreparing \/ RecoverCleaning
                  \/ RecoverInterrupted \/ RecoverRollingBack

\* Recovery keeps the invariant: refreshing a slot, completing a rollback and
\* cleaning each write a successor over the slot that is not selected.
LEMMA RecoveryKeeps ==
  ASSUME Inv, RecoveryStep \/ StartRecovery
  PROVE  Inv'
  <1>1. /\ SlotInv(cache) /\ HelperInv /\ TypeOK
        /\ RecordInv(Current(cache)) /\ Current(cache) \in States
    BY SlotInvFacts DEF Inv
  <1>2. CASE StartRecovery \/ RecoverHealthy \/ RecoverNoBackup
    <2>1. PICK p \in {"recover", "off"} : Goto(p)
      BY <1>2 DEF StartRecovery, RecoverHealthy,
                  RecoverNoBackup, RecoveryEnds
    <2>2. /\ slotVars' = slotVars /\ diskVars' = diskVars /\ cache' = cache
          /\ faults' = faults /\ outages' = outages /\ lost' = lost
          /\ result' \in {"none", "converged", "repair"}
      BY <1>2 DEF StartRecovery, RecoverHealthy,
                  RecoverNoBackup, RecoveryEnds, slotVars
    <2>3. p \notin Holding /\ p \in HelperPcs \cup {"off", "recover"}
      BY DEF Holding
    <2>4. HelperInv' /\ ControlType'
      BY <1>1, <2>1, <2>2, <2>3, GotoKeeps
    <2> QED BY <1>1, <2>2, <2>4 DEF Inv, TypeOK, ControlType, slotVars, diskVars
  <1>3. CASE RecoveryWrites
    <2>1. /\ cache' = cache /\ slotVars' = slotVars
          /\ published' = published /\ scratch' \subseteq Directories
          /\ used' = used /\ retired' = retired /\ faults' \in Nat
          /\ outages' = outages /\ lost' = lost /\ result' = result
      BY <1>1, <1>3
      DEF RecoveryWrites, RecoverMissing, RecoverPreparing, RecoverCleaning,
          RecoverInterrupted, RecoverRollingBack, slotVars, diskVars, envVars,
          TypeOK
    <2>2. \E s : /\ RecordStep(Current(cache), s)
                 /\ Persist("truncate", s, "recover", "off")
      BY <1>3
      DEF RecoveryWrites, RecoverMissing, RecoverPreparing, RecoverCleaning,
          RecoverInterrupted, RecoverRollingBack, RecoveryWrite, Recovering,
          RecordStep, RollbackStep, AbortStep, FinishStep
    <2>3. PICK s : /\ RecordStep(Current(cache), s)
                   /\ Persist("truncate", s, "recover", "off")
      BY <2>2
    <2>4. s \in States
      BY <1>1, <2>3, StepsLegal DEF RecordInv, Selectable
    <2>5. SlotInv(cache)' /\ HelperInv' /\ ControlType'
      BY <2>1, <2>3, <2>4, PersistKeeps
    <2> QED BY <1>1, <2>1, <2>5 DEF Inv, TypeOK, ControlType, slotVars
  <1>4. CASE Truncate
    <2>1. /\ pc = "truncate" /\ pc' = "rewrite" /\ w' = w /\ mem' = mem
          /\ cache' = [cache EXCEPT ![w.slot] = Short]
          /\ w \in Writes /\ w.slot = InactiveSlot(cache)
          /\ RecordStep(Current(cache), w.state)
      BY <1>1, <1>4 DEF Truncate, HelperInv
    <2>2. /\ SlotInv(cache') /\ Current(cache') = Current(cache)
          /\ ActiveSlot(cache') = ActiveSlot(cache)
      <3>1. SlotInv(cache) /\ w.slot = InactiveSlot(cache)
        BY <1>1, <2>1
      <3>2. cache' = [cache EXCEPT ![w.slot] = Short] /\ Short \in {Torn, Short}
        BY <2>1
      <3> QED BY <3>1, <3>2, SpoiltIgnored
    <2>3. InactiveSlot(cache') = InactiveSlot(cache)
      BY <2>2 DEF InactiveSlot
    <2>4. HelperInv'
      BY <2>1, <2>2, <2>3 DEF HelperInv, Holding
    <2>5. cache' \in [Slots -> Frames]
      BY <2>2 DEF SlotInv
    <2> QED BY <1>1, <1>4, <2>1, <2>2, <2>4, <2>5
            DEF Inv, TypeOK, Truncate, RecoveryPcs, Dirty, diskVars, envVars
  <1>5. CASE Rewrite
    <2>1. /\ pc = "rewrite" /\ pc' = "sync" /\ w' = w /\ mem' = mem
          /\ cache' = [cache EXCEPT ![w.slot] = w.state]
          /\ w \in Writes /\ w.slot = InactiveSlot(cache)
          /\ RecordStep(Current(cache), w.state)
      BY <1>1, <1>5 DEF Rewrite, HelperInv
    <2>2. /\ SlotInv(cache') /\ Selects(cache', w.slot)
          /\ cache'[w.slot] = w.state /\ RecordInv(w.state)
      BY <1>1, <2>1, SuccessorSelected
    <2>3. HelperInv'
      BY <2>1, <2>2 DEF HelperInv, Holding
    <2>4. cache' \in [Slots -> Frames]
      BY <2>2 DEF SlotInv
    <2> QED BY <1>1, <1>5, <2>1, <2>2, <2>3, <2>4
            DEF Inv, TypeOK, Rewrite, RecoveryPcs, diskVars, envVars
  <1>6. CASE Sync
    <2>1. /\ Goto("recover") /\ cache' = cache /\ w \in Writes
          /\ RecordInv(w.state)
      BY <1>1, <1>6 DEF Sync, HelperInv
    <2>2. HelperInv' /\ ControlType'
      BY <1>1, <2>1, GotoKeeps DEF Holding
    <2>3. w.slot \in Slots /\ w.state \in States
      BY <2>1 DEF Writes
    <2>4. cache[w.slot] \in Frames /\ w.state.failed \in Optional(Releases)
      BY <1>1, <2>3, StateFields DEF TypeOK
    <2> QED BY <1>1, <1>6, <2>1, <2>2, <2>4
            DEF Inv, TypeOK, ControlType, Sync, Optional, diskVars, envVars
  <1> QED BY <1>2, <1>3, <1>4, <1>5, <1>6 DEF RecoveryStep, RecoveryWrites

(***************************************************************************)
(* The environment.                                                        *)
(***************************************************************************)
\* A process that dies may tear the slot it was writing, never the other one;
\* a generation that is destroyed leaves the slots alone.
LEMMA FaultsKeep ==
  ASSUME Inv, Kill \/ \E r \in Releases : LoseGeneration(r)
  PROVE  Inv'
  <1>1. SlotInv(cache) /\ HelperInv /\ TypeOK
    BY DEF Inv
  <1>2. CASE Kill
    <2>1. Goto("off")
      BY <1>2 DEF Kill
    <2>2. SlotInv(cache')
      <3>1. CASE cache' = cache
        BY <1>1, <3>1
      <3>2. CASE /\ pc = "write"
                 /\ \E f \in {cache[w.slot], Torn} :
                      cache' = [cache EXCEPT ![w.slot] = f]
        <4>1. w.slot = InactiveSlot(cache)
          BY <1>1, <3>2 DEF HelperInv
        <4>2. CASE cache' = [cache EXCEPT ![w.slot] = Torn]
          BY <1>1, <4>1, <4>2, SpoiltIgnored
        <4>3. CASE cache' = [cache EXCEPT ![w.slot] = cache[w.slot]]
          <5>1. cache' = cache
            BY <1>1, <4>3 DEF SlotInv
          <5> QED BY <1>1, <5>1
        <4> QED BY <3>2, <4>2, <4>3
      <3> QED BY <1>2, <3>1, <3>2 DEF Kill
    <2>3. HelperInv' /\ ControlType'
      BY <2>1, <2>2, GotoKeeps DEF Holding
    <2>4. cache' \in [Slots -> Frames]
      BY <2>2 DEF SlotInv
    <2>5. unsafe' \in BOOLEAN /\ faults' \in Nat
      BY <1>1, <1>2 DEF Kill, TypeOK, Overtaking, Dirty
    <2> QED BY <1>1, <1>2, <2>2, <2>3, <2>4, <2>5
            DEF Inv, TypeOK, ControlType, Kill, diskVars
  <1>3. CASE \E r \in Releases : LoseGeneration(r)
    <2>1. /\ procVars' = procVars /\ slotVars' = slotVars
          /\ published' \subseteq Releases /\ lost' \subseteq Releases
          /\ scratch' = scratch /\ used' = used /\ retired' = retired
          /\ faults' = faults /\ outages' = outages /\ result' = result
      BY <1>1, <1>3 DEF LoseGeneration, TypeOK, procVars, slotVars
    <2>2. HelperInv'
      BY <1>1, <2>1 DEF procVars, slotVars, HelperInv, Abortable, Holds
    <2> QED BY <1>1, <2>1, <2>2 DEF Inv, TypeOK, procVars, slotVars
  <1> QED BY <1>2, <1>3

(***************************************************************************)
(* Enrollment and the theorems.                                            *)
(***************************************************************************)
\* The records enrollment commits are legal.
LEMMA EnrolledLegal ==
  ASSUME NEW n \in Nat, NEW c \in BOOLEAN
  PROVE  Enrolled(n, c) \in States /\ RecordInv(Enrolled(n, c))
  <1> DEFINE e == Enrolled(n, c)
  <1>1. /\ Baseline \in Releases /\ Baseline # None
        /\ Baseline \in Optional(Releases) /\ None \in Optional(Releases)
        /\ None \in Optional(Transactions) /\ None \in Optional(Rollbacks)
        /\ SeqNo[Baseline] \in Nat
    BY UpdaterAssumption, ReleaseAssumption DEF Optional
  <1>2. "IDLE" \in Phases /\ {} \in SUBSET Directories
        /\ {Baseline} \in SUBSET Releases
    BY <1>1 DEF Phases
  <1>3. e \in States
    BY <1>1, <1>2 DEF Enrolled, States
  <1>4. Authenticated(e)
    BY DEF Enrolled, Authenticated, Referenced
  <1>5. Floors(e)
    <2>1. SeqOf(None) = 0 /\ SeqOf(Baseline) = SeqNo[Baseline]
      BY <1>1 DEF SeqOf
    <2>2. /\ e.committed = Baseline /\ e.previous = None
          /\ e.highwater = Baseline /\ e.observed = Baseline
      BY DEF Enrolled
    <2> HIDE DEF e
    <2> QED BY <1>1, <2>1, <2>2 DEF Floors
  <1>6. Ancillary(e)
    BY DEF Enrolled, Ancillary, Trying
  <1>7. Selectable(e)
    BY <1>1, <1>3 DEF Enrolled, Selectable
  <1> QED BY <1>3, <1>4, <1>5, <1>6, <1>7 DEF RecordInv

\* The mirror succeeds the first committed record.
LEMMA MirrorLegal ==
  ValidTransition(Enrolled(2, FALSE), Enrolled(3, TRUE))
  <1> DEFINE d == Enrolled(2, FALSE)
             e == Enrolled(3, TRUE)
  <1>1. /\ d.highwater = Baseline /\ d.observed = Baseline
        /\ e.highwater = Baseline /\ e.observed = Baseline
        /\ d.phase = "IDLE" /\ e.phase = "IDLE"
        /\ d.complete = FALSE /\ e.complete = TRUE
        /\ d.revision = 2 /\ e.revision = 3
    BY DEF Enrolled
  <1>2. SeqOf(Baseline) \in Nat /\ Baseline # None
    BY UpdaterAssumption, ReleaseAssumption DEF SeqOf
  <1> HIDE DEF d, e
  <1>3. FloorsKept(d, e)
    BY <1>1, <1>2 DEF FloorsKept
  <1>4. Edge(d, e)
    BY <1>1 DEF Edge
  <1>5. ValidTransition(d, e)
    BY <1>1, <1>3, <1>4 DEF ValidTransition
  <1> QED BY <1>5 DEF d, e

\* What enrollment leaves: slot a holds revision 3 and is selected.
LEMMA InitKeeps ==
  ASSUME Init
  PROVE  Inv /\ Selects(cache, "a")
  <1>1. /\ Enrolled(2, FALSE) \in States /\ Enrolled(3, TRUE) \in States
        /\ RecordInv(Enrolled(2, FALSE)) /\ RecordInv(Enrolled(3, TRUE))
    BY EnrolledLegal
  <1>2. Enrolled(3, TRUE).revision = Enrolled(2, FALSE).revision + 1
    BY DEF Enrolled
  <1>3. /\ "a" \in Slots /\ cache \in [Slots -> Frames]
        /\ cache["a"] = Enrolled(3, TRUE)
        /\ cache[Other("a")] = Enrolled(2, FALSE)
    BY <1>1, SlotFacts DEF Init, Slots, Other
  <1>4. Selects(cache, "a")
    BY <1>1, <1>2, <1>3, MirrorLegal, SlotFacts DEF Selects, RecordInv
  <1>5. SlotInv(cache)
    BY <1>1, <1>3, <1>4 DEF SlotInv
  <1>6. HelperInv
    BY DEF Init, HelperInv, Holding
  <1>7. TypeOK
    BY <1>3, UpdaterAssumption DEF Init, TypeOK, Optional
  <1> QED BY <1>4, <1>5, <1>6, <1>7 DEF Inv

\* Every step of the session, the recovery engine and the process faults
\* keeps the invariant.
LEMMA StepKeeps ==
  ASSUME Inv, [ProcessNext]_vars
  PROVE  Inv'
  <1>1. CASE UNCHANGED vars
    BY <1>1 DEF vars, procVars, slotVars, diskVars, envVars, Inv, TypeOK,
                HelperInv, Abortable, Holds
  <1>2. CASE ProcessNext
    <2>1. \/ Moves \/ WriteStep \/ WriteFault \/ HelperWrites
          \/ RecoveryStep \/ StartRecovery
          \/ Kill \/ (\E r \in Releases : LoseGeneration(r))
          \/ (\E r \in Releases : Admit(r))
          \/ (\E r \in Releases, id \in Ids :
                BeginUpdate(r, id) \/ BeginRepair(r, id))
      BY <1>2 DEF ProcessNext, SessionNext, Request, HelperStep, Fault, Moves,
                  HelperWrites
    <2> QED BY <2>1, MovesKeep, WriteKeeps, HelperWritesKeep, RecoveryKeeps,
               FaultsKeep, RequestsKeep
  <1> QED BY <1>1, <1>2

\* The inductive invariant holds throughout every run without power loss.
THEOREM InvHolds == ProcessSpec => []Inv
  <1>1. Init => Inv
    BY InitKeeps
  <1>2. Inv /\ [ProcessNext]_vars => Inv'
    BY StepKeeps
  <1> QED BY <1>1, <1>2, PTL DEF ProcessSpec

\* Every variable keeps its type: no handler formulates a record that the
\* envelope of the slots could not carry.
THEOREM TypesHold == ProcessSpec => []TypeOK
  <1>1. Inv => TypeOK
    BY DEF Inv
  <1> QED BY <1>1, InvHolds, PTL

\* However the helper, the recovery engine, kills and failed slot writes
\* interleave, the slots select exactly one record, authenticated and legal.
THEOREM AlwaysRecoverable == ProcessSpec => []Recoverable
  <1>1. Inv => Recoverable
    BY SlotInvFacts DEF Inv, Recoverable
  <1> QED BY <1>1, InvHolds, PTL

\* The current record never trusts a release above a floor it is bound by.
THEOREM FloorsOrdered == ProcessSpec => []FloorOrder
  <1>1. Inv => FloorOrder
    BY SlotInvFacts DEF Inv, FloorOrder, RecordInv, Floors
  <1> QED BY <1>1, InvHolds, PTL

(***************************************************************************)
(* Updater implements UpdateAuthority: the current record changes only by  *)
(* a step of RecordStep, and each of those is a step of the authority or a *)
(* stutter.                                                                *)
(***************************************************************************)
\* Outside a transaction the newest release is admitted or has failed, so
\* that what an admission raises the floors to is new to both.
Noted(s) == s.tx = None => s.failed = s.observed \/ s.highwater = s.observed

\* What of a record the authority sees.
Trial(s) == IF s.tx = None THEN None ELSE s.tx.candidate
Rolling(s) == s.rollback # None /\ s.rollback.mode = "postcommit"

SameAuthority(s, t) ==
  /\ t.committed = s.committed /\ t.previous = s.previous
  /\ t.highwater = s.highwater /\ t.observed = s.observed
  /\ t.failed = s.failed /\ Trial(t) = Trial(s) /\ Rolling(t) = Rolling(s)

(***************************************************************************)
(* Each record step, as the authority sees it.                             *)
(***************************************************************************)
\* An admission raises both floors above the newest release seen.
LEMMA AdmitSeen ==
  ASSUME NEW s, NEW t, RecordInv(s), Noted(s), AdmitStep(s, t)
  PROVE  /\ Trial(s) = None /\ ~Rolling(s) /\ Trial(t) = None /\ ~Rolling(t)
         /\ \E r \in Releases : /\ SeqNo[r] > SeqNo[s.observed]
                                /\ t.highwater = r /\ t.observed = r
         /\ t.committed = s.committed /\ t.previous = s.previous
         /\ t.failed = s.failed
  <1>1. PICK r \in Releases : AdmissionChanges(s, r) /\ t = Admitted(s, r)
    BY DEF AdmitStep
  <1>2. /\ s \in States /\ s.phase = "IDLE" /\ s.tx = None /\ s.rollback = None
        /\ s.highwater # None /\ s.observed # None /\ s.complete
    BY <1>1 DEF RecordInv, Selectable, AdmissionChanges, Ancillary, Trying
  <1>3. /\ t.highwater = r /\ t.observed = r /\ t.committed = s.committed
        /\ t.previous = s.previous /\ t.failed = s.failed /\ t.tx = None
        /\ t.rollback = None
    BY <1>1, <1>2 DEF Admitted, States
  <1>4. SeqNo[r] > SeqNo[s.observed]
    <2>1. \/ \A q \in {s.highwater, s.observed, s.committed} : SeqNo[r] > SeqOf(q)
          \/ s.observed = r /\ s.failed # r
      BY <1>1, <1>2 DEF AdmissionChanges, AntiDowngrade, AboveFloor
    <2>2. ASSUME s.observed = r, s.failed # r PROVE FALSE
      <3>1. s.highwater = r
        BY <1>2, <2>2 DEF Noted
      <3> QED BY <1>1, <1>2, <2>2, <3>1 DEF AdmissionChanges, AdmissionUnchanged
    <2> QED BY <1>2, <2>1, <2>2 DEF SeqOf
  <1> QED BY <1>2, <1>3, <1>4 DEF Trial, Rolling

\* A transaction tries a newer release, the observed one unless it failed,
\* or the committed one.
LEMMA BeginSeen ==
  ASSUME NEW s, NEW t, RecordInv(s), BeginStep(s, t)
  PROVE  /\ Trial(s) = None /\ ~Rolling(s) /\ ~Rolling(t)
         /\ \E r \in Releases :
              /\ \/ SeqNo[r] > SeqNo[s.observed]
                 \/ r = s.observed /\ (s.failed # r \/ r = s.committed)
              /\ \/ t.tx.repair /\ r = s.committed
                 \/ SeqNo[r] > SeqNo[s.observed] \/ s.failed # r
              /\ Trial(t) = r /\ t.observed = r
         /\ t.failed = None /\ t.tx # None /\ t.tx.stage = "ADMITTED"
         /\ t.committed = s.committed /\ t.previous = s.previous
         /\ t.highwater = s.highwater
  <1>1. PICK r \in Releases, id \in Ids, repair \in BOOLEAN :
           /\ BeginChecked(s, r, repair)
           /\ t = Begun(s, r, id, repair) /\ ValidTransition(s, t)
    BY DEF BeginStep
  <1> DEFINE tx == [id |-> id, candidate |-> r, old |-> s.committed,
                    stage |-> "ADMITTED", staging |-> FALSE,
                    repair |-> repair]
             u == [s EXCEPT !.revision = @ + 1, !.phase = "PREPARING",
                            !.observed = r, !.failed = None, !.tx = tx,
                            !.cleanup = {}, !.rollback = None,
                            !.evidence = @ \cup {r}]
  <1>2. /\ s \in States /\ s.phase = "IDLE" /\ s.tx = None /\ s.rollback = None
        /\ s.committed # None /\ s.observed # None /\ s.highwater # None
        /\ s.committed \in Releases /\ s.observed \in Releases
        /\ s.highwater \in Releases
    BY <1>1, StateFields
    DEF RecordInv, Selectable, BeginChecked, Ancillary, Trying, Optional
  <1>3. t = Prune(u) /\ t \in States
    BY <1>1, BeginPreserves DEF Begun, RecordInv, Selectable
  <1>4. /\ tx # None /\ tx.candidate = r /\ tx.repair = repair
        /\ tx.stage = "ADMITTED"
    <2>1. tx \in Transactions
      BY <1>1, <1>2 DEF Transactions, Optional, Stages
    <2> QED BY <2>1, NoneAssumption
  <1> HIDE DEF tx
  <1>5. /\ t.observed = r /\ t.failed = None /\ t.tx = tx /\ t.rollback = None
        /\ t.committed = s.committed /\ t.previous = s.previous
        /\ t.highwater = s.highwater
    BY <1>2, <1>3 DEF Prune, States
  <1>6. /\ \/ SeqNo[r] > SeqNo[s.observed]
           \/ r = s.observed /\ (s.failed # r \/ r = s.committed)
        /\ \/ repair /\ r = s.committed
           \/ SeqNo[r] > SeqNo[s.observed] \/ s.failed # r
    <2>1. CASE repair
      <3>1. s.committed = r
        BY <1>1, <1>2, <2>1 DEF BeginChecked
      <3>2. FloorsKept(s, t)
        BY <1>1 DEF ValidTransition
      <3>3. SeqNo[r] >= SeqNo[s.observed] /\ (SeqNo[r] = SeqNo[s.observed] => r = s.observed)
        BY <1>2, <1>5, <3>2, ReleaseAssumption DEF FloorsKept, SeqOf
      <3> QED BY <1>2, <2>1, <3>1, <3>3, ReleaseAssumption
    <2>2. CASE ~repair
      <3>1. AntiDowngrade(s, r)
        BY <1>1, <2>2 DEF BeginChecked
      <3> QED BY <1>2, <3>1 DEF AntiDowngrade, AboveFloor, SeqOf
    <2> QED BY <2>1, <2>2
  <1> QED BY <1>1, <1>2, <1>4, <1>5, <1>6 DEF Trial, Rolling

\* The stages of a transaction are no business of the authority.
LEMMA StageSeen ==
  ASSUME NEW s, NEW t, RecordInv(s), StageStep(s, t)
  PROVE  SameAuthority(s, t) /\ t.tx # None
  <1>1. /\ s \in States /\ s.tx \in Transactions /\ s.tx # None
    BY StateFields
    DEF StageStep, RecordInv, Selectable, Ancillary, Trying, Optional
  <1>2. t \in States /\ t.tx # None
    <2>1. RecordInv(t) /\ t.phase \in Trying
      BY <1>1, StagePreserves
      DEF StageStep, Trying, Building, Verified, Quiescing, Probation, States
    <2> QED BY <2>1 DEF RecordInv, Selectable, Ancillary
  <1>3. /\ t.committed = s.committed /\ t.previous = s.previous
        /\ t.highwater = s.highwater /\ t.observed = s.observed
        /\ t.failed = s.failed /\ t.rollback = s.rollback
    BY <1>1 DEF StageStep, Building, Verified, Quiescing, Probation, States
  <1>4. t.tx.candidate = s.tx.candidate
    <2>1. /\ Building(s).tx.candidate = s.tx.candidate
          /\ Verified(s).tx.candidate = s.tx.candidate
      BY <1>1 DEF Building, Verified, States, Transactions
    <2>2. /\ Quiescing(s).tx.candidate = s.tx.candidate
          /\ Probation(s).tx.candidate = s.tx.candidate
      BY <1>1 DEF Quiescing, Probation, States, Transactions
    <2> QED BY <2>1, <2>2 DEF StageStep
  <1> QED BY <1>1, <1>2, <1>3, <1>4 DEF SameAuthority, Trial, Rolling

\* An abort rejects the candidate.
LEMMA AbortSeen ==
  ASSUME NEW s, NEW t, RecordInv(s), AbortStep(s, t)
  PROVE  /\ Trial(s) # None /\ Trial(t) = None /\ ~Rolling(s) /\ ~Rolling(t)
         /\ t.failed = s.observed
         /\ t.committed = s.committed /\ t.previous = s.previous
         /\ t.highwater = s.highwater /\ t.observed = s.observed
  <1>1. /\ s \in States /\ s.tx \in Transactions /\ s.tx # None
        /\ s.rollback = None /\ s.tx.candidate = s.observed /\ s.observed # None
    BY StateFields
    DEF AbortStep, RecordInv, Selectable, Ancillary, Trying, Optional
  <1>2. t = Aborted(s)
    BY DEF AbortStep
  <1>3. /\ t.failed = s.observed /\ t.tx = None /\ t.rollback = None
        /\ t.committed = s.committed /\ t.previous = s.previous
        /\ t.highwater = s.highwater /\ t.observed = s.observed
    BY <1>1, <1>2 DEF Aborted, Prune, States
  <1> QED BY <1>1, <1>3 DEF Trial, Rolling

\* A commit accepts it.
LEMMA CommitSeen ==
  ASSUME NEW s, NEW t, RecordInv(s), CommitStep(s, t)
  PROVE  /\ Trial(s) # None /\ Trial(t) = None /\ ~Rolling(s) /\ ~Rolling(t)
         /\ t.committed = Trial(s) /\ t.previous = s.committed
         /\ t.highwater = Trial(s) /\ t.observed = s.observed
         /\ Trial(s) = s.observed /\ t.failed = s.failed
  <1>1. /\ s \in States /\ s.tx \in Transactions /\ s.tx # None
        /\ s.rollback = None /\ s.tx.candidate = s.observed /\ s.observed # None
    BY StateFields
    DEF CommitStep, RecordInv, Selectable, Ancillary, Trying, Optional
  <1>2. t = Committed(s)
    BY DEF CommitStep
  <1>3. /\ t.failed = s.failed /\ t.tx = None /\ t.rollback = None
        /\ t.committed = s.tx.candidate /\ t.previous = s.committed
        /\ t.highwater = s.tx.candidate /\ t.observed = s.tx.candidate
    BY <1>1, <1>2 DEF Committed, Prune, States
  <1> QED BY <1>1, <1>3 DEF Trial, Rolling

\* Giving up an activation rejects the candidate; giving up a committed
\* generation starts a rollback.
LEMMA RollbackSeen ==
  ASSUME NEW s, NEW t, RecordInv(s), RollbackStep(s, t)
  PROVE  /\ ~Rolling(s) /\ Trial(t) = None /\ t.failed = s.observed
         /\ t.committed = s.committed /\ t.previous = s.previous
         /\ t.highwater = s.highwater /\ t.observed = s.observed
         /\ \/ Trial(s) # None /\ ~Rolling(t)
            \/ Trial(s) = None /\ s.previous # None /\ Rolling(t)
  <1>1. /\ s \in States /\ s.rollback = None /\ s.observed # None
    BY DEF RollbackStep, RecordInv, Selectable, Ancillary
  <1>2. CASE s.phase \in {"QUIESCING", "PROBATION"} /\ t = PrecommitRollback(s)
    <2>1. s.tx # None /\ s.tx.candidate = s.observed
      BY <1>2 DEF RecordInv, Ancillary, Trying
    <2>2. /\ t.failed = s.observed /\ t.tx = None
          /\ t.rollback = [mode |-> "precommit", target |-> s.committed,
                           scratch |-> {}]
          /\ t.committed = s.committed /\ t.previous = s.previous
          /\ t.highwater = s.highwater /\ t.observed = s.observed
      BY <1>1, <1>2 DEF PrecommitRollback, Prune, States
    <2> QED BY <1>1, <2>1, <2>2 DEF Trial, Rolling
  <1>3. CASE s.phase = "IDLE" /\ s.previous # None /\ t = PostcommitRollback(s)
    <2>1. s.tx = None
      BY <1>3 DEF RecordInv, Ancillary, Trying
    <2>2. /\ t.failed = s.observed /\ t.tx = None
          /\ t.rollback = [mode |-> "postcommit", target |-> s.previous,
                           scratch |-> s.cleanup]
          /\ t.committed = s.committed /\ t.previous = s.previous
          /\ t.highwater = s.highwater /\ t.observed = s.observed
      BY <1>1, <1>3 DEF PostcommitRollback, Prune, States
    <2>3. t.rollback # None
      <3>1. RecordInv(t)
        BY <1>3, RollbackPreserves DEF RollbackStep
      <3>2. t.phase = "ROLLING_BACK"
        BY <1>1, <1>3 DEF PostcommitRollback, Prune, States
      <3> QED BY <3>1, <3>2 DEF RecordInv, Ancillary
    <2> QED BY <1>1, <1>3, <2>1, <2>2, <2>3 DEF Trial, Rolling
  <1> QED BY <1>2, <1>3 DEF RollbackStep

\* A rollback ends with the backup committed, or changes no release; the end
\* of a cleanup never does.
LEMMA FinishSeen ==
  ASSUME NEW s, NEW t, RecordInv(s), FinishStep(s, t)
  PROVE  /\ Trial(s) = None /\ Trial(t) = None /\ ~Rolling(t)
         /\ t.tx = None /\ s.tx = None
         /\ t.highwater = s.highwater /\ t.observed = s.observed
         /\ t.failed = s.failed
         /\ IF Rolling(s) THEN t.committed = s.previous /\ t.previous = None
                          ELSE t.committed = s.committed /\ t.previous = s.previous
  <1>1. s \in States /\ s.tx = None
    BY DEF RecordInv, Selectable, FinishStep, Ancillary, Trying
  <1>2. CASE s.phase = "CLEANING" /\ t = Cleaned(s)
    <2>1. s.rollback = None
      BY <1>2 DEF RecordInv, Ancillary
    <2>2. /\ t.tx = None /\ t.rollback = None /\ t.failed = s.failed
          /\ t.committed = s.committed /\ t.previous = s.previous
          /\ t.highwater = s.highwater /\ t.observed = s.observed
      BY <1>1, <1>2 DEF Cleaned, Prune, States
    <2> QED BY <1>1, <2>1, <2>2 DEF Trial, Rolling
  <1>3. CASE s.phase = "ROLLING_BACK" /\ t = RolledBack(s)
    <2>1. /\ s.rollback # None
          /\ \/ s.rollback.mode = "precommit" /\ s.rollback.target = s.committed
             \/ s.rollback.mode = "postcommit" /\ s.rollback.target = s.previous
      BY <1>3 DEF RecordInv, Ancillary
    <2>2. /\ t.tx = None /\ t.rollback = None /\ t.failed = s.failed
          /\ t.committed = s.rollback.target
          /\ t.previous = IF s.rollback.mode = "postcommit" THEN None
                                                            ELSE s.previous
          /\ t.highwater = s.highwater /\ t.observed = s.observed
      BY <1>1, <1>3, <2>1 DEF RolledBack, Prune, States
    <2> QED BY <1>1, <2>1, <2>2 DEF Trial, Rolling
  <1> QED BY <1>2, <1>3 DEF FinishStep

\* Noted survives every step.
LEMMA NotedKept ==
  ASSUME NEW s, NEW t, RecordInv(s), Noted(s), RecordStep(s, t)
  PROVE  Noted(t)
  <1>1. CASE AdmitStep(s, t)
    BY <1>1, AdmitSeen DEF Noted
  <1>2. CASE BeginStep(s, t)
    BY <1>2, BeginSeen DEF Noted
  <1>3. CASE StageStep(s, t)
    BY <1>3, StageSeen DEF Noted
  <1>4. CASE AbortStep(s, t)
    BY <1>4, AbortSeen DEF Noted
  <1>5. CASE CommitStep(s, t)
    BY <1>5, CommitSeen DEF Noted
  <1>6. CASE RollbackStep(s, t)
    BY <1>6, RollbackSeen DEF Noted
  <1>7. CASE FinishStep(s, t)
    BY <1>7, FinishSeen DEF Noted
  <1> QED BY <1>1, <1>2, <1>3, <1>4, <1>5, <1>6, <1>7 DEF RecordStep

(***************************************************************************)
(* The current record.                                                     *)
(***************************************************************************)
\* It changes only by a record step: when a slot write reaches the slot, and
\* nothing else but that slot changes then.
LEMMA CurrentMoves ==
  ASSUME Inv, [ProcessNext]_vars
  PROVE  \/ Current(cache') = Current(cache)
         \/ /\ RecordStep(Current(cache), Current(cache'))
            /\ pc = "write" \/ Rewrite
            /\ Current(cache') = w.state
            /\ UNCHANGED <<failures, diskVars, lost>>
  <1>1. SlotInv(cache) /\ HelperInv /\ TypeOK
    BY DEF Inv
  <1>2. CASE cache' = cache
    BY <1>2
  <1>3. CASE WriteSlot
    <2>1. /\ RecordStep(Current(cache), w.state) /\ w.slot = InactiveSlot(cache)
          /\ cache' = [cache EXCEPT ![w.slot] = w.state]
      BY <1>1, <1>3, AcceptedWrite DEF WriteSlot, HelperInv
    <2>2. Current(cache') = w.state
      BY <1>1, <2>1, SuccessorSelected
    <2> QED BY <1>3, <2>1, <2>2 DEF WriteSlot, envVars
  <1>4. CASE Rewrite
    <2>1. /\ RecordStep(Current(cache), w.state) /\ w.slot = InactiveSlot(cache)
          /\ cache' = [cache EXCEPT ![w.slot] = w.state]
      BY <1>1, <1>4 DEF Rewrite, HelperInv
    <2>2. Current(cache') = w.state
      BY <1>1, <2>1, SuccessorSelected
    <2> QED BY <1>4, <2>1, <2>2 DEF Rewrite, envVars
  <1>5. CASE Truncate
    <2>1. /\ w.slot = InactiveSlot(cache)
          /\ cache' = [cache EXCEPT ![w.slot] = Short]
      BY <1>1, <1>5 DEF Truncate, HelperInv
    <2> QED BY <1>1, <2>1, SpoiltIgnored
  <1>6. CASE WriteFault \/ Kill
    <2>1. /\ UNCHANGED <<failures, diskVars, lost>>
          /\ \/ cache' = cache
             \/ /\ pc \in {"write", "flush"}
                /\ pc = "write" => WriteChecked(cache, w.state)
                /\ \E f \in {cache[w.slot], w.state, Torn} :
                     /\ f = Torn => pc = "write"
                     /\ cache' = [cache EXCEPT ![w.slot] = f]
      BY <1>6 DEF WriteFault, Kill
    <2>2. CASE pc = "flush" /\ cache' # cache
      <3>1. cache[w.slot] = w.state
        BY <1>1, <2>2 DEF HelperInv
      <3>2. cache' = [cache EXCEPT ![w.slot] = cache[w.slot]]
        BY <2>1, <2>2, <3>1
      <3> QED BY <1>1, <2>2, <3>2 DEF SlotInv
    <2>3. CASE pc = "write" /\ cache' # cache
      <3>1. /\ w.slot = InactiveSlot(cache)
            /\ RecordStep(Current(cache), w.state)
        BY <1>1, <2>1, <2>3, AcceptedWrite DEF HelperInv
      <3>2. CASE cache' = [cache EXCEPT ![w.slot] = cache[w.slot]]
        BY <1>1, <2>3, <3>2 DEF SlotInv
      <3>3. CASE cache' = [cache EXCEPT ![w.slot] = Torn]
        BY <1>1, <3>1, <3>3, SpoiltIgnored
      <3>4. CASE cache' = [cache EXCEPT ![w.slot] = w.state]
        <4>1. Current(cache') = w.state
          BY <1>1, <3>1, <3>4, SuccessorSelected
        <4> QED BY <2>1, <2>3, <3>1, <4>1
      <3> QED BY <2>1, <2>3, <3>2, <3>3, <3>4
    <2> QED BY <2>1, <2>2, <2>3
  <1>7. \/ cache' = cache \/ WriteSlot \/ Rewrite \/ Truncate \/ WriteFault \/ Kill
    BY DEF vars, slotVars, ProcessNext, SessionNext, Request, HelperStep, Fault,
           RecoveryStep, WriteStep, StartSession, SessionEnds, AdmitUnchanged,
           Admit, HelperWrite, BeginUpdate, BeginRepair, BeginWith,
           ApplyRejected, Apply, Abort, BuildFails, Build, Publish, Retire,
           Replace, Check, Release, SelfTestFails, Quiesce, StartProbation,
           Commit, StartRecovery, RecoveryEnds,
           RecoverHealthy, RecoverNoBackup, RecoverMissing, RecoverPreparing,
           RecoverCleaning, RecoverInterrupted, RecoverRollingBack, Sync,
           WriteRefused, FlushSlot, LoseGeneration
  <1> QED BY <1>2, <1>3, <1>4, <1>5, <1>6, <1>7

(***************************************************************************)
(* The refinement.                                                         *)
(***************************************************************************)
\* The authority's variables, read off the current record.
LEMMA SeenStep ==
  ASSUME Inv, Noted(Current(cache)),
         \/ Current(cache') = Current(cache)
         \/ RecordStep(Current(cache), Current(cache'))
  PROVE  [Authority!Next]_(Authority!authority)
  <1> DEFINE s == Current(cache)
             t == Current(cache')
  <1>1. RecordInv(s)
    BY SlotInvFacts DEF Inv
  <1> USE DEF Authority!Next, Authority!authority, Authority!Quiet
  <1>2. CASE t = s
    BY <1>2
  <1>3. CASE AdmitStep(s, t)
    BY <1>1, <1>3, AdmitSeen DEF Authority!Admit, Trial, Rolling
  <1>4. CASE BeginStep(s, t)
    BY <1>1, <1>4, BeginSeen DEF Authority!Try, Trial, Rolling
  <1>5. CASE StageStep(s, t)
    BY <1>1, <1>5, StageSeen DEF SameAuthority, Trial, Rolling
  <1>6. CASE AbortStep(s, t)
    BY <1>1, <1>6, AbortSeen DEF Authority!Reject, Trial, Rolling
  <1>7. CASE CommitStep(s, t)
    BY <1>1, <1>7, CommitSeen DEF Authority!Accept, Trial, Rolling
  <1>8. CASE RollbackStep(s, t)
    BY <1>1, <1>8, RollbackSeen
    DEF Authority!Reject, Authority!StartRollback, Trial, Rolling
  <1>9. CASE FinishStep(s, t)
    BY <1>1, <1>9, FinishSeen DEF Authority!FinishRollback, Trial, Rolling
  <1> QED BY <1>2, <1>3, <1>4, <1>5, <1>6, <1>7, <1>8, <1>9 DEF RecordStep

\* Enrollment leaves the complete record of the baseline as the current one.
LEMMA InitCurrent ==
  ASSUME Init
  PROVE  Current(cache) = Enrolled(3, TRUE)
  BY InitKeeps, OneActiveSlot DEF Init, Inv, TypeOK, Slots

\* Updater under ProcessSpec implements the authority.
THEOREM ImplementsAuthority == ProcessSpec => AuthoritySpec
  <1>1. Init => Inv /\ Noted(Current(cache)) /\ Authority!Init
    <2> SUFFICES ASSUME Init
                 PROVE  Inv /\ Noted(Current(cache)) /\ Authority!Init
      OBVIOUS
    <2>1. Inv
      BY InitKeeps
    <2>2. Current(cache) = Enrolled(3, TRUE)
      BY InitCurrent
    <2>3. Noted(Current(cache)) /\ Authority!Init
      BY <2>2 DEF Noted, Authority!Init, Enrolled
    <2> QED BY <2>1, <2>3
  <1>2. /\ Inv /\ Noted(Current(cache)) /\ [ProcessNext]_vars
        => /\ Inv' /\ Noted(Current(cache))'
           /\ [Authority!Next]_(Authority!authority)
    <2> SUFFICES ASSUME Inv, Noted(Current(cache)), [ProcessNext]_vars
                 PROVE  /\ Inv' /\ Noted(Current(cache'))
                        /\ [Authority!Next]_(Authority!authority)
      OBVIOUS
    <2>1. Inv'
      BY StepKeeps
    <2>2. \/ Current(cache') = Current(cache)
          \/ RecordStep(Current(cache), Current(cache'))
      BY CurrentMoves
    <2>3. Noted(Current(cache'))
      BY <2>2, NotedKept, SlotInvFacts DEF Inv
    <2>4. [Authority!Next]_(Authority!authority)
      BY <2>2, SeenStep
    <2> QED BY <2>1, <2>3, <2>4
  <1> QED BY <1>1, <1>2, PTL DEF ProcessSpec, AuthoritySpec, Authority!Spec

(***************************************************************************)
(* What the releases have been through.                                    *)
(***************************************************************************)
\* A release the record has taken note of: older than the newest, or it.
Known(s, q) == SeqNo[q] < SeqNo[s.observed] \/ q = s.observed

Repaired(s, q) == s.committed = q /\ s.previous = q

\* The releases that failed are known, and the newest, if it is one of them,
\* is marked, was repaired since, or is being repaired.
FailuresInv(s) ==
  /\ \A q \in failures \cup ({s.failed} \ {None}) :
       /\ Known(s, q)
       /\ q = s.observed => \/ s.failed = q \/ Repaired(s, q)
                            \/ s.tx # None /\ s.tx.repair
  /\ s.rollback # None => s.failed = s.observed
  /\ s.tx # None /\ s.tx.repair => s.tx.candidate = s.committed

\* The published generations are of known releases, and the newest, if it is
\* one of them, failed or was committed, unless it is on trial.
PublishedInv(s) ==
  \A q \in published :
    /\ Known(s, q)
    /\ q = s.observed /\ s.tx = None => s.failed = q \/ s.committed = q

\* The generations that were published, wherever they are now.
Placed == published \cup lost \cup retired

TestedPlaced(s) ==
  s.tx # None /\ s.tx.stage \in {"VERIFIED", "QUIESCING", "PROBATION"}
    => s.tx.candidate \in Placed

PlacedInv(s) ==
  /\ s.committed \in Placed
  /\ s.previous # None => s.previous \in Placed
  /\ TestedPlaced(s)

\* An update whose candidate has no generation yet.
Unpublished(s) ==
  s.tx.repair \/ s.tx.candidate = s.committed \/ s.tx.candidate \notin published

\* Where a durable write of the helper leads to.
Arrivals == {"admitted", "ready", "build", "verified", "quiescing",
             "probation", "off"}

\* The transaction in hand, or in the record being written.
WorkInv ==
  /\ pc \in {"write", "flush"} => w.ok \in Arrivals
  /\ pc = "check" => mem.tx.candidate \in Placed
  /\ pc \in {"ready", "build", "publish"} => Unpublished(mem)
  /\ FreshName
  /\ pc \in {"write", "truncate", "rewrite"} => TestedPlaced(w.state)
  /\ pc \in {"write", "flush"} /\ w.ok \in {"ready", "build"}
       => Unpublished(w.state)

\* A record that recovery does not leave as it is.
Ailing(s) == s.phase # "IDLE" \/ ~CommittedPresent(s)

\* Only recovery cuts a slot short, and only next to an ailing record.
ShortInv ==
  /\ pc \in {"truncate", "rewrite"} => Ailing(Current(cache))
  /\ ~Openable(cache) => pc \notin HelperPcs /\ Ailing(Current(cache))

\* Recovery reports at its end only.
ResultInv == (pc # "off" => result = "none") /\ RecoveryHeals

HistoryInv ==
  /\ Current(cache).complete
  /\ Noted(Current(cache)) /\ FailuresInv(Current(cache))
  /\ PublishedInv(Current(cache)) /\ PlacedInv(Current(cache))
  /\ WorkInv /\ ShortInv /\ ResultInv

\* The sequence numbers of releases can be compared.
LEMMA KnownKept ==
  ASSUME NEW s, NEW t, NEW q \in Releases,
         s.observed \in Releases, t.observed \in Releases,
         \/ t.observed = s.observed \/ SeqNo[t.observed] > SeqNo[s.observed],
         Known(s, q)
  PROVE  /\ Known(t, q)
         /\ q = t.observed => q = s.observed /\ t.observed = s.observed
  <1>1. /\ SeqNo[q] \in Nat /\ SeqNo[s.observed] \in Nat
        /\ SeqNo[t.observed] \in Nat
    BY ReleaseAssumption
  <1> QED BY <1>1 DEF Known

\* What every step does to the record's marks.
LEMMA MarksMove ==
  ASSUME NEW s, NEW t, RecordInv(s), Noted(s), RecordStep(s, t)
  PROVE  /\ s.observed \in Releases /\ t.observed \in Releases
         /\ s.failed \in Optional(Releases)
         /\ t.observed = s.observed \/ SeqNo[t.observed] > SeqNo[s.observed]
         /\ t.failed \in {None, s.failed, s.observed}
  <1>1. RecordInv(t)
    BY StepsLegal
  <1>2. /\ s.observed \in Releases /\ t.observed \in Releases
        /\ s.failed \in Optional(Releases)
    BY <1>1, StateFields DEF RecordInv, Selectable, Optional
  <1>3. /\ t.observed = s.observed \/ SeqNo[t.observed] > SeqNo[s.observed]
        /\ t.failed \in {None, s.failed, s.observed}
    <2>1. CASE AdmitStep(s, t)
      BY <2>1, AdmitSeen
    <2>2. CASE BeginStep(s, t)
      BY <2>2, BeginSeen
    <2>3. CASE StageStep(s, t)
      BY <2>3, StageSeen DEF SameAuthority
    <2>4. CASE AbortStep(s, t)
      BY <2>4, AbortSeen
    <2>5. CASE CommitStep(s, t)
      BY <2>5, CommitSeen
    <2>6. CASE RollbackStep(s, t)
      BY <2>6, RollbackSeen
    <2>7. CASE FinishStep(s, t)
      BY <2>7, FinishSeen
    <2> QED BY <2>1, <2>2, <2>3, <2>4, <2>5, <2>6, <2>7 DEF RecordStep
  <1> QED BY <1>2, <1>3

\* A stage of a transaction leaves the kind of the transaction alone.
LEMMA StageKeepsKind ==
  ASSUME NEW s, NEW t, RecordInv(s), StageStep(s, t)
  PROVE  /\ s.tx # None /\ t.tx # None /\ t.rollback = s.rollback
         /\ t.tx.repair = s.tx.repair /\ t.tx.candidate = s.tx.candidate
         /\ SameAuthority(s, t)
  <1>1. /\ s \in States /\ s.tx \in Transactions /\ s.tx # None
    BY StateFields
    DEF StageStep, RecordInv, Selectable, Ancillary, Trying, Optional
  <1>2. SameAuthority(s, t) /\ t.tx # None
    BY StageSeen
  <1>3. t.rollback = s.rollback
    BY <1>1 DEF StageStep, Building, Verified, Quiescing, Probation, States
  <1>4. /\ Building(s).tx.repair = s.tx.repair
        /\ Verified(s).tx.repair = s.tx.repair
        /\ Quiescing(s).tx.repair = s.tx.repair
        /\ Probation(s).tx.repair = s.tx.repair
    BY <1>1 DEF Building, Verified, Quiescing, Probation, States, Transactions
  <1>5. t.tx.repair = s.tx.repair
    BY <1>4 DEF StageStep
  <1>6. t.tx.candidate = s.tx.candidate
    BY <1>1, <1>2 DEF SameAuthority, Trial
  <1> QED BY <1>1, <1>2, <1>3, <1>5, <1>6

\* A release that failed stays marked, or a repair has accounted for it.
LEMMA FailuresKept ==
  ASSUME NEW s, NEW t, TypeOK, RecordInv(s), Noted(s), FailuresInv(s),
         RecordStep(s, t)
  PROVE  FailuresInv(t)
  <1>1. /\ s.observed \in Releases /\ t.observed \in Releases
        /\ t.observed = s.observed \/ SeqNo[t.observed] > SeqNo[s.observed]
        /\ t.failed \in {None, s.failed, s.observed}
        /\ s.failed \in Optional(Releases)
    BY MarksMove
  <1>2. RecordInv(t)
    BY StepsLegal
  <1>3. ASSUME NEW q \in failures \cup ({t.failed} \ {None})
        PROVE  /\ q \in Releases /\ Known(s, q) /\ Known(t, q)
               /\ q = t.observed => q = s.observed /\ t.observed = s.observed
    <2>1. q \in Releases
      BY <1>1, <1>3 DEF TypeOK, Optional
    <2>2. Known(s, q)
      <3>1. CASE q = s.observed
        BY <3>1 DEF Known
      <3>2. CASE q \in failures \cup ({s.failed} \ {None})
        BY <3>2 DEF FailuresInv
      <3> QED BY <1>1, <1>3, <3>1, <3>2
    <2> QED BY <1>1, <2>1, <2>2, KnownKept
  <1>4. ASSUME NEW q \in failures \cup ({t.failed} \ {None}), q = t.observed
        PROVE  \/ t.failed = q \/ Repaired(t, q)
               \/ t.tx # None /\ t.tx.repair
    <2>1. q = s.observed /\ t.observed = s.observed
      BY <1>3, <1>4
    <2>2. q \in failures \/ q = s.failed \/ t.failed = q
      BY <1>1, <1>4, <2>1
    <2>3. SUFFICES ASSUME q \in failures \cup ({s.failed} \ {None}), t.failed # q
                   PROVE  Repaired(t, q) \/ (t.tx # None /\ t.tx.repair)
      BY <1>1, <1>4, <2>1, <2>2, ReleaseAssumption
    <2>4. s.failed = q \/ Repaired(s, q) \/ (s.tx # None /\ s.tx.repair)
      BY <2>1, <2>3 DEF FailuresInv
    <2>5. CASE AdmitStep(s, t)
      BY <1>1, <2>1, <2>5, AdmitSeen, ReleaseAssumption
    <2>6. CASE BeginStep(s, t)
      <3>1. t.tx.repair \/ s.failed # q
        BY <1>1, <2>1, <2>6, BeginSeen, ReleaseAssumption
      <3>2. s.tx = None
        BY <2>6 DEF BeginStep, BeginChecked, RecordInv, Ancillary, Trying
      <3> QED BY <2>4, <2>6, <3>1, <3>2, BeginSeen DEF Repaired
    <2>7. CASE StageStep(s, t)
      BY <2>3, <2>4, <2>7, StageKeepsKind DEF SameAuthority, Repaired
    <2>8. CASE AbortStep(s, t)
      BY <2>1, <2>3, <2>8, AbortSeen
    <2>9. CASE CommitStep(s, t)
      <3>1. s.tx # None /\ s.failed = None
        BY <2>9 DEF CommitStep, RecordInv, Ancillary, Trying
      <3>2. q # None
        BY <1>1, <2>1, ReleaseAssumption
      <3>3. s.committed = q
        BY <2>1, <2>4, <2>9, <3>1, <3>2, CommitSeen
        DEF FailuresInv, Repaired, Trial
      <3> QED BY <2>1, <2>9, <3>3, CommitSeen DEF Repaired
    <2>10. CASE RollbackStep(s, t)
      BY <2>1, <2>3, <2>10, RollbackSeen
    <2>11. CASE FinishStep(s, t)
      <3>1. ~Rolling(s)
        BY <2>1, <2>3, <2>11, FinishSeen DEF FailuresInv, Rolling
      <3> QED BY <2>3, <2>4, <2>11, <3>1, FinishSeen DEF Repaired
    <2> QED BY <2>5, <2>6, <2>7, <2>8, <2>9, <2>10, <2>11 DEF RecordStep
  <1>5. t.rollback # None => t.failed = t.observed
    <2>1. CASE RollbackStep(s, t)
      BY <2>1, RollbackSeen
    <2>2. CASE ~RollbackStep(s, t)
      <3> SUFFICES ASSUME t.rollback # None
                   PROVE  FALSE
        OBVIOUS
      <3>1. t.phase = "ROLLING_BACK"
        BY <1>2 DEF RecordInv, Ancillary
      <3>2. s \in States
        BY DEF RecordInv, Selectable
      <3> QED BY <2>2, <3>1, <3>2
              DEF RecordStep, AdmitStep, AdmissionChanges, Admitted, BeginStep,
                  Begun, StageStep, Building, Verified, Quiescing, Probation,
                  AbortStep, Aborted, CommitStep, Committed, FinishStep,
                  RolledBack, Cleaned, Prune, States
    <2> QED BY <2>1, <2>2
  <1>6. t.tx # None /\ t.tx.repair => t.tx.candidate = t.committed
    <2>1. CASE BeginStep(s, t)
      <3> SUFFICES ASSUME t.tx # None, t.tx.repair
                   PROVE  t.tx.candidate = t.committed
        OBVIOUS
      <3>1. PICK r \in Releases, id \in Ids, repair \in BOOLEAN :
               /\ BeginChecked(s, r, repair) /\ t = Begun(s, r, id, repair)
        BY <2>1 DEF BeginStep
      <3>2. s \in States /\ s.committed # None
        BY DEF RecordInv, Selectable
      <3>3. /\ t.tx = [id |-> id, candidate |-> r, old |-> s.committed,
                       stage |-> "ADMITTED", staging |-> FALSE,
                       repair |-> repair]
            /\ t.committed = s.committed
        BY <3>1, <3>2 DEF Begun, Prune, States
      <3> QED BY <3>1, <3>2, <3>3 DEF BeginChecked
    <2>2. CASE StageStep(s, t)
      BY <2>2, StageKeepsKind DEF SameAuthority, FailuresInv
    <2>3. CASE ~BeginStep(s, t) /\ ~StageStep(s, t)
      <3>1. Trial(t) = None
        BY <2>3, AdmitSeen, AbortSeen, CommitSeen, RollbackSeen, FinishSeen
        DEF RecordStep
      <3> QED BY <1>2, <3>1 DEF Trial, RecordInv, Ancillary, Selectable
    <2> QED BY <2>1, <2>2, <2>3
  <1> QED BY <1>3, <1>4, <1>5, <1>6 DEF FailuresInv

\* A published generation stays accounted for.
LEMMA PublishedKept ==
  ASSUME NEW s, NEW t, TypeOK, RecordInv(s), Noted(s), FailuresInv(s),
         PublishedInv(s), RecordStep(s, t)
  PROVE  PublishedInv(t)
  <1>1. /\ s.observed \in Releases /\ t.observed \in Releases
        /\ t.observed = s.observed \/ SeqNo[t.observed] > SeqNo[s.observed]
    BY MarksMove
  <1>2. ASSUME NEW q \in published
        PROVE  /\ Known(t, q)
               /\ q = t.observed => q = s.observed /\ t.observed = s.observed
    <2>1. q \in Releases /\ Known(s, q)
      BY DEF TypeOK, PublishedInv
    <2> QED BY <1>1, <2>1, KnownKept
  <1>3. ASSUME NEW q \in published, q = t.observed, t.tx = None
        PROVE  t.failed = q \/ t.committed = q
    <2>1. q = s.observed /\ t.observed = s.observed
      BY <1>2, <1>3
    <2>2. s.tx = None => s.failed = q \/ s.committed = q
      BY <2>1 DEF PublishedInv
    <2>3. CASE AdmitStep(s, t)
      BY <1>1, <2>1, <2>3, AdmitSeen, ReleaseAssumption
    <2>4. CASE BeginStep(s, t) \/ StageStep(s, t)
      BY <1>3, <2>4, BeginSeen, StageSeen
    <2>5. CASE AbortStep(s, t) \/ RollbackStep(s, t)
      BY <2>1, <2>5, AbortSeen, RollbackSeen
    <2>6. CASE CommitStep(s, t)
      BY <2>1, <2>6, CommitSeen
    <2>7. CASE FinishStep(s, t)
      <3>1. Rolling(s) => s.failed = q
        BY <2>1 DEF Rolling, FailuresInv
      <3> QED BY <2>2, <2>7, <3>1, FinishSeen
    <2> QED BY <2>3, <2>4, <2>5, <2>6, <2>7 DEF RecordStep
  <1> QED BY <1>2, <1>3 DEF PublishedInv

\* A record only ever selects generations that were published, provided that
\* what is published is verified before the record says so.
LEMMA PlacedKept ==
  ASSUME NEW s, NEW t, RecordInv(s), Noted(s), PlacedInv(s), TestedPlaced(t),
         RecordStep(s, t)
  PROVE  PlacedInv(t)
  <1>1. t.committed \in Placed /\ (t.previous # None => t.previous \in Placed)
    <2>1. CASE AdmitStep(s, t)
      BY <2>1, AdmitSeen DEF PlacedInv
    <2>2. CASE BeginStep(s, t)
      BY <2>2, BeginSeen DEF PlacedInv
    <2>3. CASE StageStep(s, t)
      BY <2>3, StageSeen DEF PlacedInv, SameAuthority
    <2>4. CASE AbortStep(s, t)
      BY <2>4, AbortSeen DEF PlacedInv
    <2>5. CASE CommitStep(s, t)
      <3>1. /\ s.tx # None /\ s.tx.stage = "PROBATION"
        BY <2>5 DEF CommitStep, RecordInv, Ancillary, Trying, StageOf
      <3>2. s.tx.candidate \in Placed
        BY <3>1 DEF PlacedInv, TestedPlaced
      <3> QED BY <2>5, <3>1, <3>2, CommitSeen DEF PlacedInv, Trial
    <2>6. CASE RollbackStep(s, t)
      BY <2>6, RollbackSeen DEF PlacedInv
    <2>7. CASE FinishStep(s, t)
      <3>1. Rolling(s) => s.previous # None
        <4>1. t.committed # None
          BY StepsLegal DEF RecordInv, Selectable
        <4> QED BY <2>7, <4>1, FinishSeen
      <3> QED BY <2>7, <3>1, FinishSeen DEF PlacedInv
    <2> QED BY <2>1, <2>2, <2>3, <2>4, <2>5, <2>6, <2>7 DEF RecordStep
  <1> QED BY <1>1 DEF PlacedInv

(***************************************************************************)
(* What a step does to the releases' history.                              *)
(***************************************************************************)
\* Only a flush marks a failure, the one of the current record; only the
\* candidate in hand is published; and no generation vanishes unnoticed.
LEMMA HistoryMoves ==
  ASSUME Inv, [ProcessNext]_vars
  PROVE  /\ failures \subseteq failures'
         /\ failures' \subseteq failures \cup ({Current(cache).failed} \ {None})
         /\ Placed \subseteq Placed'
         /\ published' \subseteq published
              \/ /\ pc \in {"publish", "replace"}
                 /\ published' = published \cup {mem.tx.candidate}
  <1>1. SlotInv(cache) /\ HelperInv
    BY DEF Inv
  <1>2. CASE FlushSlot \/ Sync
    <2>1. w \in Writes /\ Selects(cache, w.slot) /\ cache[w.slot] = w.state
      BY <1>1, <1>2 DEF FlushSlot, Sync, HelperInv
    <2>2. Current(cache) = w.state
      BY <1>1, <2>1, OneActiveSlot DEF SlotInv, Writes
    <2> QED BY <1>2, <2>2 DEF FlushSlot, Sync, diskVars, envVars, Placed
  <1>3. CASE Publish \/ Retire \/ Replace \/ \E r \in Releases : LoseGeneration(r)
    BY <1>3 DEF Publish, Retire, Replace, LoseGeneration, slotVars, envVars,
                Placed
  <1>4. \/ UNCHANGED <<failures, published, lost, retired>>
        \/ FlushSlot \/ Sync \/ Publish \/ Retire \/ Replace
        \/ \E r \in Releases : LoseGeneration(r)
    BY DEF vars, slotVars, diskVars, envVars, ProcessNext, SessionNext, Request,
           HelperStep, Fault, RecoveryStep, WriteStep, StartSession,
           SessionEnds, AdmitUnchanged, Admit, HelperWrite, BeginUpdate,
           BeginRepair, BeginWith, ApplyRejected, Apply, Abort, BuildFails,
           Build, Check, Release, SelfTestFails, Quiesce, StartProbation,
           Commit, StartRecovery, RecoveryEnds, RecoverHealthy,
           RecoverNoBackup, RecoverMissing, RecoverPreparing, RecoverCleaning,
           RecoverInterrupted, RecoverRollingBack, Truncate, Rewrite,
           WriteRefused, WriteSlot, WriteFault, Kill
  <1> QED BY <1>2, <1>3, <1>4 DEF Placed

\* No step takes back that enrollment is complete.
LEMMA CompleteKept ==
  ASSUME NEW s \in States, NEW t, RecordStep(s, t), s.complete
  PROVE  t.complete
  <1>1. CASE AdmitStep(s, t)
    BY <1>1 DEF AdmitStep, Admitted, States
  <1>2. CASE BeginStep(s, t)
    BY <1>2 DEF BeginStep, Begun, Prune, States
  <1>3. CASE StageStep(s, t)
    BY <1>3 DEF StageStep, Building, Verified, Quiescing, Probation, States
  <1>4. CASE AbortStep(s, t) \/ CommitStep(s, t)
    BY <1>4 DEF AbortStep, Aborted, CommitStep, Committed, Prune, States
  <1>5. CASE RollbackStep(s, t)
    BY <1>5
    DEF RollbackStep, PrecommitRollback, PostcommitRollback, Prune, States
  <1>6. CASE FinishStep(s, t)
    BY <1>6 DEF FinishStep, RolledBack, Cleaned, Prune, States
  <1> QED BY <1>1, <1>2, <1>3, <1>4, <1>5, <1>6 DEF RecordStep

\* The record's account of the releases stays true.
LEMMA AccountKept ==
  ASSUME Inv, HistoryInv, [ProcessNext]_vars
  PROVE  /\ Current(cache').complete
         /\ Noted(Current(cache')) /\ FailuresInv(Current(cache))'
         /\ PublishedInv(Current(cache))' /\ PlacedInv(Current(cache))'
  <1> DEFINE s == Current(cache)
             t == Current(cache')
  <1>1. /\ RecordInv(s) /\ TypeOK /\ HelperInv /\ s.complete
        /\ Noted(s) /\ FailuresInv(s) /\ PublishedInv(s) /\ PlacedInv(s)
    BY SlotInvFacts DEF Inv, HistoryInv
  <1>2. CASE t = s
    <2>1. FailuresInv(s)'
      BY <1>1, <1>2, HistoryMoves DEF FailuresInv
    <2>2. PublishedInv(s)'
      <3>1. CASE published' \subseteq published
        BY <1>1, <1>2, <3>1 DEF PublishedInv
      <3>2. CASE /\ pc \in {"publish", "replace"}
                 /\ published' = published \cup {mem.tx.candidate}
        <4>1. mem = s /\ s.phase = "PREPARING"
          BY <1>1, <3>2 DEF HelperInv, Holding, Holds
        <4>2. s.tx # None /\ s.tx.candidate = s.observed
          BY <1>1, <4>1 DEF RecordInv, Ancillary, Trying
        <4> QED BY <1>1, <1>2, <3>2, <4>1, <4>2 DEF PublishedInv, Known
      <3> QED BY <3>1, <3>2, HistoryMoves
    <2>3. PlacedInv(s)'
      BY <1>1, <1>2, HistoryMoves DEF PlacedInv, TestedPlaced
    <2> QED BY <1>1, <1>2, <2>1, <2>2, <2>3
  <1>3. CASE /\ RecordStep(s, t) /\ t = w.state
             /\ pc = "write" \/ Rewrite
             /\ UNCHANGED <<failures, diskVars, lost>>
    <2>1. TestedPlaced(t)
      BY <1>3 DEF HistoryInv, WorkInv, Rewrite
    <2>2. /\ Noted(t) /\ FailuresInv(t) /\ PublishedInv(t) /\ PlacedInv(t)
          /\ t.complete
      BY <1>1, <1>3, <2>1, NotedKept, FailuresKept, PublishedKept, PlacedKept,
         CompleteKept DEF RecordInv, Selectable
    <2> QED BY <1>3, <2>2
            DEF FailuresInv, PublishedInv, PlacedInv, TestedPlaced, Placed,
                diskVars
  <1> QED BY <1>2, <1>3, CurrentMoves

(***************************************************************************)
(* The transaction in hand.                                                *)
(***************************************************************************)
\* Moving on to where no transaction is in hand.
LEMMA LeaveKeepsWork ==
  ASSUME NEW p, Goto(p),
         p \notin {"write", "flush", "truncate", "rewrite", "check", "ready",
                   "build", "publish"}
  PROVE  WorkInv'
  BY DEF Goto, WorkInv, FreshName

\* Formulating a record to write, with the generations left alone.
LEMMA PersistKeepsWork ==
  ASSUME NEW first \in {"write", "truncate"}, NEW s,
         NEW ok \in Arrivals \cup {"recover"}, NEW fail,
         Persist(first, s, ok, fail), first = "write" => ok \in Arrivals,
         UNCHANGED <<published, lost, retired>>,
         TestedPlaced(s), ok \in {"ready", "build"} => Unpublished(s)
  PROVE  WorkInv'
  <1>1. /\ pc' = first
        /\ w' = [state |-> s, slot |-> InactiveSlot(cache), ok |-> ok,
                 fail |-> fail]
    BY DEF Persist
  <1>2. w'.state = s /\ w'.ok = ok
    BY <1>1
  <1> QED BY <1>1, <1>2
          DEF WorkInv, FreshName, TestedPlaced, Placed, Unpublished

\* Steps that move on without a write.
LEMMA MovesKeepWork ==
  ASSUME Inv, HistoryInv, Moves
  PROVE  WorkInv'
  <1>1. WorkInv /\ HelperInv
    BY DEF HistoryInv, Inv
  <1>2. CASE StartSession \/ SessionEnds \/ BuildFails \/ Retire \/ Release
             \/ \E r \in Releases : AdmitUnchanged(r)
    BY <1>2, LeaveKeepsWork
    DEF StartSession, SessionEnds, BuildFails, Retire, Release, AdmitUnchanged
  <1>3. CASE Build
    <2>1. /\ pc' = "publish" /\ mem' = mem /\ w' = None
          /\ published' = published /\ BuildAuthority(mem) /\ Unpublished(mem)
          /\ mem = Current(cache)
      BY <1>1, <1>3 DEF Build, Goto, diskVars, WorkInv, HelperInv, Holding
    <2>2. mem.tx.repair \/ mem.tx.candidate \notin published
      <3> SUFFICES ASSUME ~mem.tx.repair, mem.tx.candidate = mem.committed
                   PROVE  FALSE
        BY <2>1 DEF Unpublished
      <3>1. mem.committed \in Releases /\ mem.highwater \in Releases
        BY <2>1, SlotInvFacts, StateFields
        DEF Inv, RecordInv, Selectable, Optional
      <3>2. SeqNo[mem.committed] \in Nat
        BY <3>1, ReleaseAssumption
      <3>3. SeqOf(mem.committed) <= SeqOf(mem.highwater)
        BY <2>1, SlotInvFacts DEF Inv, RecordInv, Floors
      <3> QED BY <2>1, <3>1, <3>2, <3>3, ReleaseAssumption
              DEF BuildAuthority, SeqOf
    <2> QED BY <2>1, <2>2 DEF WorkInv, FreshName, Unpublished
  <1>4. CASE Publish \/ Replace
    <2>1. /\ pc' = "check" /\ mem' = mem /\ w' = None
          /\ mem.tx.candidate \in published'
      BY <1>4 DEF Publish, Replace, Goto
    <2> QED BY <2>1 DEF WorkInv, FreshName, Placed
  <1> QED BY <1>2, <1>3, <1>4 DEF Moves

\* A transaction that is begun has no generation yet.
LEMMA RequestsKeepWork ==
  ASSUME Inv, HistoryInv,
         \/ \E r \in Releases : Admit(r)
         \/ \E r \in Releases, id \in Ids : BeginUpdate(r, id) \/ BeginRepair(r, id)
  PROVE  WorkInv'
  <1> DEFINE s == Current(cache)
  <1>1. RecordInv(s) /\ s \in States /\ PublishedInv(s) /\ WorkInv /\ TypeOK
    BY SlotInvFacts DEF Inv, HistoryInv
  <1>2. ASSUME NEW r \in Releases, Admit(r)
        PROVE  WorkInv'
    <2>1. /\ Persist("write", Admitted(s, r), "admitted", "off")
          /\ UNCHANGED <<published, lost, retired>>
      BY <1>2 DEF Admit, HelperWrite, diskVars, envVars
    <2>2. Admitted(s, r).tx = None
      BY <1>1 DEF Admitted, States
    <2>3. TestedPlaced(Admitted(s, r))
      BY <2>2 DEF TestedPlaced
    <2> HIDE DEF s
    <2> QED BY <2>1, <2>3, PersistKeepsWork DEF Arrivals
  <1>3. ASSUME NEW r \in Releases, NEW id \in Ids, NEW repair \in BOOLEAN,
               BeginWith(r, repair, id)
        PROVE  WorkInv'
    <2> DEFINE t == Begun(s, r, id, repair)
    <2>1. BeginChecked(s, r, repair) /\ UNCHANGED <<published, lost, retired>>
      BY <1>3 DEF BeginWith, envVars
    <2>2. CASE ~ValidTransition(s, t)
      BY <1>3, <2>2, LeaveKeepsWork DEF BeginWith
    <2>3. CASE ValidTransition(s, t)
      <3>1. BeginStep(s, t)
        BY <2>1, <2>3 DEF BeginStep
      <3>2. Persist("write", t, "ready", "off")
        BY <1>3, <2>3 DEF BeginWith, HelperWrite
      <3>3. t.tx # None /\ t.tx.stage = "ADMITTED" /\ t.committed = s.committed
        BY <1>1, <3>1, BeginSeen
      <3> HIDE DEF t
      <3>4. TestedPlaced(t)
        BY <3>3 DEF TestedPlaced
      <3>5. Unpublished(t)
        <4>1. PICK q \in Releases :
                /\ \/ SeqNo[q] > SeqNo[s.observed]
                   \/ q = s.observed /\ (s.failed # q \/ q = s.committed)
                /\ \/ t.tx.repair /\ q = s.committed
                   \/ SeqNo[q] > SeqNo[s.observed] \/ s.failed # q
                /\ t.tx.candidate = q
          BY <1>1, <3>1, <3>3, BeginSeen DEF Trial
        <4>2. s.tx = None /\ s.observed \in Releases
          BY <1>1, <2>1, StateFields
          DEF BeginChecked, RecordInv, Selectable, Ancillary, Trying, Optional
        <4>3. SeqNo[q] \in Nat /\ SeqNo[s.observed] \in Nat
          BY <4>2, ReleaseAssumption
        <4> HIDE DEF s
        <4>4. ASSUME q \in published, ~t.tx.repair
              PROVE  q = s.committed
          BY <1>1, <4>1, <4>2, <4>3, <4>4 DEF PublishedInv, Known
        <4> QED BY <3>3, <4>1, <4>4 DEF Unpublished
      <3> QED BY <2>1, <3>2, <3>4, <3>5, PersistKeepsWork DEF Arrivals
    <2> QED BY <2>2, <2>3
  <1> QED BY <1>2, <1>3 DEF BeginUpdate, BeginRepair

\* What is written next says that the candidate was tested only if it was.
LEMMA HelperWritesKeepWork ==
  ASSUME Inv, HistoryInv, HelperWrites
  PROVE  WorkInv'
  <1>1. /\ WorkInv /\ HelperInv /\ RecordInv(Current(cache))
        /\ Current(cache) \in States /\ PlacedInv(Current(cache))
    BY SlotInvFacts DEF Inv, HistoryInv
  <1>2. UNCHANGED <<published, lost, retired>>
    BY DEF HelperWrites, ApplyRejected, Apply, Check, SelfTestFails, Quiesce,
           StartProbation, Commit, Abort, diskVars, envVars
  <1>3. CASE ApplyRejected \/ SelfTestFails \/ Abort \/ Commit
    <2>1. PICK s \in {Aborted(mem), Committed(mem)} :
             Persist("write", s, "off", "off")
      BY <1>3 DEF ApplyRejected, SelfTestFails, Abort, Commit, HelperWrite
    <2>2. mem \in States
      BY <1>1, <1>3
      DEF ApplyRejected, SelfTestFails, Abort, Commit, HelperInv, Holding,
          Abortable, RecordInv, Selectable
    <2>3. s.tx = None
      BY <2>1, <2>2 DEF Aborted, Committed, Prune, States
    <2>4. TestedPlaced(s)
      BY <2>3 DEF TestedPlaced
    <2> QED BY <1>2, <2>1, <2>4, PersistKeepsWork DEF Arrivals
  <1>4. CASE Apply \/ Check \/ Quiesce \/ StartProbation
    <2>1. mem = Current(cache) /\ mem.phase \in {"PREPARING", "QUIESCING"}
      BY <1>1, <1>4
      DEF Apply, Check, Quiesce, StartProbation, HelperInv, Holding, Holds
    <2>2. mem.tx \in Transactions /\ mem.tx # None
      BY <1>1, <2>1, StateFields DEF RecordInv, Ancillary, Trying, Optional
    <2>3. CASE Apply
      <3>1. Persist("write", Building(mem), "build", "abort") /\ Unpublished(mem)
        BY <1>1, <2>3 DEF Apply, HelperWrite, WorkInv
      <3>2. /\ Building(mem).tx.stage = "BUILDING"
            /\ Building(mem).tx.repair = mem.tx.repair
            /\ Building(mem).tx.candidate = mem.tx.candidate
            /\ Building(mem).committed = mem.committed
        BY <1>1, <2>1, <2>2 DEF Building, States, Transactions
      <3>3. TestedPlaced(Building(mem)) /\ Unpublished(Building(mem))
        BY <3>1, <3>2 DEF TestedPlaced, Unpublished
      <3> QED BY <1>2, <3>1, <3>3, PersistKeepsWork DEF Arrivals
    <2>4. CASE Check \/ Quiesce \/ StartProbation
      <3>1. mem.tx.candidate \in Placed
        <4>1. CASE Check
          BY <1>1, <4>1 DEF Check, WorkInv
        <4>2. CASE Quiesce
          BY <1>1, <2>1, <2>2, <4>2
          DEF Quiesce, HelperInv, Holding, Holds, PlacedInv, TestedPlaced
        <4>3. CASE StartProbation
          <5>1. mem.phase = "QUIESCING"
            BY <1>1, <4>3 DEF StartProbation, HelperInv, Holding, Holds
          <5>2. mem.tx.stage = "QUIESCING"
            BY <1>1, <2>1, <2>2, <5>1 DEF RecordInv, Ancillary, StageOf
          <5> QED BY <1>1, <2>1, <2>2, <5>2 DEF PlacedInv, TestedPlaced
        <4> QED BY <2>4, <4>1, <4>2, <4>3
      <3>2. PICK s \in {Verified(mem), Quiescing(mem), Probation(mem)},
                 ok \in {"verified", "quiescing", "probation"},
                 fail \in {"off", "abort"} : Persist("write", s, ok, fail)
        BY <2>4 DEF Check, Quiesce, StartProbation, HelperWrite
      <3>3. /\ Verified(mem).tx.candidate = mem.tx.candidate
            /\ Quiescing(mem).tx.candidate = mem.tx.candidate
            /\ Probation(mem).tx.candidate = mem.tx.candidate
        BY <1>1, <2>1, <2>2
        DEF Verified, Quiescing, Probation, States, Transactions
      <3>4. TestedPlaced(s)
        BY <3>1, <3>2, <3>3 DEF TestedPlaced
      <3> QED BY <1>2, <3>2, <3>4, PersistKeepsWork DEF Arrivals
    <2> QED BY <1>4, <2>3, <2>4
  <1> QED BY <1>3, <1>4 DEF HelperWrites

\* A durable write carries the transaction along.
LEMMA WriteKeepsWork ==
  ASSUME Inv, HistoryInv, WriteStep \/ WriteFault
  PROVE  WorkInv'
  <1>1. WorkInv /\ HelperInv
    BY DEF HistoryInv, Inv
  <1>2. CASE WriteRefused \/ WriteFault
    <2>1. Goto(w.fail) /\ w.fail \in {"off", "abort"}
      BY <1>1, <1>2 DEF WriteRefused, WriteFault, HelperInv, Writes
    <2> QED BY <2>1, LeaveKeepsWork
  <1>3. CASE WriteSlot
    BY <1>1, <1>3
    DEF WriteSlot, WorkInv, FreshName, TestedPlaced, Placed, Unpublished,
        diskVars, envVars
  <1>4. CASE FlushSlot
    <2>1. /\ w.ok \in Arrivals /\ pc = "flush"
          /\ w.ok \in {"ready", "build"} => Unpublished(w.state)
      BY <1>1, <1>4 DEF FlushSlot, WorkInv
    <2>2. published' = published
      BY <1>4 DEF FlushSlot, diskVars
    <2>3. CASE Selects(cache, w.slot)
      <3>1. /\ pc' = w.ok /\ w' = None
            /\ w.ok \in {"ready", "build"} => mem' = w.state
        BY <1>4, <2>3 DEF FlushSlot
      <3> QED BY <2>1, <2>2, <3>1 DEF WorkInv, FreshName, Arrivals, Unpublished
    <2>4. CASE ~Selects(cache, w.slot)
      BY <1>1, <2>1, <2>4 DEF HelperInv
    <2> QED BY <2>3, <2>4
  <1> QED BY <1>2, <1>3, <1>4 DEF WriteStep

\* Recovery, a kill and the loss of a generation have no transaction in hand,
\* and recovery writes none.
LEMMA OthersKeepWork ==
  ASSUME Inv, HistoryInv,
         RecoveryStep \/ StartRecovery \/ Kill
           \/ \E r \in Releases : LoseGeneration(r)
  PROVE  WorkInv'
  <1>1. /\ WorkInv /\ HelperInv /\ Current(cache) \in States
    BY SlotInvFacts DEF HistoryInv, Inv
  <1>2. CASE StartRecovery \/ RecoverHealthy \/ RecoverNoBackup \/ Sync \/ Kill
    <2>1. Goto("recover") \/ Goto("off")
      BY <1>2 DEF StartRecovery, RecoverHealthy, RecoverNoBackup, RecoveryEnds,
                  Sync, Kill
    <2> QED BY <2>1, LeaveKeepsWork
  <1>3. CASE RecoveryWrites
    <2>1. PICK s \in {Aborted(Current(cache)), Cleaned(Current(cache)),
                      PostcommitRollback(Current(cache)),
                      PrecommitRollback(Current(cache)),
                      RolledBack(Current(cache))} :
             Persist("truncate", s, "recover", "off")
      BY <1>3
      DEF RecoveryWrites, RecoverMissing, RecoverPreparing, RecoverCleaning,
          RecoverInterrupted, RecoverRollingBack, RecoveryWrite
    <2>2. s.tx = None
      <3>1. ASSUME NEW u \in States
            PROVE  /\ Aborted(u).tx = None /\ Cleaned(u).tx = None
                   /\ PostcommitRollback(u).tx = None
                   /\ PrecommitRollback(u).tx = None /\ RolledBack(u).tx = None
        BY DEF Aborted, Cleaned, PostcommitRollback, PrecommitRollback,
               RolledBack, Prune, States
      <3> QED BY <1>1, <2>1, <3>1
    <2>3. UNCHANGED <<published, lost, retired>>
      BY <1>3
      DEF RecoveryWrites, RecoverMissing, RecoverPreparing, RecoverCleaning,
          RecoverInterrupted, RecoverRollingBack, diskVars, envVars
    <2>4. TestedPlaced(s)
      BY <2>2 DEF TestedPlaced
    <2> QED BY <2>1, <2>3, <2>4, PersistKeepsWork
  <1>4. CASE Truncate \/ Rewrite
    BY <1>1, <1>4
    DEF Truncate, Rewrite, WorkInv, FreshName, TestedPlaced, Placed, diskVars,
        envVars
  <1>5. CASE \E r \in Releases : LoseGeneration(r)
    <2>1. pc = "off" /\ pc' = "off"
      BY <1>5 DEF LoseGeneration, procVars
    <2> QED BY <2>1 DEF WorkInv, FreshName
  <1> QED BY <1>2, <1>3, <1>4, <1>5 DEF RecoveryStep, RecoveryWrites

\* The transaction in hand is accounted for after every step.
LEMMA WorkKept ==
  ASSUME Inv, HistoryInv, [ProcessNext]_vars
  PROVE  WorkInv'
  <1>1. CASE UNCHANGED vars
    BY <1>1
    DEF vars, procVars, diskVars, envVars, HistoryInv, WorkInv, FreshName,
        TestedPlaced, Placed, Unpublished
  <1>2. CASE ProcessNext
    <2>1. \/ Moves \/ WriteStep \/ WriteFault \/ HelperWrites
          \/ RecoveryStep \/ StartRecovery
          \/ Kill \/ (\E r \in Releases : LoseGeneration(r))
          \/ (\E r \in Releases : Admit(r))
          \/ (\E r \in Releases, id \in Ids :
                BeginUpdate(r, id) \/ BeginRepair(r, id))
      BY <1>2 DEF ProcessNext, SessionNext, Request, HelperStep, Fault, Moves,
                  HelperWrites
    <2> QED BY <2>1, MovesKeepWork, RequestsKeepWork, HelperWritesKeepWork,
               WriteKeepsWork, OthersKeepWork
  <1> QED BY <1>1, <1>2

(***************************************************************************)
(* Short slots and the report of recovery.                                 *)
(***************************************************************************)
\* Where a step of the helper or of recovery leads to.
LEMMA WhoIsRunning ==
  ASSUME Inv, [ProcessNext]_vars
  PROVE  /\ pc \in HelperPcs => pc' \in HelperPcs \cup {"off"}
         /\ pc \in RecoveryPcs => pc' \in RecoveryPcs \cup {"off"}
         /\ pc = "off" /\ pc' # "off" => StartSession \/ StartRecovery
  <1>1. HelperInv
    BY DEF Inv
  <1>2. CASE WriteStep \/ WriteFault
    <2>1. pc \in {"write", "flush"} /\ pc' \in {"flush", w.ok, w.fail}
      BY <1>2 DEF WriteStep, WriteRefused, WriteSlot, FlushSlot, WriteFault, Goto
    <2>2. /\ w.ok \in Holding \cup {"admitted", "off"}
          /\ w.fail \in {"off", "abort"}
      BY <1>1, <2>1 DEF HelperInv, Writes
    <2> QED BY <2>1, <2>2 DEF HelperPcs, RecoveryPcs, Holding
  <1>3. CASE RecoveryStep
    BY <1>3
    DEF RecoveryStep, RecoverHealthy, RecoverNoBackup, RecoverMissing,
        RecoverPreparing, RecoverCleaning, RecoverInterrupted,
        RecoverRollingBack, Recovering, RecoveryEnds, RecoveryWrite, Persist,
        Goto, Truncate, Rewrite, Sync, HelperPcs, RecoveryPcs
  <1>4. CASE Moves /\ ~StartSession
    BY <1>4
    DEF Moves, SessionEnds, Build, BuildFails, Publish, Retire, Replace,
        Release, AdmitUnchanged, Goto, HelperPcs, RecoveryPcs
  <1>5. CASE \/ HelperWrites \/ \E r \in Releases : Admit(r)
             \/ \E r \in Releases, id \in Ids :
                  BeginUpdate(r, id) \/ BeginRepair(r, id)
    BY <1>5
    DEF HelperWrites, ApplyRejected, Apply, Check, SelfTestFails, Quiesce,
        StartProbation, Commit, Abort, Admit, BeginUpdate, BeginRepair,
        BeginWith, HelperWrite, Persist, Goto, HelperPcs, RecoveryPcs
  <1>6. CASE Kill \/ (\E r \in Releases : LoseGeneration(r)) \/ UNCHANGED vars
    BY <1>6 DEF Kill, LoseGeneration, Goto, vars, procVars
  <1>7. CASE StartSession \/ StartRecovery
    BY <1>7 DEF StartSession, StartRecovery, HelperPcs, RecoveryPcs
  <1> QED BY <1>2, <1>3, <1>4, <1>5, <1>6, <1>7
          DEF ProcessNext, SessionNext, Request, HelperStep, Fault, Moves,
              HelperWrites


\* A recovery write starts from an ailing record.
LEMMA RecoveryWritesAiling ==
  ASSUME Inv, [ProcessNext]_vars, pc' \in {"truncate", "rewrite"}
  PROVE  /\ Current(cache') = Current(cache) /\ published' = published
         /\ pc \in {"truncate", "rewrite"} \/ Ailing(Current(cache))
  <1>1. SlotInv(cache) /\ HelperInv
    BY DEF Inv
  <1>2. CASE RecoveryWrites
    BY <1>2
    DEF RecoveryWrites, RecoverMissing, RecoverPreparing, RecoverCleaning,
        RecoverInterrupted, RecoverRollingBack, Recovering, slotVars, diskVars,
        Ailing
  <1>3. CASE Truncate
    BY <1>1, <1>3, SpoiltIgnored DEF Truncate, HelperInv, diskVars
  <1>4. CASE UNCHANGED vars
    BY <1>4 DEF vars, procVars, slotVars, diskVars
  <1>5. pc \in RecoveryPcs \/ StartRecovery \/ StartSession \/ UNCHANGED vars
    <2>1. pc' \notin HelperPcs /\ pc' # "off"
      BY DEF HelperPcs
    <2>2. pc \in HelperPcs \cup RecoveryPcs \cup {"off"}
      BY DEF Inv, TypeOK
    <2> QED BY <2>1, <2>2, WhoIsRunning
  <1>6. CASE StartRecovery \/ StartSession
    BY <1>6 DEF StartRecovery, StartSession, Goto
  <1>7. CASE pc \in RecoveryPcs /\ ~RecoveryWrites /\ ~Truncate /\ ~UNCHANGED vars
    <2>1. RecoveryStep \/ Kill
      BY <1>1, <1>7
      DEF ProcessNext, SessionNext, Request, HelperStep, Fault, WriteStep,
          StartSession, SessionEnds, AdmitUnchanged, Admit, BeginUpdate,
          BeginRepair, BeginWith, ApplyRejected, Apply, Abort, BuildFails,
          Build, Publish, Retire, Replace, Check, Release, SelfTestFails,
          Quiesce, StartProbation, Commit, StartRecovery, WriteRefused,
          WriteSlot, FlushSlot, WriteFault, LoseGeneration, RecoveryPcs
    <2> QED BY <1>7, <2>1
            DEF RecoveryStep, RecoveryWrites, RecoverHealthy, RecoverNoBackup,
                RecoveryEnds, Goto, Rewrite, Sync, Kill
  <1> QED BY <1>2, <1>3, <1>4, <1>5, <1>6, <1>7

\* No other step cuts a slot short, and the rewriting mends it.
LEMMA SlotsStayWhole ==
  ASSUME Inv, [ProcessNext]_vars, ~Openable(cache')
  PROVE  Truncate \/ (~Openable(cache) /\ ~Rewrite)
  <1>1. SlotInv(cache) /\ HelperInv /\ cache \in [Slots -> Frames]
    BY DEF Inv, SlotInv
  <1>2. \A s \in States : s # Short
    BY FrameAssumption
  <1>3. CASE cache' = cache /\ ~Rewrite
    BY <1>3
  <1>4. CASE WriteSlot \/ WriteFault \/ Kill
    <2>1. \/ w \in Writes /\ w.slot \in Slots /\ w.state \in States
          \/ cache' = cache
      BY <1>1, <1>4 DEF WriteSlot, WriteFault, Kill, HelperInv, Writes
    <2>2. cache' = cache \/ \E f \in {cache[w.slot], w.state, Torn} :
                              cache' = [cache EXCEPT ![w.slot] = f]
      BY <1>4 DEF WriteSlot, WriteFault, Kill
    <2>3. ~Openable(cache)
      BY <1>1, <1>2, <2>1, <2>2, FrameAssumption DEF Openable
    <2>4. ~Rewrite
      BY <1>4 DEF WriteSlot, WriteFault, Kill, Rewrite, Goto
    <2> QED BY <2>3, <2>4
  <1>5. CASE Rewrite
    <2>1. /\ w.slot = InactiveSlot(cache) /\ RecordStep(Current(cache), w.state)
          /\ cache' = [cache EXCEPT ![w.slot] = w.state]
      BY <1>1, <1>5 DEF Rewrite, HelperInv
    <2>2. /\ w.state \in States /\ Current(cache) \in States
          /\ w.slot \in Slots /\ cache[Other(w.slot)] = Current(cache)
      BY <1>1, <2>1, SlotInvFacts, StepsLegal DEF RecordInv, Selectable
    <2>3. Openable(cache')
      BY <1>1, <1>2, <2>1, <2>2 DEF Openable, Slots, Other
    <2> QED BY <2>3
  <1>6. cache' = cache \/ WriteSlot \/ Rewrite \/ Truncate \/ WriteFault \/ Kill
    BY DEF vars, slotVars, ProcessNext, SessionNext, Request, HelperStep, Fault,
           RecoveryStep, WriteStep, StartSession, SessionEnds, AdmitUnchanged,
           Admit, HelperWrite, BeginUpdate, BeginRepair, BeginWith,
           ApplyRejected, Apply, Abort, BuildFails, Build, Publish, Retire,
           Replace, Check, Release, SelfTestFails, Quiesce, StartProbation,
           Commit, StartRecovery, RecoveryEnds,
           RecoverHealthy, RecoverNoBackup, RecoverMissing, RecoverPreparing,
           RecoverCleaning, RecoverInterrupted, RecoverRollingBack, Sync,
           WriteRefused, FlushSlot, LoseGeneration
  <1> QED BY <1>3, <1>4, <1>5, <1>6

\* A slot is short only while recovery writes it, or after it died there.
LEMMA ShortKept ==
  ASSUME Inv, HistoryInv, [ProcessNext]_vars
  PROVE  ShortInv'
  <1>1. /\ ShortInv /\ HelperInv /\ pc \in HelperPcs \cup RecoveryPcs \cup {"off"}
    BY DEF HistoryInv, Inv, TypeOK
  <1>2. ASSUME pc' \in {"truncate", "rewrite"}
        PROVE  Ailing(Current(cache))'
    <2>1. /\ Current(cache') = Current(cache) /\ published' = published
          /\ Ailing(Current(cache))
      BY <1>1, <1>2, RecoveryWritesAiling DEF ShortInv
    <2> QED BY <2>1 DEF Ailing, CommittedPresent
  <1>3. ASSUME ~Openable(cache')
        PROVE  pc' \notin HelperPcs /\ Ailing(Current(cache))'
    <2>1. CASE Truncate
      <3>1. pc' = "rewrite"
        BY <2>1 DEF Truncate
      <3> QED BY <1>2, <3>1 DEF HelperPcs
    <2>2. CASE ~Openable(cache) /\ ~Rewrite
      <3>1. pc \in RecoveryPcs \cup {"off"} /\ Ailing(Current(cache))
        BY <1>1, <2>2 DEF ShortInv
      <3>2. pc \notin {"write", "publish", "replace"}
        BY <3>1 DEF RecoveryPcs
      <3>3. Current(cache') = Current(cache) /\ published' \subseteq published
        BY <2>2, <3>2, CurrentMoves, HistoryMoves
      <3>4. pc' \notin HelperPcs
        <4>1. ~StartSession
          BY <2>2 DEF StartSession
        <4>2. RecoveryPcs \cap HelperPcs = {} /\ "off" \notin HelperPcs
          BY DEF RecoveryPcs, HelperPcs
        <4>3. StartRecovery => pc' = "recover"
          BY DEF StartRecovery, Goto
        <4>4. "recover" \in RecoveryPcs
          BY DEF RecoveryPcs
        <4> QED BY <3>1, <4>1, <4>2, <4>3, <4>4, WhoIsRunning
      <3> QED BY <3>1, <3>3, <3>4 DEF Ailing, CommittedPresent
    <2> QED BY <1>3, <2>1, <2>2, SlotsStayWhole
  <1> QED BY <1>2, <1>3 DEF ShortInv

\* Recovery gives up only on a generation that is lost or moved aside.
LEMMA ResultKept ==
  ASSUME Inv, HistoryInv, [ProcessNext]_vars
  PROVE  ResultInv'
  <1>1. ResultInv /\ PlacedInv(Current(cache))
    BY DEF HistoryInv
  <1>2. CASE StartSession \/ StartRecovery
    BY <1>2 DEF StartSession, StartRecovery, ResultInv, RecoveryHeals
  <1>3. CASE RecoverHealthy \/ RecoverNoBackup
    <2>1. pc' = "off" /\ retired' = retired /\ lost' = lost
      BY <1>3 DEF RecoverHealthy, RecoverNoBackup, RecoveryEnds, Goto, diskVars
    <2>2. result' = "repair" => lost # {} \/ retired # {}
      <3>1. CASE RecoverHealthy
        BY <3>1 DEF RecoverHealthy, RecoveryEnds
      <3>2. CASE RecoverNoBackup
        BY <1>1, <3>2
        DEF RecoverNoBackup, CommittedPresent, PlacedInv, Placed
      <3> QED BY <1>3, <3>1, <3>2
    <2> QED BY <2>1, <2>2 DEF ResultInv, RecoveryHeals
  <1>4. CASE \E r \in Releases : LoseGeneration(r)
    BY <1>1, <1>4 DEF LoseGeneration, procVars, ResultInv, RecoveryHeals
  <1>5. CASE /\ result' = result
             /\ UNCHANGED <<lost, retired, pc>> \/ pc # "off"
    BY <1>1, <1>5 DEF ResultInv, RecoveryHeals
  <1>6. \/ StartSession \/ StartRecovery \/ RecoverHealthy \/ RecoverNoBackup
        \/ (\E r \in Releases : LoseGeneration(r))
        \/ /\ result' = result
           /\ UNCHANGED <<lost, retired, pc>> \/ pc # "off"
    BY DEF vars, procVars, diskVars, envVars, ProcessNext, SessionNext, Request,
           HelperStep, Fault, RecoveryStep, WriteStep, SessionEnds,
           AdmitUnchanged, Admit, HelperWrite, BeginUpdate, BeginRepair,
           BeginWith, ApplyRejected, Apply, Abort, BuildFails, Build, Publish,
           Retire, Replace, Check, Release, SelfTestFails, Quiesce,
           StartProbation, Commit, RecoverMissing, RecoverPreparing,
           RecoverCleaning, RecoverInterrupted, RecoverRollingBack, Recovering,
           Truncate, Rewrite, Sync, WriteRefused, WriteSlot, FlushSlot,
           WriteFault, Kill
  <1> QED BY <1>2, <1>3, <1>4, <1>5, <1>6

(***************************************************************************)
(* The theorems.                                                           *)
(***************************************************************************)
\* What enrollment leaves: the baseline is published, and nothing has failed.
LEMMA InitHistory ==
  ASSUME Init
  PROVE  HistoryInv
  <1>1. Current(cache) = Enrolled(3, TRUE)
    BY InitCurrent
  <1> DEFINE s == Current(cache)
  <1>2. /\ s.committed = Baseline /\ s.previous = None /\ s.observed = Baseline
        /\ s.highwater = Baseline /\ s.failed = None /\ s.tx = None
        /\ s.rollback = None /\ s.complete
    BY <1>1 DEF Enrolled
  <1>3. /\ pc = "off" /\ published = {Baseline} /\ failures = {}
        /\ result = "none"
    BY DEF Init
  <1>4. Openable(cache)
    <2>1. Enrolled(2, FALSE) \in States /\ Enrolled(3, TRUE) \in States
      BY UpdaterAssumption DEF Enrolled, States, Phases, Optional
    <2>2. \A x \in Slots : cache[x] \in States
      BY <2>1 DEF Init
    <2> QED BY <2>2, FrameAssumption DEF Openable
  <1> HIDE DEF s
  <1>5. Noted(s) /\ FailuresInv(s) /\ PublishedInv(s) /\ PlacedInv(s)
    BY <1>2, <1>3 DEF Noted, FailuresInv, PublishedInv, Known, PlacedInv,
                      TestedPlaced, Placed
  <1>6. WorkInv /\ ResultInv
    BY <1>3 DEF WorkInv, FreshName, ResultInv, RecoveryHeals
  <1>7. ShortInv
    BY <1>3, <1>4 DEF ShortInv
  <1> QED BY <1>2, <1>5, <1>6, <1>7 DEF HistoryInv, s

\* The record's account of the releases holds in every run without power loss.
THEOREM HistoryHolds == ProcessSpec => [](Inv /\ HistoryInv)
  <1>1. Init => Inv /\ HistoryInv
    BY InitKeeps, InitHistory
  <1>2. Inv /\ HistoryInv /\ [ProcessNext]_vars => (Inv /\ HistoryInv)'
    BY StepKeeps, AccountKept, WorkKept, ShortKept, ResultKept DEF HistoryInv
  <1> QED BY <1>1, <1>2, PTL DEF ProcessSpec

\* A release durably recorded as failed is not tried again as an update, for
\* any number of tokens: unless a repair of it was committed since.
THEOREM FailedNotRetried == ProcessSpec => []NotRetried
  <1>1. Inv /\ HistoryInv => NotRetried
    <2> SUFFICES ASSUME Inv, HistoryInv, Current(cache).tx # None
                 PROVE  NotRetried
      BY DEF NotRetried
    <2> DEFINE s == Current(cache)
    <2>1. s.tx.candidate = s.observed /\ s.failed = None
      BY SlotInvFacts DEF Inv, RecordInv, Ancillary
    <2>2. s.observed # None
      BY SlotInvFacts DEF Inv, RecordInv, Selectable
    <2>3. s.tx.candidate \in failures => s.tx.repair \/ Repaired(s, s.tx.candidate)
      BY <2>1, <2>2 DEF HistoryInv, FailuresInv
    <2> QED BY <2>3 DEF NotRetried, Repaired
  <1> QED BY <1>1, HistoryHolds, PTL

\* The committed generation was published, and an update publishes to a name
\* nothing occupies.
THEOREM GenerationsAreKept == ProcessSpec => []GenerationsKept
  <1>1. Inv /\ HistoryInv => GenerationsKept
    BY DEF HistoryInv, PlacedInv, WorkInv, Placed, GenerationsKept,
           CommittedOnDisk
  <1> QED BY <1>1, HistoryHolds, PTL

\* Recovery gives up only where a generation is missing, and mends every slot
\* it may have cut short.
THEOREM RecoveryIsEffective == ProcessSpec => []RecoveryEffective
  <1>1. Inv /\ HistoryInv => RecoveryEffective
    BY DEF HistoryInv, ResultInv, ShortInv, Ailing, RecoveryEffective,
           ShortSlotHeals
  <1> QED BY <1>1, HistoryHolds, PTL

\* What a record owns under incoming/ and staging/ is carried along.
LEMMA ContainersKept ==
  ASSUME NEW s, NEW t, RecordInv(s), RecordStep(s, t),
         \/ s.phase \in {"PREPARING", "PROBATION"} /\ t.phase # "ROLLING_BACK"
         \/ s.phase \in {"IDLE", "CLEANING"} /\ t.phase = "ROLLING_BACK"
  PROVE  Containers(s) \subseteq Containers(t)
  <1>1. s \in States /\ RecordInv(t)
    BY StepsLegal DEF RecordInv, Selectable
  <1>2. CASE s.phase \in {"PREPARING", "PROBATION"} /\ t.phase # "ROLLING_BACK"
    <2>1. /\ s.tx \in Transactions /\ s.tx # None /\ s.rollback = None
          /\ s.cleanup = {}
      BY <1>1, <1>2, StateFields DEF RecordInv, Ancillary, Trying, Optional
    <2>2. Containers(s) = Scratch(s.tx)
      BY <2>1 DEF Containers
    <2>3. CASE StageStep(s, t)
      <3>1. t.tx # None /\ t.rollback = s.rollback
        BY <2>3, StageKeepsKind
      <3>2. t.tx.id = s.tx.id /\ (s.tx.staging => t.tx.staging)
        <4>1. /\ Building(s).tx.id = s.tx.id /\ Building(s).tx.staging
              /\ Verified(s).tx.id = s.tx.id
              /\ Verified(s).tx.staging = s.tx.staging
          BY <1>1, <2>1 DEF Building, Verified, States, Transactions
        <4>2. /\ Quiescing(s).tx.id = s.tx.id
              /\ Quiescing(s).tx.staging = s.tx.staging
              /\ Probation(s).tx.id = s.tx.id
              /\ Probation(s).tx.staging = s.tx.staging
          BY <1>1, <2>1 DEF Quiescing, Probation, States, Transactions
        <4> QED BY <2>3, <4>1, <4>2 DEF StageStep
      <3> QED BY <2>1, <2>2, <3>1, <3>2 DEF Containers, Scratch
    <2>4. CASE AbortStep(s, t) \/ CommitStep(s, t)
      <3>1. t.cleanup = Scratch(s.tx)
        BY <1>1, <2>1, <2>4
        DEF AbortStep, CommitStep, Aborted, Committed, Prune, States
      <3> QED BY <2>2, <3>1 DEF Containers
    <2>5. CASE RollbackStep(s, t)
      <3>1. t = PrecommitRollback(s)
        BY <1>2, <2>5 DEF RollbackStep
      <3> QED BY <1>1, <1>2, <3>1 DEF PrecommitRollback, Prune, States
    <2>6. ~AdmitStep(s, t) /\ ~BeginStep(s, t) /\ ~FinishStep(s, t)
      BY <1>2 DEF AdmitStep, AdmissionChanges, BeginStep, BeginChecked,
                  FinishStep
    <2> QED BY <2>3, <2>4, <2>5, <2>6 DEF RecordStep
  <1>3. CASE s.phase \in {"IDLE", "CLEANING"} /\ t.phase = "ROLLING_BACK"
    <2>1. s.tx = None /\ s.rollback = None
      BY <1>3 DEF RecordInv, Ancillary, Trying
    <2>2. RollbackStep(s, t)
      BY <1>1, <1>3
      DEF RecordStep, AdmitStep, AdmissionChanges, Admitted, BeginStep, Begun,
          StageStep, AbortStep, CommitStep, FinishStep, RolledBack, Cleaned,
          Prune, States
    <2>3. t = PostcommitRollback(s)
      BY <1>3, <2>2 DEF RollbackStep
    <2>4. t.rollback.scratch = s.cleanup
      BY <1>1, <2>3 DEF PostcommitRollback, Prune, States
    <2>5. t.rollback # None
      BY <1>1, <1>3 DEF RecordInv, Ancillary
    <2> QED BY <2>1, <2>4, <2>5 DEF Containers, Scratch
  <1> QED BY <1>2, <1>3

\* Aborts, commits and postcommit rollbacks carry every scratch container the
\* record owns into the next one.
THEOREM OwnershipIsKept == ProcessSpec => OwnershipKept
  <1> DEFINE Carried ==
        LET s == Current(cache)
            t == Current(cache')
        IN \/ s.phase \in {"PREPARING", "PROBATION"} /\ t.phase # "ROLLING_BACK"
           \/ s.phase \in {"IDLE", "CLEANING"} /\ t.phase = "ROLLING_BACK"
           => Containers(s) \subseteq Containers(t)
  <1>1. Inv /\ [ProcessNext]_vars => [Carried]_vars
    <2> SUFFICES ASSUME Inv, [ProcessNext]_vars
                 PROVE  Carried
      OBVIOUS
    <2>1. RecordInv(Current(cache))
      BY SlotInvFacts DEF Inv
    <2> QED BY <2>1, CurrentMoves, ContainersKept
  <1> QED BY <1>1, InvHolds, PTL DEF ProcessSpec, OwnershipKept


\* Where a release is above the committed one, and above the highwater unless
\* an admission raised it to the release, a transaction towards it is legal
\* and the builder accepts it.
LEMMA BeginBuildable ==
  ASSUME NEW s, RecordInv(s), s.phase = "IDLE", s.previous # s.committed,
         NEW r \in Releases, NEW id \in Ids, BeginChecked(s, r, FALSE),
         SeqNo[r] > SeqNo[s.committed],
         SeqNo[r] > SeqNo[s.observed] \/ r = s.observed,
         SeqNo[r] > SeqNo[s.highwater] \/ r = s.highwater
  PROVE  /\ ValidTransition(s, Begun(s, r, id, FALSE))
         /\ BuildAuthority(Building(Begun(s, r, id, FALSE)))
  <1> DEFINE t == Begun(s, r, id, FALSE)
             b == Building(t)
  <1>1. /\ s \in States /\ s.committed \in Releases /\ s.highwater \in Releases
        /\ s.observed \in Releases
    BY StateFields DEF RecordInv, Selectable, Optional
  <1>2. /\ SeqNo[r] \in Nat /\ SeqNo[s.committed] \in Nat
        /\ SeqNo[s.highwater] \in Nat /\ SeqNo[s.observed] \in Nat
        /\ SeqOf(r) = SeqNo[r] /\ SeqOf(s.committed) = SeqNo[s.committed]
        /\ SeqOf(s.highwater) = SeqNo[s.highwater]
        /\ SeqOf(s.observed) = SeqNo[s.observed]
    BY <1>1, ReleaseAssumption DEF SeqOf
  <1>3. /\ t.revision = s.revision + 1 /\ t.phase = "PREPARING"
        /\ t.committed = s.committed /\ t.previous = s.previous
        /\ t.highwater = s.highwater /\ t.observed = r /\ t.tx # None
        /\ t.tx.candidate = r /\ t.tx.old = s.committed
        /\ t.tx.stage = "ADMITTED" /\ ~t.tx.repair
    <2> DEFINE tx == [id |-> id, candidate |-> r, old |-> s.committed,
                      stage |-> "ADMITTED", staging |-> FALSE,
                      repair |-> FALSE]
    <2>1. tx \in Transactions
      BY <1>1 DEF Transactions, Stages, Optional
    <2>2. tx # None
      BY <2>1, NoneAssumption
    <2>3. t = Prune([s EXCEPT !.revision = @ + 1, !.phase = "PREPARING",
                              !.observed = r, !.failed = None, !.tx = tx,
                              !.cleanup = {}, !.rollback = None,
                              !.evidence = @ \cup {r}])
      BY DEF Begun
    <2> HIDE DEF t, tx
    <2>4. /\ t.revision = s.revision + 1 /\ t.phase = "PREPARING"
          /\ t.committed = s.committed /\ t.previous = s.previous
          /\ t.highwater = s.highwater /\ t.observed = r /\ t.tx = tx
      BY <1>1, <2>3 DEF Prune, States
    <2>5. /\ tx.candidate = r /\ tx.old = s.committed
          /\ tx.stage = "ADMITTED" /\ ~tx.repair
      BY DEF tx
    <2> QED BY <2>2, <2>4, <2>5
  <1> HIDE DEF t
  <1>4. ValidTransition(s, t)
    <2>1. r # None
      BY ReleaseAssumption
    <2>2. FloorsKept(s, t)
      BY <1>1, <1>2, <1>3, <2>1 DEF FloorsKept
    <2>3. Edge(s, t)
      BY <1>3 DEF Edge
    <2> QED BY <1>3, <2>2, <2>3 DEF ValidTransition
  <1>5. RecordInv(t) /\ t \in States /\ t.tx \in Transactions
    <2>1. BeginStep(s, t)
      BY <1>4 DEF BeginStep, t
    <2>2. RecordInv(t)
      BY <2>1, BeginPreserves
    <2> QED BY <1>3, <2>2, StateFields DEF RecordInv, Selectable, Optional
  <1>6. /\ RecordInv(b) /\ b.committed = s.committed /\ b.previous = s.previous
        /\ b.highwater = s.highwater /\ b.observed = r /\ b.tx # None
        /\ b.tx.candidate = r /\ b.tx.old = s.committed /\ ~b.tx.repair
    <2>1. StageStep(t, b)
      BY <1>3 DEF StageStep
    <2>2. RecordInv(b) /\ b.tx # None
      BY <1>5, <2>1, StagePreserves, StageSeen
    <2>3. /\ b.committed = t.committed /\ b.previous = t.previous
          /\ b.highwater = t.highwater /\ b.observed = t.observed
          /\ b.tx.candidate = t.tx.candidate /\ b.tx.old = t.tx.old
          /\ b.tx.repair = t.tx.repair
      BY <1>5 DEF Building, States, Transactions
    <2> QED BY <1>3, <2>2, <2>3
  <1> HIDE DEF b
  <1>7. SeqNo[s.committed] <= SeqNo[s.highwater]
    BY <1>1, <1>2 DEF RecordInv, Floors
  <1>8. {b.committed, b.previous, b.highwater, b.observed, b.tx.candidate}
           \ {None} \subseteq b.evidence
    BY <1>6 DEF RecordInv, Authenticated, Referenced
  <1>9. s.committed # None
    BY <1>1, ReleaseAssumption
  <1>10. ASSUME r = s.highwater
         PROVE  BuildAuthority(b)
    <2>1. SeqOf(s.committed) <= SeqOf(s.committed)
      BY <1>2
    <2>2. /\ SeqOf(s.committed) <= SeqOf(r) /\ SeqOf(r) > SeqOf(s.committed)
      BY <1>2
    <2> DEFINE floor == IF b.committed # None /\ b.highwater = b.tx.candidate
                        THEN b.committed ELSE b.highwater
    <2>3. floor = s.committed
      BY <1>6, <1>9, <1>10
    <2> HIDE DEF floor
    <2>4. /\ b.committed # None /\ b.tx.old = b.committed
          /\ b.observed = b.tx.candidate
          /\ SeqOf(b.committed) <= SeqOf(floor)
          /\ SeqOf(floor) <= SeqOf(b.observed)
          /\ SeqOf(b.tx.candidate) > SeqOf(floor)
          /\ b.previous # b.committed
      BY <1>6, <1>9, <2>1, <2>2, <2>3
    <2>5. {b.committed, b.previous, floor, b.observed, b.tx.candidate}
             \ {None} \subseteq b.evidence
      BY <1>6, <1>8, <2>3
    <2> QED BY <1>6, <2>4, <2>5 DEF BuildAuthority, floor
  <1>11. ASSUME SeqNo[r] > SeqNo[s.highwater]
         PROVE  BuildAuthority(b)
    <2>1. /\ SeqOf(s.committed) <= SeqOf(s.highwater) /\ r # s.highwater
          /\ SeqOf(s.highwater) <= SeqOf(r) /\ SeqOf(r) > SeqOf(s.highwater)
      BY <1>2, <1>7, <1>11
    <2> DEFINE floor == IF b.committed # None /\ b.highwater = b.tx.candidate
                        THEN b.committed ELSE b.highwater
    <2>3. floor = s.highwater
      BY <1>6, <1>9, <2>1
    <2> HIDE DEF floor
    <2>4. /\ b.committed # None /\ b.tx.old = b.committed
          /\ b.observed = b.tx.candidate
          /\ SeqOf(b.committed) <= SeqOf(floor)
          /\ SeqOf(floor) <= SeqOf(b.observed)
          /\ SeqOf(b.tx.candidate) > SeqOf(floor)
          /\ b.previous # b.committed
      BY <1>6, <1>9, <2>1, <2>3
    <2>5. {b.committed, b.previous, floor, b.observed, b.tx.candidate}
             \ {None} \subseteq b.evidence
      BY <1>6, <1>8, <2>3
    <2> QED BY <1>6, <2>4, <2>5 DEF BuildAuthority, floor
  <1> QED BY <1>2, <1>4, <1>10, <1>11 DEF b, t

\* From IDLE the next newer release can be begun and built, with or without
\* an admission first, whatever failed before.
THEOREM NextUpdateIsBuildable == ProcessSpec => []NextUpdateBuildable
  <1>1. ASSUME NEW s, RecordInv(s), FailuresInv(s), s.phase = "IDLE",
               s.previous # s.committed, NEW r \in Releases, NEW id \in Ids,
               SeqNo[r] > SeqNo[s.observed], s.complete
        PROVE  /\ BeginChecked(s, r, FALSE)
               /\ ValidTransition(s, Begun(s, r, id, FALSE))
               /\ BuildAuthority(Building(Begun(s, r, id, FALSE)))
               /\ AdmissionChanges(s, r)
               /\ LET u == Admitted(s, r) IN
                    /\ BeginChecked(u, r, FALSE)
                    /\ ValidTransition(u, Begun(u, r, id, FALSE))
                    /\ BuildAuthority(Building(Begun(u, r, id, FALSE)))
    <2> DEFINE u == Admitted(s, r)
    <2>1. /\ s \in States /\ s.committed \in Releases /\ s.complete
          /\ s.highwater \in Releases /\ s.observed \in Releases /\ r # None
      BY <1>1, StateFields, ReleaseAssumption
      DEF RecordInv, Selectable, Optional
    <2>2. /\ SeqNo[r] \in Nat /\ SeqNo[s.committed] \in Nat
          /\ SeqNo[s.highwater] \in Nat /\ SeqNo[s.observed] \in Nat
          /\ \A q \in Releases : SeqOf(q) = SeqNo[q]
      BY <2>1, ReleaseAssumption DEF SeqOf
    <2>3. SeqNo[r] > SeqNo[s.committed] /\ SeqNo[r] > SeqNo[s.highwater]
      BY <1>1, <2>1, <2>2 DEF RecordInv, Floors
    <2>4. BeginChecked(s, r, FALSE) /\ AntiDowngrade(s, r)
      BY <1>1, <2>1, <2>2, <2>3
      DEF BeginChecked, AntiDowngrade, AtFloor, AboveFloor
    <2>5. s.failed # r
      <3> SUFFICES ASSUME s.failed = r
                   PROVE  FALSE
        OBVIOUS
      <3>1. Known(s, r)
        BY <1>1, <2>1 DEF FailuresInv
      <3> QED BY <1>1, <2>2, <3>1 DEF Known
    <2>6. /\ u.revision = s.revision + 1 /\ u.complete /\ u.phase = "IDLE"
          /\ u.committed = s.committed /\ u.previous = s.previous
          /\ u.highwater = r /\ u.observed = r /\ u.failed = s.failed
          /\ u.tx = None /\ u.cleanup = {} /\ u.rollback = None
          /\ u.evidence = s.evidence \cup {r}
      BY <1>1, <2>1 DEF Admitted, States
    <2>7. AdmissionChanges(s, r)
      <3>1. ~AdmissionUnchanged(s, r)
        BY <1>1, <2>2 DEF AdmissionUnchanged
      <3> HIDE DEF u
      <3>2. FloorsKept(s, u)
        BY <1>1, <2>1, <2>2, <2>3, <2>6 DEF FloorsKept
      <3>3. AuthorityAdmission(s, u)
        BY <2>1, <2>2, <2>3, <2>6 DEF AuthorityAdmission
      <3>4. ValidTransition(s, u)
        BY <1>1, <2>6, <3>2, <3>3 DEF ValidTransition, Edge
      <3> QED BY <1>1, <2>1, <2>4, <2>5, <3>1, <3>4 DEF AdmissionChanges, u
    <2>8. RecordInv(u)
      BY <1>1, <2>7, AdmitPreserves DEF AdmitStep
    <2> HIDE DEF u
    <2>9. BeginChecked(u, r, FALSE)
      BY <2>1, <2>2, <2>3, <2>5, <2>6
      DEF BeginChecked, AntiDowngrade, AtFloor
    <2>10. /\ ValidTransition(u, Begun(u, r, id, FALSE))
           /\ BuildAuthority(Building(Begun(u, r, id, FALSE)))
      BY <1>1, <2>3, <2>6, <2>8, <2>9, BeginBuildable
    <2>11. /\ ValidTransition(s, Begun(s, r, id, FALSE))
           /\ BuildAuthority(Building(Begun(s, r, id, FALSE)))
      BY <1>1, <2>3, <2>4, BeginBuildable
    <2> QED BY <2>4, <2>7, <2>9, <2>10, <2>11 DEF u
  <1>2. Inv /\ HistoryInv => NextUpdateBuildable
    BY <1>1, SlotInvFacts DEF Inv, HistoryInv, NextUpdateBuildable
  <1> QED BY <1>2, HistoryHolds, PTL

(***************************************************************************)
(* Enrollment: the frames.                                                 *)
(***************************************************************************)
First == Enrolled(2, FALSE)
Mirror == Enrolled(3, TRUE)

\* Before the first committed record.
Initial(img) ==
  /\ img \in [Slots -> Frames]
  /\ \A x \in Slots : img[x] \in {Torn, Short, Enrolling}

\* A frame is useless, initial, or legal.
Framed(img) ==
  /\ img \in [Slots -> Frames]
  /\ \A x \in Slots : img[x] \in {Torn, Short, Enrolling} \/ RecordInv(img[x])

\* The two frames at each step of the first commit and its mirror.
Pair(f, g) == [x \in Slots |-> IF x = "a" THEN f ELSE g]

\* The record the slots are created with is one of them, and no committed one.
LEMMA EnrollingFacts ==
  /\ Enrolling \in States /\ Enrolling \in Frames /\ IsState(Enrolling)
  /\ Authenticated(Enrolling) /\ Enrolling.revision = 1
  /\ Enrolling.phase = "ENROLLING" /\ ~RecordInv(Enrolling)
  /\ Enrolling.highwater = None /\ Enrolling.observed = None
  <1>1. Enrolling = [revision |-> 1, complete |-> FALSE, phase |-> "ENROLLING",
                     committed |-> None, previous |-> None, highwater |-> None,
                     observed |-> None, failed |-> None, tx |-> None,
                     cleanup |-> {}, rollback |-> None, evidence |-> {Baseline}]
    <2> DEFINE e == Enrolled(1, FALSE)
    <2>1. e = [revision |-> 1, complete |-> FALSE, phase |-> "IDLE",
               committed |-> Baseline, previous |-> None,
               highwater |-> Baseline, observed |-> Baseline, failed |-> None,
               tx |-> None, cleanup |-> {}, rollback |-> None,
               evidence |-> {Baseline}]
      BY DEF Enrolled
    <2>2. Enrolling = [e EXCEPT !.phase = "ENROLLING", !.committed = None,
                                !.highwater = None, !.observed = None]
      BY DEF Enrolling
    <2> HIDE DEF e
    <2> QED BY <2>1, <2>2
  <1>2. /\ None \in Optional(Releases) /\ None \in Optional(Transactions)
        /\ None \in Optional(Rollbacks) /\ "ENROLLING" \in Phases
        /\ {Baseline} \in SUBSET Releases
    BY UpdaterAssumption DEF Optional, Phases
  <1>3. Enrolling \in States
    BY <1>1, <1>2 DEF States
  <1>4. /\ Enrolling.revision = 1 /\ Enrolling.phase = "ENROLLING"
        /\ Enrolling.committed = None /\ Enrolling.previous = None
        /\ Enrolling.highwater = None /\ Enrolling.observed = None
        /\ Enrolling.failed = None /\ Enrolling.tx = None
        /\ Enrolling.rollback = None
    BY <1>1
  <1>5. Authenticated(Enrolling)
    BY <1>4 DEF Authenticated, Referenced
  <1> QED BY <1>3, <1>4, <1>5, SlotFacts DEF RecordInv, Selectable

\* The first committed record succeeds it.
LEMMA FirstLegal ==
  /\ ValidTransition(Enrolling, First) /\ ValidTransition(First, Mirror)
  /\ First \in States /\ RecordInv(First) /\ First.revision = 2
  /\ Mirror \in States /\ RecordInv(Mirror) /\ Mirror.revision = 3
  /\ First.failed = None /\ Mirror.failed = None
  <1>1. /\ First.revision = 2 /\ First.phase = "IDLE" /\ First.failed = None
        /\ First.committed = Baseline /\ First.highwater = Baseline
        /\ Mirror.revision = 3 /\ Mirror.failed = None
    BY DEF First, Mirror, Enrolled
  <1>2. Baseline # None
    BY UpdaterAssumption, ReleaseAssumption
  <1>3. First \in States /\ RecordInv(First) /\ Mirror \in States /\ RecordInv(Mirror)
    BY EnrolledLegal DEF First, Mirror
  <1>4. FloorsKept(Enrolling, First)
    BY EnrollingFacts DEF FloorsKept
  <1>5. Edge(Enrolling, First)
    BY <1>1, <1>2, EnrollingFacts DEF Edge
  <1>6. ValidTransition(Enrolling, First)
    BY <1>1, <1>4, <1>5, EnrollingFacts DEF ValidTransition
  <1> QED BY <1>1, <1>3, <1>6, MirrorLegal DEF First, Mirror

\* What a pair of frames holds, and how a write changes it.
LEMMA PairFacts ==
  ASSUME NEW f, NEW g
  PROVE  /\ Pair(f, g)["a"] = f /\ Pair(f, g)["b"] = g
         /\ f \in Frames /\ g \in Frames => Pair(f, g) \in [Slots -> Frames]
         /\ \A h : /\ [Pair(f, g) EXCEPT !["a"] = h] = Pair(h, g)
                   /\ [Pair(f, g) EXCEPT !["b"] = h] = Pair(f, h)
  BY DEF Pair, Slots

\* Any two slots are such a pair.
LEMMA PairIs ==
  ASSUME NEW img \in [Slots -> Frames]
  PROVE  img = Pair(img["a"], img["b"])
  BY DEF Pair, Slots

\* An initial frame is selected if no committed record is beside it.
LEMMA InitialSelected ==
  ASSUME NEW img, Initial(img), NEW y \in Slots, img[y] = Enrolling
  PROVE  Selected(img) /\ Current(img) = Enrolling
  <1>1. PICK x \in Slots : Selects(img, x) /\ img[x] = Enrolling
    <2>1. CASE img[Other(y)] = Enrolling
      <3>1. img["a"] = Enrolling /\ img[Other("a")] = Enrolling /\ "a" \in Slots
        BY <2>1 DEF Slots, Other
      <3>2. Selects(img, "a")
        BY <3>1, EnrollingFacts DEF Selects
      <3> QED BY <3>1, <3>2
    <2>2. CASE img[Other(y)] \in {Torn, Short}
      BY <2>2, EnrollingFacts, SlotFacts DEF Selects
    <2> QED BY <2>1, <2>2, SlotFacts DEF Initial
  <1>2. Current(img) = Enrolling
    BY <1>1, OneActiveSlot DEF Initial
  <1> QED BY <1>1, <1>2 DEF Selected

\* Nothing succeeds to an initial frame by going back to it.
LEMMA InitialAlone ==
  ASSUME NEW img, Framed(img), NEW y \in Slots, Selects(img, y),
         img[y] = Enrolling
  PROVE  Initial(img)
  <1> DEFINE that == img[Other(y)]
  <1>1. SUFFICES ASSUME RecordInv(that) PROVE FALSE
    BY SlotFacts DEF Framed, Initial, Slots, Other
  <1>2. that \in States /\ that.phase # "ENROLLING" /\ that.revision \in Nat
    BY <1>1, StateFields DEF RecordInv, Selectable
  <1>3. ValidTransition(that, Enrolling)
    BY <1>1, <1>2, SlotFacts, EnrollingFacts DEF Selects
  <1>4. Edge(that, Enrolling)
    BY <1>3 DEF ValidTransition
  <1> HIDE DEF that
  <1> QED BY <1>2, <1>4, EnrollingFacts DEF Edge

\* What a selected image selects.
LEMMA SelectedKinds ==
  ASSUME NEW img, Framed(img), NEW y \in Slots, Selects(img, y)
  PROVE  /\ Current(img) = img[y] /\ ActiveSlot(img) = y
         /\ \/ SlotInv(img)
            \/ Initial(img) /\ Current(img) = Enrolling
  <1>1. Current(img) = img[y] /\ ActiveSlot(img) = y
    BY OneActiveSlot DEF Framed
  <1>2. img[y] = Enrolling \/ RecordInv(img[y])
    BY SlotFacts DEF Framed, Selects
  <1> QED BY <1>1, <1>2, InitialAlone DEF SlotInv, Framed

\* An initial image is not one of the updater's.
LEMMA InitialOrRecord ==
  ASSUME NEW img, SlotInv(img)
  PROVE  ~Initial(img)
  <1>1. PICK x \in Slots : RecordInv(img[x])
    BY DEF SlotInv
  <1>2. img[x] \in States
    BY <1>1 DEF RecordInv, Selectable
  <1> QED BY <1>1, <1>2, EnrollingFacts, SlotFacts DEF Initial, IsState

(***************************************************************************)
(* Enrollment: what a power loss leaves.                                   *)
(***************************************************************************)
\* An initial frame that is flushed is read back, or its neighbour is.
Anchored(x) == cache[x] = Enrolling /\ disk[x] = Enrolling
InitialKept ==
  /\ Initial(cache) /\ Initial(disk)
  /\ \A x \in Slots :
       disk[x] = Enrolling => cache[x] = Enrolling \/ Anchored(Other(x))

\* At most the slot that the flushed contents do not select is not flushed.
RecordKept ==
  /\ SlotInv(cache) /\ Selected(disk) /\ Framed(disk)
  /\ \A x \in Slots : Dirty(x) => ~Dirty(Other(x)) /\ Selects(disk, Other(x))

\* As long as no slot was written beside an unflushed one.
SafeInv ==
  ~unsafe => /\ InitialKept \/ RecordKept
             /\ pc \in {"flush", "rewrite", "sync"} => ~Dirty(Other(w.slot))

\* A write over the slot that is not selected keeps to this, if the other one
\* is flushed.
LEMMA WriteKeepsRecord ==
  ASSUME RecordKept, NEW x, x = InactiveSlot(cache), ~Dirty(Other(x)),
         NEW f, cache' = [cache EXCEPT ![x] = f], SlotInv(cache)', disk' = disk
  PROVE  RecordKept' /\ ~Dirty(Other(x))'
  <1> DEFINE y == Other(x)
  <1>1. /\ x \in Slots /\ y \in Slots /\ y # x /\ Other(y) = x
        /\ Selects(cache, y)
        /\ \A z \in Slots : z = x \/ z = y
    BY SlotInvFacts DEF RecordKept, InactiveSlot, Slots, Other
  <1>2. cache[y] = disk[y] /\ cache'[y] = cache[y]
    BY <1>1 DEF Dirty, RecordKept, SlotInv
  <1>3. Selects(disk, y)
    <2>1. CASE Dirty(x)
      BY <1>1, <2>1 DEF RecordKept
    <2>2. CASE ~Dirty(x)
      BY <1>1, <1>2, <2>2 DEF Selects, Dirty
    <2> QED BY <2>1, <2>2
  <1>4. ~Dirty(y)'
    BY <1>2 DEF Dirty
  <1>5. \A z \in Slots : Dirty(z)' => ~Dirty(Other(z))' /\ Selects(disk', Other(z))
    BY <1>1, <1>3, <1>4
  <1> QED BY <1>4, <1>5 DEF RecordKept

\* So does a flush, which leaves nothing behind.
LEMMA FlushKeepsRecord ==
  ASSUME SlotInv(cache), NEW x \in Slots, ~Dirty(Other(x)), Framed(cache),
         cache' = cache, disk \in [Slots -> Frames],
         disk' = [disk EXCEPT ![x] = cache[x]]
  PROVE  RecordKept' /\ disk' = cache
  <1>1. \A z \in Slots : disk'[z] = cache[z]
    BY DEF Dirty, Slots, Other
  <1>2. disk' = cache
    BY <1>1 DEF SlotInv
  <1> QED BY <1>2, SlotInvFacts, SlotFacts DEF RecordKept, Dirty

\* What an image of a power loss may have in a slot.
LEMMA ImageFrames ==
  ASSUME cache \in [Slots -> Frames], disk \in [Slots -> Frames],
         NEW img \in PowerLossImages(BeingWritten)
  PROVE  /\ img \in [Slots -> Frames]
         /\ \A x \in Slots :
              \/ img[x] \in {cache[x], disk[x]}
              \/ img[x] = Torn /\ (Dirty(x) \/ (pc = "write" /\ w.slot = x))
  <1>1. /\ img \in [Slots -> {cache[x] : x \in Slots} \cup {disk[x] : x \in Slots}
                             \cup {Torn}]
        /\ \A x \in Slots :
              \/ img[x] \in {cache[x], disk[x]}
              \/ img[x] = Torn /\ (Dirty(x) \/ x \in BeingWritten)
    BY DEF PowerLossImages
  <1>2. ({cache[x] : x \in Slots} \cup {disk[x] : x \in Slots} \cup {Torn})
          \subseteq Frames
    BY SlotFacts
  <1>3. img \in [Slots -> Frames]
    BY <1>1, <1>2
  <1>4. \A x : x \in BeingWritten => pc = "write" /\ w.slot = x
    BY DEF BeingWritten
  <1> QED BY <1>1, <1>3, <1>4

\* A power loss then leaves the record before or after the write in progress.
LEMMA RecordSurvives ==
  ASSUME RecordKept, ~Overtaking, pc = "write" => w.slot = InactiveSlot(cache),
         NEW img \in PowerLossImages(BeingWritten)
  PROVE  /\ Selected(img)
         /\ Current(img) \in {Current(disk), Current(cache)}
  <1>1. /\ img \in [Slots -> Frames] /\ cache \in [Slots -> Frames]
        /\ disk \in [Slots -> Frames]
        /\ \A x \in Slots :
             \/ img[x] \in {cache[x], disk[x]}
             \/ img[x] = Torn /\ (Dirty(x) \/ (pc = "write" /\ w.slot = x))
    <2>1. cache \in [Slots -> Frames] /\ disk \in [Slots -> Frames]
      BY DEF RecordKept, Framed, SlotInv
    <2> QED BY <2>1, ImageFrames
  <1>2. ASSUME NEW y \in Slots, NEW kept \in {cache, disk}, Selects(kept, y),
               img[y] = kept[y], img[Other(y)] \in {kept[Other(y)], Torn}
        PROVE  Selected(img) /\ Current(img) = Current(kept)
    <2>1. Selects(img, y)
      BY <1>2, SlotFacts DEF Selects
    <2> QED BY <1>1, <1>2, <2>1, OneActiveSlot DEF Selected
  <1>3. PICK y \in Slots : Selects(cache, y) /\ y = ActiveSlot(cache)
    BY SlotInvFacts DEF RecordKept
  <1>4. CASE \A x \in Slots : ~Dirty(x)
    <2>1. img[y] = cache[y] /\ img[Other(y)] \in {cache[Other(y)], Torn}
      BY <1>1, <1>3, <1>4, SlotFacts DEF Dirty, InactiveSlot
    <2> QED BY <1>2, <1>3, <2>1
  <1>5. CASE \E x \in Slots : Dirty(x)
    <2>1. PICK x \in Slots : Dirty(x)
      BY <1>5
    <2>2. ~Dirty(Other(x)) /\ Selects(disk, Other(x)) /\ Other(x) \in Slots
          /\ Other(x) # x /\ Other(Other(x)) = x /\ (y = x \/ y = Other(x))
      BY <2>1, SlotFacts DEF RecordKept, Slots, Other
    <2>3. ~(pc = "write" /\ w.slot = Other(x))
      BY <2>1, <2>2 DEF Overtaking
    <2>4. img[Other(x)] = disk[Other(x)] /\ cache[Other(x)] = disk[Other(x)]
      BY <1>1, <2>2, <2>3 DEF Dirty
    <2>5. CASE img[x] \in {disk[x], Torn}
      BY <1>2, <2>2, <2>4, <2>5
    <2>6. CASE img[x] = cache[x]
      BY <1>2, <1>3, <2>2, <2>4, <2>6
    <2> QED BY <1>1, <2>1, <2>5, <2>6
  <1> QED BY <1>4, <1>5

\* Before there is one, it leaves an initial frame wherever one was flushed.
LEMMA InitialSurvives ==
  ASSUME InitialKept, ~Overtaking, Selected(disk),
         pc = "write" => w.slot \in Slots /\ \A x \in Slots : cache[x] = Enrolling,
         NEW img \in PowerLossImages(BeingWritten)
  PROVE  Selected(img) /\ Current(img) = Current(disk)
  <1>1. /\ Initial(img)
        /\ \A x \in Slots :
             \/ img[x] \in {cache[x], disk[x]}
             \/ img[x] = Torn /\ (Dirty(x) \/ (pc = "write" /\ w.slot = x))
    <2>1. /\ cache \in [Slots -> Frames] /\ disk \in [Slots -> Frames]
          /\ \A x \in Slots : cache[x] \in {Torn, Short, Enrolling}
                             /\ disk[x] \in {Torn, Short, Enrolling}
      BY DEF InitialKept, Initial
    <2>2. /\ img \in [Slots -> Frames]
          /\ \A x \in Slots :
              \/ img[x] \in {cache[x], disk[x]}
              \/ img[x] = Torn /\ (Dirty(x) \/ (pc = "write" /\ w.slot = x))
      BY <2>1, ImageFrames
    <2>3. \A x \in Slots : img[x] \in {Torn, Short, Enrolling}
      BY <2>1, <2>2
    <2> QED BY <2>2, <2>3 DEF Initial
  <1>2. PICK y \in Slots : disk[y] = Enrolling
    <2>1. PICK y \in Slots : Selects(disk, y)
      BY DEF Selected
    <2> QED BY <2>1, SlotFacts DEF Selects, InitialKept, Initial
  <1>3. PICK z \in Slots : Anchored(z) /\ ~(pc = "write" /\ w.slot = z)
    <2>1. CASE pc = "write"
      <3>1. Other(w.slot) \in Slots /\ Other(w.slot) # w.slot
        BY <2>1, SlotFacts
      <3>2. cache[Other(w.slot)] = disk[Other(w.slot)]
        BY <2>1 DEF Overtaking, Dirty
      <3> QED BY <2>1, <3>1, <3>2 DEF Anchored
    <2>2. CASE pc # "write"
      BY <1>2, <2>2, SlotFacts DEF InitialKept, Anchored
    <2> QED BY <2>1, <2>2
  <1>4. img[z] = Enrolling
    BY <1>1, <1>3 DEF Anchored, Dirty
  <1>5. Selected(img) /\ Current(img) = Enrolling
    BY <1>1, <1>4, InitialSelected
  <1>6. Current(disk) = Enrolling
    BY <1>2, InitialSelected DEF InitialKept
  <1> QED BY <1>5, <1>6

(***************************************************************************)
(* Enrollment: the inductive invariant.                                    *)
(***************************************************************************)
DataOK ==
  /\ published \subseteq Releases /\ lost \subseteq Releases
  /\ retired \subseteq Releases /\ failures \subseteq Releases
  /\ scratch \subseteq Directories /\ used \subseteq Ids
  /\ result \in {"none", "converged", "repair"}
  /\ faults \in Nat /\ outages \in Nat /\ unsafe \in BOOLEAN

\* A slot file that does not exist holds nothing.
ImagesInv ==
  /\ Framed(cache) /\ Framed(disk)
  /\ files \subseteq Slots
  /\ \A x \in Slots \ files : cache[x] = Torn /\ disk[x] = Torn

\* Where nothing is being written.
Resting == {"off", "recover", "initial", "marker", "marking", "sealing",
            "slots"}
RestInv ==
  /\ pc \in Resting => mem = None /\ w = None
  /\ marker \in {"none", "torn", "ok"}
  /\ pc \in {"sealing", "slots"} => marker = "ok"

\* A slot is created or filled beside useless frames and initial ones.
Filling ==
  /\ pc \in {"create", "fill", "settle"}
  /\ Initial(cache) /\ mem = None /\ marker = "ok"
  /\ w.slot \in Slots /\ w.state = Enrolling
  /\ pc = "create" <=> w.slot \notin files
  /\ pc = "settle" <=> cache[w.slot] = Enrolling

\* The first commit and its mirror.
Writing(s, x, ok) == w = [state |-> s, slot |-> x, ok |-> ok, fail |-> "off"]

FirstWrite ==
  /\ Writing(First, "b", "mirror")
  /\ \/ pc = "write" /\ cache = Pair(Enrolling, Enrolling)
     \/ pc = "flush" /\ cache = Pair(Enrolling, First)

MirrorWrite ==
  /\ Writing(Mirror, "a", "copy") /\ disk["b"] = First
  /\ \/ pc = "write" /\ cache = Pair(Enrolling, First)
     \/ pc = "flush" /\ cache = Pair(Mirror, First)

Between ==
  \/ pc = "commit" /\ cache = Pair(Enrolling, Enrolling) /\ mem = None
  \/ pc = "mirror" /\ cache = Pair(Enrolling, First) /\ disk["b"] = First
  \/ pc = "copy" /\ cache = Pair(Mirror, First) /\ disk = cache

Committing ==
  marker = "ok" /\ files = Slots /\ (Between \/ FirstWrite \/ MirrorWrite)

\* Once there is a committed record, the updater's invariant.
EnrollControl == pc \in Resting \/ Filling \/ Committing \/ Inv

EnrollInv == DataOK /\ ImagesInv /\ RestInv /\ EnrollControl /\ SafeInv

\* Nothing is written beside what was flushed in an initial image.
LEMMA InitiallyKept ==
  ASSUME Initial(cache), Initial(disk), Framed(cache), Framed(disk),
         disk = cache
  PROVE  InitialKept
  BY DEF InitialKept

\* Setup has emptied the directory.
LEMMA EmptyKeeps ==
  ASSUME cache = NoSlots, disk = NoSlots, files = {}, marker = "none",
         pc = "off", mem = None, w = None, DataOK
  PROVE  EnrollInv
  <1>1. /\ cache \in [Slots -> Frames] /\ disk = cache
        /\ \A x \in Slots : cache[x] = Torn
    BY SlotFacts DEF NoSlots
  <1>2. Initial(cache) /\ Initial(disk) /\ Framed(cache) /\ Framed(disk)
    BY <1>1 DEF Initial, Framed
  <1>3. SafeInv
    BY <1>2, InitiallyKept DEF SafeInv, NoSlots
  <1>4. ImagesInv /\ RestInv /\ EnrollControl
    BY <1>1, <1>2 DEF ImagesInv, RestInv, EnrollControl, Resting
  <1> QED BY <1>3, <1>4 DEF EnrollInv

\* Steps that leave the slots alone, and those that write nothing next.
LEMMA StillSafe ==
  ASSUME SafeInv, UNCHANGED <<cache, disk>>, unsafe => unsafe',
         pc' \notin {"flush", "rewrite", "sync"}
  PROVE  SafeInv'
  <1>1. InitialKept' <=> InitialKept
    BY DEF InitialKept, Initial, Anchored
  <1>2. RecordKept' <=> RecordKept
    BY DEF RecordKept, Framed, SlotInv, Selected, Selects, Dirty
  <1> QED BY <1>1, <1>2 DEF SafeInv

\* Those steps keep the invariant, if they keep its control part.
LEMMA StillKeeps ==
  ASSUME EnrollInv, DataOK', UNCHANGED <<cache, disk, files>>,
         unsafe => unsafe',
         pc' \notin {"flush", "rewrite", "sync"}, RestInv', EnrollControl'
  PROVE  EnrollInv'
  <1>1. ImagesInv'
    BY DEF EnrollInv, ImagesInv, Framed
  <1>2. SafeInv'
    BY StillSafe DEF EnrollInv
  <1> QED BY <1>1, <1>2 DEF EnrollInv

\* So do those that come to rest.
LEMMA QuietKeeps ==
  ASSUME EnrollInv, DataOK', UNCHANGED <<cache, disk, files>>,
         unsafe => unsafe',
         pc' \in Resting, mem' = None, w' = None,
         marker' \in {"none", "torn", "ok"},
         pc' \in {"sealing", "slots"} => marker' = "ok"
  PROVE  EnrollInv'
  <1>1. RestInv' /\ EnrollControl' /\ pc' \notin {"flush", "rewrite", "sync"}
    BY DEF RestInv, EnrollControl, Resting
  <1> QED BY <1>1, StillKeeps

\* Before enrolling, between its parts, and when it has nothing to do.
MarkerStep == CreateMarker \/ WriteMarker \/ SealMarker \/ MarkerFault

LEMMA OutsideKeeps ==
  ASSUME EnrollInv,
         \/ EnrollAgain \/ StartEnrollment \/ MarkerStep
         \/ SlotsRefused \/ RecoverUnenrolled
  PROVE  EnrollInv'
  <1>1. pc \in Resting /\ mem = None /\ w = None /\ marker \in {"none", "torn", "ok"}
    BY DEF EnrollInv, RestInv, EnrollAgain, StartEnrollment, MarkerStep,
           CreateMarker, WriteMarker, SealMarker, MarkerFault, SlotsRefused,
           RecoverUnenrolled, RecoverUnselected, Recovering, Resting
  <1>2. /\ UNCHANGED <<cache, disk, unsafe, failures, published, scratch, used,
                       retired, outages, lost, files>>
        /\ result' \in {result, "repair"} /\ faults' \in {faults, faults + 1}
    BY DEF EnrollAgain, StartEnrollment, MarkerStep, CreateMarker, WriteMarker,
           SealMarker, MarkerFault, SlotsRefused,
           RecoverUnenrolled, RecoverUnselected, RecoveryEnds, enrollVars,
           vars, slotVars, diskVars, envVars
  <1>3. DataOK'
    BY <1>2 DEF EnrollInv, DataOK
  <1>4. /\ pc' \in Resting /\ mem' = None /\ w' = None
        /\ marker' \in {"none", "torn", "ok"}
        /\ pc' \in {"sealing", "slots"} => marker' = "ok"
    <2>1. CASE EnrollAgain
      BY <1>1, <2>1 DEF EnrollInv, RestInv, EnrollAgain, vars, procVars
    <2>2. CASE StartEnrollment
      BY <1>1, <2>2 DEF StartEnrollment, Goto, Resting
    <2>3. CASE MarkerStep \/ SlotsRefused
      BY <1>1, <2>3 DEF MarkerStep, CreateMarker, WriteMarker, SealMarker,
                        MarkerFault, SlotsRefused, enrollVars, Goto, Resting,
                        EnrollInv, RestInv
    <2>4. CASE RecoverUnenrolled
      BY <1>1, <2>4 DEF RecoverUnenrolled, RecoverUnselected, RecoveryEnds, Goto,
                        enrollVars, Resting
    <2> QED BY <2>1, <2>2, <2>3, <2>4
  <1> QED BY <1>2, <1>3, <1>4, QuietKeeps

\* Where the control point tells the part.
LEMMA WhichPart ==
  ASSUME EnrollInv
  PROVE  /\ pc \in {"create", "fill", "settle"} => Filling
         /\ pc \in {"commit", "mirror", "copy"} => Committing /\ Between
         /\ pc \in {"write", "flush"} => Inv \/ Committing
         /\ pc \in HelperPcs \cup RecoveryPcs =>
              pc \in {"write", "flush", "initial", "recover"} \/ Inv
  <1>1. Inv => pc \in HelperPcs \cup RecoveryPcs \cup {"off"}
    BY DEF Inv, TypeOK
  <1>2. Committing => pc \in {"commit", "mirror", "copy", "write", "flush"}
    BY DEF Committing, Between, FirstWrite, MirrorWrite
  <1>3. pc \in {"commit", "mirror", "copy"} /\ Committing => Between
    BY DEF Committing, FirstWrite, MirrorWrite
  <1>4. Filling => pc \in {"create", "fill", "settle"}
    BY DEF Filling
  <1> QED BY <1>1, <1>2, <1>3, <1>4
          DEF EnrollInv, EnrollControl, Resting, HelperPcs, RecoveryPcs

\* Before the first commit only initial frames were flushed.
LEMMA FillingSafe ==
  ASSUME SafeInv, Initial(cache), ~unsafe
  PROVE  InitialKept
  BY InitialOrRecord DEF SafeInv, RecordKept

\* A slot that holds no initial frame may hold any.
LEMMA SlotChanges ==
  ASSUME InitialKept, NEW x \in Slots, cache[x] # Enrolling,
         NEW f \in {Torn, Short, Enrolling},
         cache' = [cache EXCEPT ![x] = f], disk' = disk
  PROVE  InitialKept'
  <1>1. /\ Other(x) \in Slots /\ Other(x) # x /\ Other(Other(x)) = x
        /\ \A z \in Slots : z = x \/ z = Other(x)
    BY DEF Slots, Other
  <1>2. /\ cache'[x] = f /\ cache'[Other(x)] = cache[Other(x)]
    BY <1>1 DEF InitialKept, Initial
  <1>3. Initial(cache') /\ Initial(disk')
    BY EnrollingFacts, SlotFacts DEF InitialKept, Initial
  <1>4. disk[x] = Enrolling => Anchored(Other(x))
    BY <1>1 DEF InitialKept
  <1>5. disk[Other(x)] = Enrolling => cache[Other(x)] = Enrolling
    BY <1>1 DEF InitialKept, Anchored
  <1>6. \A z \in Slots : disk'[z] = Enrolling
          => cache'[z] = Enrolling \/ Anchored(Other(z))'
    BY <1>1, <1>2, <1>4, <1>5 DEF Anchored
  <1> QED BY <1>3, <1>6 DEF InitialKept

\* A step that fills a slot, or fails to.
LEMMA FillKeeps ==
  ASSUME EnrollInv, CreateSlot \/ FillSlot \/ SlotFault \/ KillEnrollment
  PROVE  EnrollInv'
  <1>1. Filling /\ pc \in {"create", "fill", "settle"}
    BY WhichPart DEF CreateSlot, FillSlot, SlotFault, KillEnrollment
  <1>2. /\ w.slot \in Slots /\ w.state = Enrolling /\ Initial(cache)
        /\ Framed(cache) /\ Framed(disk) /\ cache[w.slot] \in {Torn, Short, Enrolling}
    BY <1>1 DEF Filling, EnrollInv, ImagesInv, Initial
  <1>3. PICK f \in {Torn, Short, Enrolling} :
          /\ cache' = [cache EXCEPT ![w.slot] = f]
          /\ CreateSlot => f = Short
          /\ FillSlot => f = Enrolling
          /\ pc = "settle" => f = cache[w.slot]
    BY <1>1, <1>2 DEF CreateSlot, FillSlot, SlotFault, KillEnrollment
  <1>4. /\ disk' = disk /\ unsafe' \in BOOLEAN /\ (unsafe => unsafe')
        /\ UNCHANGED <<failures, published, scratch, used, retired, outages,
                       lost, result, marker>>
        /\ faults' \in Nat
        /\ files' = files \cup {w.slot}
    <2>1. /\ disk' = disk
          /\ UNCHANGED <<failures, published, scratch, used, retired, outages,
                         lost, result, marker>>
          /\ faults' \in Nat
      BY DEF CreateSlot, FillSlot, SlotFault, KillEnrollment, diskVars, envVars,
             enrollVars, EnrollInv, DataOK
    <2>2. files' = files \cup {w.slot}
      BY <1>1 DEF CreateSlot, FillSlot, SlotFault, KillEnrollment, enrollVars,
                  Filling
    <2>3. unsafe' \in BOOLEAN /\ (unsafe => unsafe')
      BY DEF CreateSlot, FillSlot, SlotFault, KillEnrollment, EnrollInv, DataOK,
             Dirty
    <2> QED BY <2>1, <2>2, <2>3
  <1>5. Initial(cache') /\ Framed(cache')
    BY <1>2, <1>3, EnrollingFacts, SlotFacts DEF Initial, Framed
  <1>6. DataOK'
    BY <1>4 DEF EnrollInv, DataOK
  <1>7. ImagesInv'
    BY <1>2, <1>3, <1>4, <1>5 DEF EnrollInv, ImagesInv, Framed
  <1>8. pc' \notin {"flush", "rewrite", "sync"}
    BY DEF CreateSlot, FillSlot, SlotFault, KillEnrollment, Goto
  <1>9. SafeInv'
    <2> SUFFICES ASSUME ~unsafe'
                 PROVE  InitialKept'
      BY <1>8 DEF SafeInv
    <2>1. InitialKept
      BY <1>2, <1>4, FillingSafe DEF EnrollInv
    <2>2. CASE pc = "settle"
      <3>1. cache' = cache
        BY <1>2, <1>3, <2>2 DEF Framed
      <3> QED BY <1>4, <2>1, <3>1 DEF InitialKept, Initial, Anchored
    <2>3. CASE pc # "settle"
      <3>1. cache[w.slot] # Enrolling
        BY <1>1, <2>3 DEF Filling
      <3> QED BY <1>2, <1>3, <1>4, <2>1, <3>1, SlotChanges
    <2> QED BY <2>2, <2>3
  <1>10. RestInv' /\ EnrollControl'
    <2>1. CASE CreateSlot
      <3>1. pc' = "fill" /\ w' = w /\ mem' = mem
        BY <2>1 DEF CreateSlot
      <3>2. cache'[w.slot] # Enrolling
        BY <1>2, <1>3, <2>1, EnrollingFacts, SlotFacts DEF Framed
      <3> QED BY <1>1, <1>2, <1>4, <1>5, <3>1, <3>2
              DEF RestInv, EnrollControl, Filling, EnrollInv, Resting
    <2>2. CASE FillSlot
      <3>1. pc' = "settle" /\ w' = w /\ mem' = mem /\ pc = "fill"
        BY <2>2 DEF FillSlot
      <3>2. cache'[w.slot] = Enrolling
        BY <1>2, <1>3, <2>2 DEF Framed
      <3> QED BY <1>1, <1>2, <1>4, <1>5, <3>1, <3>2
              DEF RestInv, EnrollControl, Filling, EnrollInv, Resting
    <2>3. CASE SlotFault \/ KillEnrollment
      <3>1. Goto("off")
        BY <2>3 DEF SlotFault, KillEnrollment
      <3> QED BY <1>4, <3>1 DEF Goto, RestInv, EnrollControl, EnrollInv, Resting
    <2> QED BY <2>1, <2>2, <2>3
  <1> QED BY <1>6, <1>7, <1>9, <1>10 DEF EnrollInv

\* A slot that was filled is flushed.
LEMMA SettleKeeps ==
  ASSUME EnrollInv, SettleSlot
  PROVE  EnrollInv'
  <1>1. Filling /\ pc = "settle"
    BY WhichPart DEF SettleSlot
  <1>2. /\ w.slot \in Slots /\ Initial(cache) /\ cache[w.slot] = Enrolling
        /\ Framed(cache) /\ Framed(disk) /\ marker = "ok" /\ mem = None
        /\ w.slot \in files
    BY <1>1 DEF Filling, EnrollInv, ImagesInv
  <1>3. /\ disk' = [disk EXCEPT ![w.slot] = Enrolling] /\ cache' = cache
        /\ UNCHANGED <<unsafe, failures, diskVars, envVars, marker, files>>
        /\ Goto("slots")
    BY <1>2 DEF SettleSlot
  <1>4. DataOK'
    BY <1>3 DEF EnrollInv, DataOK, diskVars, envVars
  <1>5. Framed(disk') /\ ImagesInv'
    BY <1>2, <1>3, EnrollingFacts DEF EnrollInv, ImagesInv, Framed
  <1>6. RestInv' /\ EnrollControl' /\ pc' = "slots"
    BY <1>2, <1>3 DEF Goto, RestInv, EnrollControl, Resting
  <1>7. SafeInv'
    <2> SUFFICES ASSUME ~unsafe'
                 PROVE  InitialKept'
      BY <1>6 DEF SafeInv
    <2>1. InitialKept
      BY <1>2, <1>3, FillingSafe DEF EnrollInv
    <2>2. /\ Other(w.slot) \in Slots /\ Other(w.slot) # w.slot
          /\ \A z \in Slots : z = w.slot \/ z = Other(w.slot)
      BY <1>2 DEF Slots, Other
    <2>3. Initial(disk')
      BY <1>3, <2>1, EnrollingFacts DEF InitialKept, Initial
    <2>4. disk'[w.slot] = Enrolling /\ disk'[Other(w.slot)] = disk[Other(w.slot)]
      BY <1>2, <1>3, <2>2 DEF Framed
    <2>5. \A z \in Slots : disk'[z] = Enrolling
            => cache'[z] = Enrolling \/ Anchored(Other(z))'
      BY <1>2, <1>3, <2>1, <2>2, <2>4, SlotFacts DEF InitialKept, Anchored
    <2> QED BY <1>2, <1>3, <2>3, <2>5 DEF InitialKept
  <1> QED BY <1>4, <1>5, <1>6, <1>7 DEF EnrollInv

\* Both slots are judged, or one of them is prepared.
LEMMA JudgeKeeps ==
  ASSUME EnrollInv, SlotsReady \/ PrepareSlot
  PROVE  EnrollInv'
  <1>1. /\ pc = "slots" /\ mem = None /\ marker = "ok" /\ Openable(cache)
        /\ Framed(cache) /\ files \subseteq Slots
        /\ \A x \in Slots \ files : cache[x] = Torn
    BY DEF SlotsReady, PrepareSlot, EnrollInv, RestInv, Resting, ImagesInv
  <1>2. /\ UNCHANGED <<cache, disk, unsafe, failures, diskVars, envVars, files,
                       marker>>
        /\ DataOK'
    BY DEF SlotsReady, PrepareSlot, slotVars, diskVars, envVars, enrollVars,
           EnrollInv, DataOK
  <1>3. CASE SlotsReady
    <2>1. BothInitial /\ pc' = "commit" /\ mem' = None
      BY <1>1, <1>3 DEF SlotsReady, Goto
    <2>2. PICK y \in Slots : Selects(cache, y)
      BY <2>1 DEF BothInitial, Selected
    <2>3. cache[y] = Enrolling
      BY <1>1, <2>1, <2>2, SelectedKinds DEF BothInitial
    <2>4. Initial(cache)
      BY <1>1, <2>2, <2>3, InitialAlone
    <2>5. \A x \in Slots : cache[x] = Enrolling
      BY <2>1, <2>4, SlotFacts DEF BothInitial, Valid, Initial
    <2>6. cache = Pair(Enrolling, Enrolling)
      BY <1>1, <2>5, PairIs DEF Framed, Slots
    <2>7. files = Slots
      BY <1>1, <2>1 DEF BothInitial
    <2>8. RestInv' /\ EnrollControl'
      BY <1>1, <1>2, <2>1, <2>6, <2>7
      DEF RestInv, Resting, EnrollControl, Committing, Between
    <2> QED BY <1>2, <2>1, <2>8, StillKeeps
  <1>4. CASE PrepareSlot
    <2>1. PICK x \in Unwritten :
            /\ pc' = IF x \in files THEN "fill" ELSE "create"
            /\ w' = [state |-> Enrolling, slot |-> x, ok |-> "off", fail |-> "off"]
      BY <1>4 DEF PrepareSlot
    <2>2. /\ x \in Slots /\ cache[x] # Enrolling
          /\ \A y \in Slots : y # x => cache[y] \in {Torn, Short, Enrolling}
          /\ cache[x] \in {Torn, Short}
      <3>1. CASE files = {}
        BY <1>1, <2>1, <3>1, SlotFacts, EnrollingFacts DEF Unwritten, Slots
      <3>2. CASE files # {}
        <4>1. x \in Slots /\ ~Valid(x) /\ cache[Other(x)] = Enrolling
          BY <2>1, <3>2 DEF Unwritten, Anchors
        <4>2. cache[x] \in {Torn, Short}
          BY <1>1, <4>1, EnrollingFacts, SlotFacts
          DEF Valid, Framed, RecordInv, Selectable
        <4>3. \A y \in Slots : y # x => y = Other(x)
          BY <4>1 DEF Slots, Other
        <4> QED BY <4>1, <4>2, <4>3, EnrollingFacts, SlotFacts
      <3> QED BY <3>1, <3>2
    <2>3. Initial(cache)
      BY <1>1, <2>2 DEF Initial, Framed
    <2>4. w'.slot = x /\ w'.state = Enrolling /\ mem' = None
      BY <1>1, <1>4, <2>1 DEF PrepareSlot
    <2>5. Filling'
      BY <1>1, <1>2, <2>1, <2>2, <2>3, <2>4 DEF Filling, Initial
    <2>6. RestInv' /\ EnrollControl'
      BY <1>1, <1>2, <2>1, <2>5 DEF RestInv, Resting, EnrollControl
    <2> QED BY <1>2, <2>1, <2>6, StillKeeps
  <1> QED BY <1>3, <1>4

\* The pair of frames tells which slot is written.
LEMMA PairSelects ==
  /\ Pair(Enrolling, Enrolling) \in [Slots -> Frames]
  /\ Current(Pair(Enrolling, Enrolling)) = Enrolling
  /\ InactiveSlot(Pair(Enrolling, Enrolling)) = "b"
  /\ SlotInv(Pair(Enrolling, First))
  /\ Current(Pair(Enrolling, First)) = First
  /\ InactiveSlot(Pair(Enrolling, First)) = "a"
  /\ SlotInv(Pair(Mirror, First))
  /\ Current(Pair(Mirror, First)) = Mirror
  /\ Selects(Pair(Enrolling, Enrolling), "a")
  /\ Selects(Pair(Enrolling, First), "b")
  /\ Selects(Pair(Mirror, First), "a")
  <1>1. /\ "a" \in Slots /\ "b" \in Slots /\ Other("a") = "b" /\ Other("b") = "a"
    BY DEF Slots, Other
  <1>2. /\ IsState(First) /\ IsState(Mirror) /\ First \in Frames /\ Mirror \in Frames
        /\ Authenticated(First) /\ Authenticated(Mirror)
    BY FirstLegal, SlotFacts DEF RecordInv
  <1>3. /\ Pair(Enrolling, Enrolling) \in [Slots -> Frames]
        /\ Pair(Enrolling, First) \in [Slots -> Frames]
        /\ Pair(Mirror, First) \in [Slots -> Frames]
    BY <1>2, PairFacts, EnrollingFacts
  <1>4. Selects(Pair(Enrolling, Enrolling), "a")
    BY <1>1, PairFacts, EnrollingFacts DEF Selects
  <1>5. Selects(Pair(Enrolling, First), "b")
    BY <1>1, <1>2, PairFacts, EnrollingFacts, FirstLegal DEF Selects
  <1>6. Selects(Pair(Mirror, First), "a")
    BY <1>1, <1>2, PairFacts, FirstLegal DEF Selects
  <1> QED BY <1>1, <1>3, <1>4, <1>5, <1>6, OneActiveSlot, PairFacts, FirstLegal
          DEF SlotInv, InactiveSlot

\* The first two committed records are formulated, and the copy ends.
LEMMA CommitKeeps ==
  ASSUME EnrollInv, CommitBaseline \/ MirrorBaseline \/ CopyBaseline
  PROVE  EnrollInv'
  <1>1. Committing /\ Between /\ marker = "ok" /\ files = Slots
    BY WhichPart DEF CommitBaseline, MirrorBaseline, CopyBaseline, Committing
  <1>2. CASE CommitBaseline
    <2>1. cache = Pair(Enrolling, Enrolling)
      BY <1>1, <1>2 DEF CommitBaseline, Between
    <2>2. /\ pc' = "write" /\ Writing(First, "b", "mirror")'
          /\ UNCHANGED <<cache, disk, unsafe, failures, diskVars, envVars, files,
                         marker>>
      BY <1>2, <2>1, PairSelects
      DEF CommitBaseline, Persist, Writing, slotVars, enrollVars, First
    <2>3. DataOK'
      BY <2>2 DEF EnrollInv, DataOK, diskVars, envVars
    <2>4. RestInv' /\ EnrollControl'
      BY <1>1, <2>1, <2>2
      DEF RestInv, Resting, EnrollControl, Committing, FirstWrite
    <2> QED BY <2>2, <2>3, <2>4, StillKeeps
  <1>3. CASE MirrorBaseline
    <2>1. cache = Pair(Enrolling, First) /\ disk["b"] = First
      BY <1>1, <1>3 DEF MirrorBaseline, Between
    <2>2. /\ pc' = "write" /\ Writing(Mirror, "a", "copy")'
          /\ UNCHANGED <<cache, disk, unsafe, failures, diskVars, envVars, files,
                         marker>>
      BY <1>3, <2>1, PairSelects
      DEF MirrorBaseline, Persist, Writing, slotVars, enrollVars, Mirror
    <2>3. DataOK'
      BY <2>2 DEF EnrollInv, DataOK, diskVars, envVars
    <2>4. RestInv' /\ EnrollControl'
      BY <1>1, <2>1, <2>2
      DEF RestInv, Resting, EnrollControl, Committing, MirrorWrite
    <2> QED BY <2>2, <2>3, <2>4, StillKeeps
  <1>4. CASE CopyBaseline
    <2>1. /\ Goto("off") /\ UNCHANGED <<cache, disk, unsafe, files, marker>>
      BY <1>4 DEF CopyBaseline, slotVars
    <2>2. DataOK'
      BY <1>4, UpdaterAssumption DEF CopyBaseline, EnrollInv, DataOK, slotVars
    <2>3. pc' = "off" /\ mem' = None /\ w' = None
      BY <2>1 DEF Goto
    <2> QED BY <1>1, <2>1, <2>2, <2>3, QuietKeeps DEF Resting
  <1> QED BY <1>2, <1>3, <1>4

(***************************************************************************)
(* Enrollment: the writes.                                                 *)
(***************************************************************************)
\* One slot changes, or is flushed.
LEMMA SlotMoves ==
  ASSUME ImagesInv, NEW x \in Slots, NEW f \in Frames,
         f \in {Torn, Short, Enrolling, cache[x]} \/ RecordInv(f),
         cache' = [cache EXCEPT ![x] = f],
         disk' \in {disk, [disk EXCEPT ![x] = cache[x]]},
         files \subseteq files', files' \subseteq Slots, cache' # cache => x \in files'
  PROVE  ImagesInv'
  <1>1. Framed(cache) /\ Framed(disk)
    BY DEF ImagesInv
  <1>2. Framed(cache')
    BY <1>1 DEF Framed
  <1>3. Framed(disk')
    BY <1>1 DEF Framed
  <1>4. \A y \in Slots : y # x => cache'[y] = cache[y] /\ disk'[y] = disk[y]
    BY <1>1 DEF Framed
  <1>5. x \notin files' => cache'[x] = cache[x] /\ disk'[x] \in {disk[x], cache[x]}
    BY <1>1 DEF Framed
  <1>6. \A y \in Slots \ files' : cache'[y] = Torn /\ disk'[y] = Torn
    BY <1>4, <1>5 DEF ImagesInv
  <1> QED BY <1>2, <1>3, <1>6 DEF ImagesInv

\* A write to the inactive slot beside a flushed one keeps what a power loss
\* leaves, whatever it leaves in that slot.
LEMMA SlotWritten ==
  ASSUME SafeInv, SlotInv(cache), NEW x, x = w.slot, x = InactiveSlot(cache),
         NEW f, cache' = [cache EXCEPT ![x] = f], disk' = disk,
         SlotInv(cache)', ~unsafe' => ~unsafe /\ ~Dirty(Other(x)),
         w' = w \/ pc' \notin {"flush", "rewrite", "sync"}
  PROVE  SafeInv'
  <1> SUFFICES ASSUME ~unsafe'
               PROVE  /\ RecordKept'
                      /\ (pc \in {"flush", "rewrite", "sync"} => ~Dirty(Other(w.slot)))'
    BY DEF SafeInv
  <1>1. RecordKept
    BY InitialOrRecord DEF SafeInv, InitialKept
  <1>2. RecordKept' /\ ~Dirty(Other(x))'
    BY <1>1, WriteKeepsRecord
  <1>3. w' = w => ~Dirty(Other(w.slot))'
    BY <1>2
  <1> QED BY <1>2, <1>3

\* So does a flush.
LEMMA SlotFlushed ==
  ASSUME SafeInv, SlotInv(cache), Framed(cache), disk \in [Slots -> Frames],
         pc \in {"flush", "sync"}, w.slot \in Slots, cache' = cache,
         disk' = [disk EXCEPT ![w.slot] = cache[w.slot]], unsafe' = unsafe,
         pc' \notin {"flush", "rewrite", "sync"}
  PROVE  SafeInv'
  BY FlushKeepsRecord DEF SafeInv

\* The helper's steps at a write.
LEMMA AtWrite ==
  ASSUME ProcessNext, pc \in {"write", "flush"}
  PROVE  WriteStep \/ WriteFault \/ Kill
  BY DEF ProcessNext, SessionNext, Request, HelperStep, Fault,
           RecoveryStep, WriteStep, StartSession, SessionEnds, AdmitUnchanged,
           Admit, BeginUpdate, BeginRepair, BeginWith,
           ApplyRejected, Apply, Abort, BuildFails, Build, Publish, Retire,
           Replace, Check, Release, SelfTestFails, Quiesce, StartProbation,
           Commit, StartRecovery, Recovering,
           RecoverHealthy, RecoverNoBackup, RecoverMissing, RecoverPreparing,
           RecoverCleaning, RecoverInterrupted, RecoverRollingBack, Sync,
           Truncate, Rewrite, LoseGeneration

\* What enrollment writes, and where.
LEMMA EnrollWrites ==
  ASSUME Committing, pc \in {"write", "flush"}
  PROVE  /\ w.slot \in Slots /\ w.state \in {First, Mirror} /\ w.fail = "off"
         /\ \/ FirstWrite /\ w.state = First /\ w.slot = "b" /\ w.ok = "mirror"
            \/ MirrorWrite /\ w.state = Mirror /\ w.slot = "a" /\ w.ok = "copy"
         /\ pc = "write" => /\ w.slot = InactiveSlot(cache)
                            /\ WriteChecked(cache, w.state)
         /\ pc = "flush" => /\ Selects(cache, w.slot) /\ cache[w.slot] = w.state
                            /\ SlotInv(cache)
  <1>1. FirstWrite \/ MirrorWrite
    BY DEF Committing, Between
  <1>2. CASE FirstWrite
    <2>1. /\ w.state = First /\ w.slot = "b" /\ w.ok = "mirror" /\ w.fail = "off"
      BY <1>2 DEF FirstWrite, Writing
    <2>2. CASE pc = "write"
      <3>1. cache = Pair(Enrolling, Enrolling)
        BY <1>2, <2>2 DEF FirstWrite
      <3>2. Selected(cache)
        BY <3>1, PairSelects DEF Selected, Slots
      <3>3. WriteChecked(cache, First)
        BY <3>1, <3>2, PairSelects, FirstLegal, EnrollingFacts DEF WriteChecked
      <3> QED BY <1>2, <2>1, <2>2, <3>1, <3>3, PairSelects DEF Slots
    <2>3. CASE pc = "flush"
      <3>1. cache = Pair(Enrolling, First)
        BY <1>2, <2>3 DEF FirstWrite
      <3> QED BY <1>2, <2>1, <2>3, <3>1, PairSelects, PairFacts DEF Slots
    <2> QED BY <2>2, <2>3
  <1>3. CASE MirrorWrite
    <2>1. /\ w.state = Mirror /\ w.slot = "a" /\ w.ok = "copy" /\ w.fail = "off"
      BY <1>3 DEF MirrorWrite, Writing
    <2>2. CASE pc = "write"
      <3>1. cache = Pair(Enrolling, First)
        BY <1>3, <2>2 DEF MirrorWrite
      <3>2. Selected(cache)
        BY <3>1, PairSelects DEF Selected, Slots
      <3>3. WriteChecked(cache, Mirror)
        BY <3>1, <3>2, PairSelects, FirstLegal DEF WriteChecked
      <3> QED BY <1>3, <2>1, <2>2, <3>1, <3>3, PairSelects DEF Slots
    <2>3. CASE pc = "flush"
      <3>1. cache = Pair(Mirror, First)
        BY <1>3, <2>3 DEF MirrorWrite
      <3> QED BY <1>3, <2>1, <2>3, <3>1, PairSelects, PairFacts DEF Slots
    <2> QED BY <2>2, <2>3
  <1> QED BY <1>1, <1>2, <1>3

\* Where it is interrupted, the slot keeps its frame, has the new one, or is torn.
LEMMA FirstInterrupted ==
  ASSUME SafeInv, cache = Pair(Enrolling, Enrolling),
         NEW f \in {Enrolling, First, Torn}, cache' = Pair(Enrolling, f),
         disk' = disk, ~unsafe, ~Dirty("a")
  PROVE  (InitialKept \/ RecordKept)' /\ ~Dirty("a")'
  <1>1. /\ cache["a"] = Enrolling /\ cache["b"] = Enrolling
        /\ cache'["a"] = Enrolling /\ cache'["b"] = f
        /\ "a" \in Slots /\ "b" \in Slots /\ Other("a") = "b" /\ Other("b") = "a"
        /\ \A x \in Slots : x = "a" \/ x = "b"
    BY PairFacts DEF Slots, Other
  <1>2. Initial(cache)
    BY <1>1, PairSelects DEF Initial
  <1>3. InitialKept /\ Initial(disk)
    BY <1>2, FillingSafe DEF InitialKept
  <1>4. disk["a"] = Enrolling
    BY <1>1 DEF Dirty
  <1>5. ~Dirty("a")'
    BY <1>1, <1>4 DEF Dirty
  <1>6. CASE f \in {Enrolling, Torn}
    <2>1. Initial(cache')
      BY <1>1, <1>6, PairFacts, EnrollingFacts, SlotFacts DEF Initial
    <2>2. \A x \in Slots : disk'[x] = Enrolling
            => cache'[x] = Enrolling \/ Anchored(Other(x))'
      BY <1>1, <1>4 DEF Anchored
    <2> QED BY <1>3, <1>5, <2>1, <2>2 DEF InitialKept, Initial
  <1>7. CASE f = First
    <2>1. SlotInv(cache')
      BY <1>7, PairSelects
    <2>2. Selects(disk, "a")
      BY <1>1, <1>3, <1>4, EnrollingFacts, SlotFacts DEF Selects, Initial
    <2>3. Framed(disk)
      BY <1>3 DEF Initial, Framed
    <2>4. \A x \in Slots : Dirty(x)' => ~Dirty(Other(x))' /\ Selects(disk', Other(x))
      BY <1>1, <1>5, <2>2
    <2>5. RecordKept'
      BY <1>1, <2>1, <2>2, <2>3, <2>4 DEF RecordKept, Selected, Framed
    <2> QED BY <1>5, <2>5
  <1> QED BY <1>6, <1>7

\* A write of enrollment, to its flush or to where it was interrupted.
LEMMA EnrollWriteSafe ==
  ASSUME EnrollInv, Committing, pc = "write",
         NEW f \in {cache[w.slot], w.state, Torn},
         cache' = [cache EXCEPT ![w.slot] = f], disk' = disk,
         ~unsafe' => ~unsafe /\ ~Dirty(Other(w.slot)),
         w' = w \/ pc' \notin {"flush", "rewrite", "sync"}
  PROVE  SafeInv'
  <1>1. CASE FirstWrite
    <2>1. /\ w.slot = "b" /\ w.state = First /\ Other("b") = "a"
          /\ cache = Pair(Enrolling, Enrolling)
      BY <1>1 DEF FirstWrite, Writing, Other
    <2>2. cache' = Pair(Enrolling, f) /\ f \in {Enrolling, First, Torn}
      BY <2>1, PairFacts
    <2>3. SUFFICES ASSUME ~unsafe'
                   PROVE  /\ (InitialKept \/ RecordKept)'
                          /\ w' = w => ~Dirty(Other(w.slot))'
      BY DEF SafeInv
    <2>4. (InitialKept \/ RecordKept)' /\ ~Dirty("a")'
      BY <2>1, <2>2, <2>3, FirstInterrupted DEF EnrollInv
    <2> QED BY <2>1, <2>4
  <1>2. CASE MirrorWrite
    <2>1. /\ w.slot = "a" /\ w.state = Mirror /\ cache = Pair(Enrolling, First)
          /\ InactiveSlot(cache) = "a" /\ SlotInv(cache)
      BY <1>2, PairSelects DEF MirrorWrite, Writing
    <2>2. SlotInv(cache')
      <3>1. CASE f = Torn
        BY <2>1, <3>1, SpoiltIgnored
      <3>2. CASE f = cache[w.slot]
        BY <2>1, <3>2 DEF SlotInv
      <3>3. CASE f = Mirror
        <4>1. cache' = [Pair(Enrolling, First) EXCEPT !["a"] = Mirror]
          BY <2>1, <3>3
        <4>2. [Pair(Enrolling, First) EXCEPT !["a"] = Mirror] = Pair(Mirror, First)
          BY PairFacts
        <4> QED BY <4>1, <4>2, PairSelects
      <3> QED BY <2>1, <3>1, <3>2, <3>3
    <2> QED BY <2>1, <2>2, SlotWritten DEF EnrollInv
  <1> QED BY <1>1, <1>2, EnrollWrites

\* What a helper's step leaves of the files.
LEMMA FilesMove ==
  ASSUME FilesFollow, files \subseteq Slots, pc' = "rewrite" => w.slot \in Slots
  PROVE  /\ files \subseteq files' /\ files' \subseteq Slots /\ marker' = marker
         /\ cache' # cache => w.slot \in files'
  BY DEF FilesFollow

\* Enrollment's two writes keep the invariant, faults and kills included.
LEMMA EnrollWriteKeeps ==
  ASSUME EnrollInv, Committing, pc \in {"write", "flush"}, UpdaterStep
  PROVE  EnrollInv'
  <1>1. /\ w.slot \in Slots /\ w.state \in {First, Mirror} /\ w.fail = "off"
        /\ w.state \in Frames /\ RecordInv(w.state) /\ w.state.failed = None
        /\ w.ok \in {"mirror", "copy"}
        /\ pc = "write" => WriteChecked(cache, w.state)
        /\ pc = "flush" => /\ Selects(cache, w.slot) /\ cache[w.slot] = w.state
                           /\ SlotInv(cache)
    BY EnrollWrites, FirstLegal, SlotFacts
  <1>2. WriteStep \/ WriteFault \/ Kill
    BY AtWrite DEF UpdaterStep
  <1>3. /\ marker = "ok" /\ marker' = "ok" /\ files = Slots /\ files' = Slots
        /\ Framed(cache) /\ Framed(disk) /\ ImagesInv
    BY <1>1, FilesMove DEF UpdaterStep, Committing, EnrollInv, ImagesInv
  <1>4. CASE WriteSlot
    <2>1. /\ pc = "write" /\ pc' = "flush" /\ w' = w
          /\ cache' = [cache EXCEPT ![w.slot] = w.state] /\ disk' = disk
          /\ unsafe' = (unsafe \/ Dirty(Other(w.slot)))
          /\ UNCHANGED <<failures, diskVars, envVars>>
      BY <1>4 DEF WriteSlot
    <2>2. DataOK'
      BY <2>1 DEF EnrollInv, DataOK, diskVars, envVars, Dirty
    <2>3. ImagesInv'
      BY <1>1, <1>3, <2>1, SlotMoves
    <2>4. SafeInv'
      BY <2>1, EnrollWriteSafe
    <2>5. FirstWrite' \/ MirrorWrite'
      BY <2>1, EnrollWrites, PairFacts DEF FirstWrite, MirrorWrite, Writing
    <2>6. RestInv' /\ EnrollControl'
      BY <1>3, <2>1, <2>5 DEF RestInv, Resting, EnrollControl, Committing
    <2> QED BY <2>2, <2>3, <2>4, <2>6 DEF EnrollInv
  <1>5. CASE FlushSlot
    <2>1. /\ pc = "flush" /\ pc' = w.ok /\ cache' = cache /\ unsafe' = unsafe
          /\ disk' = [disk EXCEPT ![w.slot] = cache[w.slot]]
          /\ failures' = failures /\ UNCHANGED <<diskVars, envVars>>
      BY <1>1, <1>5 DEF FlushSlot
    <2>2. DataOK'
      BY <2>1 DEF EnrollInv, DataOK, diskVars, envVars
    <2>3. ImagesInv'
      <3>1. cache' = [cache EXCEPT ![w.slot] = w.state]
        BY <1>1, <1>3, <2>1 DEF Framed
      <3> QED BY <1>1, <1>3, <2>1, <3>1, SlotMoves
    <2>4. SafeInv'
      BY <1>1, <1>3, <2>1, SlotFlushed DEF EnrollInv, Framed
    <2>5. Between'
      <3>1. CASE FirstWrite
        BY <1>1, <1>3, <2>1, <3>1, PairFacts
        DEF FirstWrite, Writing, Between, Framed, Slots
      <3>2. CASE MirrorWrite
        <4>1. /\ pc' = "copy" /\ cache = Pair(Mirror, First) /\ disk["b"] = First
              /\ w.slot = "a"
          BY <2>1, <3>2 DEF MirrorWrite, Writing
        <4>2. disk'["a"] = Mirror /\ disk'["b"] = First /\ disk' \in [Slots -> Frames]
          BY <1>3, <2>1, <2>3, <4>1, PairFacts DEF Framed, Slots, ImagesInv
        <4>3. disk' = Pair(Mirror, First)
          BY <4>2, PairIs
        <4> QED BY <2>1, <4>1, <4>3 DEF Between
      <3> QED BY <3>1, <3>2, EnrollWrites
    <2>6. RestInv' /\ EnrollControl'
      BY <1>1, <1>3, <2>1, <2>5 DEF RestInv, Resting, EnrollControl, Committing
    <2> QED BY <2>2, <2>3, <2>4, <2>6 DEF EnrollInv
  <1>6. CASE WriteFault \/ Kill
    <2>1. /\ Goto("off") /\ disk' = disk /\ failures' = failures
          /\ UNCHANGED <<diskVars, outages, lost, result>> /\ faults' = faults + 1
      BY <1>1, <1>6 DEF WriteFault, Kill
    <2>2. PICK f \in {cache[w.slot], w.state, Torn} :
            /\ cache' = [cache EXCEPT ![w.slot] = f]
            /\ pc = "flush" => f = cache[w.slot]
      BY <1>1, <1>3, <1>6 DEF WriteFault, Kill, Framed
    <2>3. /\ unsafe' \in BOOLEAN /\ (unsafe => unsafe')
          /\ pc = "write" /\ ~unsafe' => ~Dirty(Other(w.slot))
      BY <1>1, <1>6 DEF WriteFault, Kill, Dirty, Overtaking, EnrollInv, DataOK
    <2>4. DataOK'
      BY <2>1, <2>3 DEF EnrollInv, DataOK, diskVars
    <2>5. ImagesInv'
      BY <1>1, <1>3, <2>1, <2>2, SlotFacts, SlotMoves DEF Framed
    <2>6. pc' = "off" /\ mem' = None /\ w' = None
      BY <2>1 DEF Goto
    <2>7. CASE pc = "write"
      <3>1. SafeInv'
        BY <2>1, <2>2, <2>3, <2>6, <2>7, EnrollWriteSafe
      <3>2. RestInv' /\ EnrollControl'
        BY <1>3, <2>6 DEF RestInv, EnrollControl, Resting
      <3> QED BY <2>4, <2>5, <3>1, <3>2 DEF EnrollInv
    <2>8. CASE pc = "flush"
      <3>1. cache' = cache
        BY <1>1, <1>3, <2>2, <2>8 DEF Framed
      <3> QED BY <1>3, <2>1, <2>3, <2>4, <2>6, <3>1, QuietKeeps DEF Resting
    <2> QED BY <2>7, <2>8
  <1>7. ~WriteRefused
    BY <1>1 DEF WriteRefused
  <1> QED BY <1>2, <1>4, <1>5, <1>6, <1>7 DEF WriteStep

(***************************************************************************)
(* Enrollment: the helper and recovery on an enrolled installation.        *)
(***************************************************************************)
\* The steps that touch a slot.
Touching == \/ WriteSlot \/ FlushSlot \/ WriteFault
            \/ Truncate \/ Rewrite \/ Sync \/ Kill

\* What the other ones do.
Leaving ==
  /\ UNCHANGED <<cache, disk, unsafe>>
  /\ pc' \notin {"flush", "rewrite", "sync"}
  /\ pc' \in Resting => mem' = None /\ w' = None

\* There are no others.
LEMMA StepShape ==
  ASSUME Inv, RestInv, ProcessNext
  PROVE  Touching \/ Leaving
  <1>1. CASE Moves
    <2>1. PICK p \in {"initial", "admitted", "publish", "check", "replace",
                      "selftest", "abort", "off"} :
            Goto(p) /\ (p = "initial" => pc = "off")
      BY <1>1 DEF Moves, StartSession, SessionEnds, Build, BuildFails, Publish,
             Retire, Replace, Release, AdmitUnchanged
    <2>2. UNCHANGED <<cache, disk, unsafe>>
      BY <1>1 DEF Moves, StartSession, SessionEnds, Build, BuildFails, Publish,
             Retire, Replace, Release, AdmitUnchanged, slotVars
    <2>3. pc' \in Resting => p \in {"initial", "off"}
      BY <2>1 DEF Goto, Resting
    <2>4. pc = "off" => mem = None
      BY DEF RestInv, Resting
    <2>5. pc' \in Resting => mem' = None /\ w' = None
      BY <2>1, <2>3, <2>4 DEF Goto
    <2>6. pc' \notin {"flush", "rewrite", "sync"}
      BY <2>1 DEF Goto
    <2> QED BY <2>2, <2>5, <2>6 DEF Leaving
  <1>2. CASE \/ HelperWrites \/ \E r \in Releases : Admit(r)
             \/ \E r \in Releases, id \in Ids :
                  BeginUpdate(r, id) \/ BeginRepair(r, id)
    <2>1. UNCHANGED <<cache, disk, unsafe>>
      BY <1>2 DEF HelperWrites, ApplyRejected, Apply, Check, SelfTestFails,
                  Quiesce, StartProbation, Commit, Abort, Admit, BeginUpdate,
                  BeginRepair, BeginWith, slotVars
    <2>2. pc' = "write" \/ Goto("off")
      BY <1>2 DEF HelperWrites, ApplyRejected, Apply, Check, SelfTestFails,
                  Quiesce, StartProbation, Commit, Abort, Admit, BeginUpdate,
                  BeginRepair, BeginWith, HelperWrite, Persist
    <2> QED BY <2>1, <2>2 DEF Leaving, Resting, Goto
  <1>3. CASE RecoveryStep /\ ~Truncate /\ ~Rewrite /\ ~Sync
    <2>1. UNCHANGED <<cache, disk, unsafe>>
      BY <1>3 DEF RecoveryStep, RecoverHealthy, RecoverNoBackup, RecoverMissing,
                  RecoverPreparing, RecoverCleaning, RecoverInterrupted,
                  RecoverRollingBack, RecoveryEnds, slotVars
    <2>2. pc' = "truncate" \/ Goto("off")
      BY <1>3 DEF RecoveryStep, RecoverHealthy, RecoverNoBackup, RecoverMissing,
                  RecoverPreparing, RecoverCleaning, RecoverInterrupted,
                  RecoverRollingBack, RecoveryEnds, RecoveryWrite, Persist
    <2> QED BY <2>1, <2>2 DEF Leaving, Resting, Goto
  <1>4. CASE StartRecovery \/ WriteRefused
    <2>1. UNCHANGED <<cache, disk, unsafe>>
      BY <1>4 DEF StartRecovery, WriteRefused, slotVars
    <2>2. PICK p \in {"recover", "off", "abort"} : Goto(p)
      BY <1>4 DEF StartRecovery, WriteRefused, Inv, HelperInv, Writes
    <2> QED BY <2>1, <2>2 DEF Leaving, Resting, Goto
  <1>5. CASE \E r \in Releases : LoseGeneration(r)
    <2>1. /\ UNCHANGED <<cache, disk, unsafe, pc, mem, w>> /\ pc = "off"
      BY <1>5 DEF LoseGeneration, slotVars, procVars
    <2> QED BY <2>1 DEF Leaving, RestInv, Resting
  <1>6. \/ Moves \/ WriteStep \/ WriteFault \/ HelperWrites
        \/ RecoveryStep \/ StartRecovery
        \/ Kill \/ (\E r \in Releases : LoseGeneration(r))
        \/ (\E r \in Releases : Admit(r))
        \/ (\E r \in Releases, id \in Ids :
              BeginUpdate(r, id) \/ BeginRepair(r, id))
    BY DEF ProcessNext, SessionNext, Request, HelperStep, Fault, Moves,
           HelperWrites
  <1> QED BY <1>1, <1>2, <1>3, <1>4, <1>5, <1>6 DEF Touching, WriteStep

\* Where such a step goes, and which slot it touches.
LEMMA TouchedSlot ==
  ASSUME Inv, Touching
  PROVE  /\ pc \in {"write", "flush", "truncate", "rewrite", "sync"} =>
              w \in Writes /\ w.slot \in Slots /\ w.state \in States
         /\ pc' \in Resting => mem' = None /\ w' = None
         /\ pc' = "rewrite" => Truncate
         /\ pc' \in {"flush", "rewrite", "sync"} => w' = w
  <1>1. /\ pc \in {"write", "flush", "truncate", "rewrite", "sync"} =>
             w \in Writes /\ w.slot \in Slots /\ w.state \in States
        /\ pc \in {"write", "flush"} =>
             /\ w.ok \in Holding \cup {"admitted", "off"}
             /\ w.fail \in {"off", "abort"}
        /\ pc = "flush" => Selects(cache, w.slot)
    BY DEF Inv, HelperInv, Writes
  <1>2. CASE WriteSlot
    BY <1>1, <1>2 DEF WriteSlot, Resting
  <1>3. CASE FlushSlot
    <2>1. pc' \in Holding \cup {"admitted", "off"} /\ w' = None
          /\ mem' = IF pc' = "off" THEN None ELSE w.state
      BY <1>1, <1>3 DEF FlushSlot
    <2> QED BY <1>1, <2>1 DEF Resting, Holding
  <1>4. CASE WriteFault \/ Kill
    <2>1. PICK p \in {"off", "abort"} : Goto(p)
      BY <1>1, <1>4 DEF WriteFault, Kill
    <2> QED BY <1>1, <2>1 DEF Goto, Resting
  <1>5. CASE Truncate \/ Rewrite \/ Sync
    BY <1>1, <1>5 DEF Truncate, Rewrite, Sync, Goto, Resting
  <1> QED BY <1>1, <1>2, <1>3, <1>4, <1>5 DEF Touching

\* What such a step does: nothing, a flush, or a write to the inactive slot.
Spared ==
  /\ UNCHANGED <<cache, disk>> /\ (unsafe => unsafe')
  /\ pc' \notin {"flush", "rewrite", "sync"}

Flushing ==
  /\ pc \in {"flush", "sync"} /\ cache' = cache /\ unsafe' = unsafe
  /\ disk' = [disk EXCEPT ![w.slot] = cache[w.slot]]
  /\ pc' \notin {"flush", "rewrite", "sync"}

Touched(f) ==
  /\ f \in {Torn, Short, cache[w.slot]} \/ RecordInv(f)
  /\ w.slot = InactiveSlot(cache)
  /\ cache' = [cache EXCEPT ![w.slot] = f] /\ disk' = disk
  /\ ~unsafe' => ~unsafe /\ ~Dirty(Other(w.slot))
  /\ w' = w \/ pc' \notin {"flush", "rewrite", "sync"}

\* Those three are all.
LEMMA TouchingShape ==
  ASSUME Inv, SafeInv, unsafe \in BOOLEAN, Touching
  PROVE  Spared \/ Flushing \/ \E f : Touched(f)
  <1>1. /\ SlotInv(cache) /\ HelperInv /\ RecordInv(Current(cache))
        /\ cache \in [Slots -> Frames]
    BY SlotInvFacts DEF Inv
  <1>2. /\ pc \in {"write", "truncate", "rewrite"} => w.slot = InactiveSlot(cache)
        /\ pc \in {"truncate", "rewrite"} => RecordInv(w.state)
        /\ pc = "write" /\ WriteChecked(cache, w.state) => RecordInv(w.state)
    BY <1>1, AcceptedWrite, StepsLegal DEF HelperInv
  <1>3. pc = "flush" => /\ cache[w.slot] = w.state /\ w.slot \in Slots
                        /\ w.ok \notin {"flush", "rewrite", "sync"}
                        /\ w.fail \in {"off", "abort"} /\ Selects(cache, w.slot)
    BY <1>1 DEF HelperInv, Writes, Holding
  <1>4. CASE WriteSlot
    <2>1. Touched(w.state)
      BY <1>2, <1>4 DEF WriteSlot, Touched, Dirty
    <2> QED BY <2>1
  <1>5. CASE FlushSlot
    <2>1. Flushing
      BY <1>3, <1>5 DEF FlushSlot, Flushing
    <2> QED BY <2>1
  <1>6. CASE WriteFault
    <2>1. PICK f \in {cache[w.slot], w.state, Torn} :
            /\ f = Torn => pc = "write"
            /\ cache' = [cache EXCEPT ![w.slot] = f]
      BY <1>6 DEF WriteFault
    <2>2. PICK p \in {"off", "abort"} : Goto(p)
      BY <1>1, <1>6 DEF WriteFault, HelperInv, Writes
    <2>3. CASE pc = "flush"
      <3>1. cache' = cache
        BY <1>1, <1>3, <2>1, <2>3
      <3>2. Spared
        BY <1>6, <2>2, <3>1 DEF WriteFault, Spared, Goto
      <3> QED BY <3>2
    <2>4. CASE pc = "write"
      <3>1. Touched(f)
        BY <1>2, <1>6, <2>1, <2>2, <2>4 DEF WriteFault, Touched, Goto, Dirty
      <3> QED BY <3>1
    <2> QED BY <1>6, <2>3, <2>4 DEF WriteFault
  <1>7. CASE Kill
    <2>1. CASE cache' = cache
      <3>1. Spared
        BY <1>7, <2>1 DEF Kill, Spared, Goto
      <3> QED BY <3>1
    <2>2. CASE cache' # cache
      <3>1. PICK f \in {cache[w.slot], Torn} :
              pc = "write" /\ cache' = [cache EXCEPT ![w.slot] = f]
        BY <1>7, <2>2 DEF Kill
      <3>2. Touched(f)
        BY <1>2, <1>7, <3>1 DEF Kill, Touched, Goto, Overtaking, Dirty
      <3> QED BY <3>2
    <2> QED BY <2>1, <2>2
  <1>8. CASE Truncate
    <2>1. Touched(Short)
      BY <1>2, <1>8 DEF Truncate, Touched, Dirty
    <2> QED BY <2>1
  <1>9. CASE Rewrite
    <2>1. ~unsafe => ~Dirty(Other(w.slot))
      BY <1>9 DEF Rewrite, SafeInv
    <2>2. Touched(w.state)
      BY <1>2, <1>9, <2>1 DEF Rewrite, Touched
    <2> QED BY <2>2
  <1>10. CASE Sync
    <2>1. Flushing
      BY <1>10 DEF Sync, Flushing, Goto
    <2> QED BY <2>1
  <1> QED BY <1>4, <1>5, <1>6, <1>7, <1>8, <1>9, <1>10 DEF Touching

\* So once there is a committed record, all steps of helper and recovery keep
\* the invariant.
LEMMA InvStepKeeps ==
  ASSUME EnrollInv, Inv, UpdaterStep
  PROVE  EnrollInv'
  <1>1. /\ ProcessNext /\ FilesFollow /\ DataOK /\ ImagesInv /\ RestInv /\ SafeInv
        /\ Framed(cache) /\ Framed(disk) /\ files \subseteq Slots
        /\ cache \in [Slots -> Frames] /\ disk \in [Slots -> Frames]
        /\ SlotInv(cache) /\ unsafe \in BOOLEAN
    BY DEF EnrollInv, UpdaterStep, ImagesInv, Framed, Inv, TypeOK
  <1>2. Inv' /\ SlotInv(cache)'
    BY <1>1, StepKeeps DEF Inv
  <1>3. DataOK' /\ EnrollControl'
    BY <1>2 DEF DataOK, EnrollControl, Inv, TypeOK
  <1>4. Touching \/ Leaving
    BY <1>1, StepShape
  <1>5. /\ pc' \in Resting => mem' = None /\ w' = None
        /\ pc' = "rewrite" => w.slot \in Slots
    BY <1>4, TouchedSlot DEF Leaving, Truncate
  <1>6. /\ files \subseteq files' /\ files' \subseteq Slots /\ marker' = marker
        /\ cache' # cache => w.slot \in files'
    BY <1>1, <1>5, FilesMove
  <1>7. RestInv'
    <2>1. pc' \notin {"sealing", "slots"}
      BY <1>2 DEF Inv, TypeOK, HelperPcs, RecoveryPcs
    <2> QED BY <1>1, <1>5, <1>6, <2>1 DEF RestInv
  <1>8. CASE UNCHANGED <<cache, disk>> /\ (unsafe => unsafe')
             /\ pc' \notin {"flush", "rewrite", "sync"}
    <2>1. ImagesInv'
      BY <1>1, <1>6, <1>8 DEF ImagesInv, Framed
    <2>2. SafeInv'
      BY <1>1, <1>8, StillSafe
    <2> QED BY <1>3, <1>7, <2>1, <2>2 DEF EnrollInv
  <1>9. CASE Flushing
    <2>1. w.slot \in Slots
      BY <1>9 DEF Flushing, Inv, HelperInv, Writes
    <2>2. cache' = [cache EXCEPT ![w.slot] = cache[w.slot]]
          /\ cache[w.slot] \in Frames
      BY <1>1, <1>9, <2>1 DEF Flushing
    <2>3. ImagesInv'
      BY <1>1, <1>6, <1>9, <2>1, <2>2, SlotMoves DEF Flushing
    <2>4. SafeInv'
      BY <1>1, <1>9, <2>1, SlotFlushed DEF Flushing
    <2> QED BY <1>3, <1>7, <2>3, <2>4 DEF EnrollInv
  <1>10. ASSUME NEW f, Touched(f)
         PROVE  EnrollInv'
    <2>1. w.slot \in Slots /\ w.slot = InactiveSlot(cache)
      BY <1>1, <1>10, SlotInvFacts DEF Touched
    <2>2. f \in Frames
      BY <1>1, <1>10, <2>1, SlotFacts DEF Touched, RecordInv, Selectable
    <2>3. ImagesInv'
      BY <1>1, <1>6, <1>10, <2>1, <2>2, SlotMoves DEF Touched
    <2>4. SafeInv'
      BY <1>1, <1>2, <1>10, <2>1, SlotWritten DEF Touched
    <2> QED BY <1>3, <1>7, <2>3, <2>4 DEF EnrollInv
  <1>11. Leaving \/ Spared \/ Flushing \/ \E f : Touched(f)
    BY <1>1, <1>4, TouchingShape
  <1> QED BY <1>8, <1>9, <1>10, <1>11 DEF Leaving, Spared

\* Before that, a helper or a recovery run finds nothing to do.
LEMMA EnrollingKilled ==
  ASSUME ProcessNext, pc \in EnrollPcs
  PROVE  Kill
  BY DEF EnrollPcs, ProcessNext, SessionNext, Request, HelperStep, Fault,
         RecoveryStep, WriteStep, WriteFault, WriteRefused, WriteSlot, FlushSlot,
         StartSession, SessionEnds, AdmitUnchanged,
         Admit, BeginUpdate, BeginRepair, BeginWith,
         ApplyRejected, Apply, Abort, BuildFails, Build, Publish, Retire,
         Replace, Check, Release, SelfTestFails, Quiesce, StartProbation,
         Commit, StartRecovery, Recovering,
         RecoverHealthy, RecoverNoBackup, RecoverMissing, RecoverPreparing,
         RecoverCleaning, RecoverInterrupted, RecoverRollingBack, Sync,
         Truncate, Rewrite, LoseGeneration

\* A session or a recovery run that finds no committed record only ends.
LEMMA NothingToDo ==
  ASSUME ProcessNext, pc \in {"off", "initial", "recover"},
         Selected(cache) => Current(cache).phase = "ENROLLING"
  PROVE  \/ StartSession \/ StartRecovery \/ SessionEnds \/ Kill
         \/ \E r \in Releases : LoseGeneration(r)
  BY DEF ProcessNext, SessionNext, Request, HelperStep, Fault,
         RecoveryStep, WriteStep, WriteFault, WriteRefused, WriteSlot, FlushSlot,
         AdmitUnchanged, AdmissionUnchanged, AdmissionChanges, BeginChecked,
         Admit, BeginUpdate, BeginRepair, BeginWith,
         ApplyRejected, Apply, Abort, BuildFails, Build, Publish, Retire,
         Replace, Check, Release, SelfTestFails, Quiesce, StartProbation,
         Commit, Recovering,
         RecoverHealthy, RecoverNoBackup, RecoverMissing, RecoverPreparing,
         RecoverCleaning, RecoverInterrupted, RecoverRollingBack, Sync,
         Truncate, Rewrite

\* At rest on a committed record, the updater's invariant holds.
LEMMA RestingInv ==
  ASSUME EnrollInv, pc \in {"off", "initial", "recover"}, SlotInv(cache)
  PROVE  Inv
  <1>1. mem = None /\ w = None
    BY DEF EnrollInv, RestInv, Resting
  <1>2. HelperInv
    BY DEF HelperInv, Holding
  <1>3. TypeOK
    BY <1>1 DEF TypeOK, EnrollInv, DataOK, ImagesInv, Framed, HelperPcs, RecoveryPcs,
           Optional
  <1> QED BY <1>2, <1>3 DEF Inv

\* A record that is selected is a committed one or the initial one.
LEMMA EnrollKinds ==
  ASSUME Framed(cache), Selected(cache)
  PROVE  \/ SlotInv(cache)
         \/ Initial(cache) /\ Current(cache) = Enrolling
  BY SelectedKinds DEF Selected

\* So neither breaks the invariant.
LEMMA IdleKeeps ==
  ASSUME EnrollInv, UpdaterStep,
         \/ pc \in EnrollPcs
         \/ pc \in {"off", "initial", "recover"} /\ ~SlotInv(cache)
  PROVE  EnrollInv'
  <1>1. /\ ProcessNext /\ FilesFollow /\ DataOK /\ RestInv /\ Framed(cache)
        /\ marker \in {"none", "torn", "ok"}
    BY DEF EnrollInv, UpdaterStep, ImagesInv, RestInv
  <1>2. \/ StartSession \/ StartRecovery \/ SessionEnds \/ Kill
        \/ \E r \in Releases : LoseGeneration(r)
    <2>1. CASE pc \in EnrollPcs
      BY <1>1, <2>1, EnrollingKilled
    <2>2. CASE pc \in {"off", "initial", "recover"} /\ ~SlotInv(cache)
      <3>1. Selected(cache) => Current(cache).phase = "ENROLLING"
        BY <1>1, <2>2, EnrollKinds, EnrollingFacts
      <3> QED BY <1>1, <2>2, <3>1, NothingToDo
    <2> QED BY <2>1, <2>2
  <1>3. CASE StartSession \/ StartRecovery \/ SessionEnds
    <2>1. /\ UNCHANGED <<cache, disk, unsafe, failures, published, scratch, used,
                         retired, faults, outages, lost>>
          /\ result' \in {result, "none"}
      BY <1>3 DEF StartSession, StartRecovery, SessionEnds, slotVars, diskVars,
                  envVars
    <2>2. PICK p \in {"off", "initial", "recover"} :
            Goto(p) /\ (p = "initial" => pc = "off")
      BY <1>3 DEF StartSession, StartRecovery, SessionEnds
    <2>3. pc' \in {"off", "initial", "recover"} /\ mem' = None /\ w' = None
      BY <1>1, <2>2 DEF Goto, RestInv, Resting
    <2>4. DataOK'
      BY <1>1, <2>1 DEF DataOK
    <2>5. files' = files /\ marker' = marker
      BY <1>1, <2>3 DEF FilesFollow
    <2> QED BY <1>1, <2>1, <2>3, <2>4, <2>5, QuietKeeps DEF Resting
  <1>4. CASE Kill
    <2>1. /\ UNCHANGED <<cache, disk, failures, published, scratch, used,
                         retired, outages, lost, result>>
          /\ faults' = faults + 1 /\ Goto("off")
          /\ unsafe' = (unsafe \/ Overtaking)
      BY <1>4 DEF Kill, diskVars, EnrollPcs
    <2>2. pc' = "off" /\ mem' = None /\ w' = None
      BY <2>1 DEF Goto
    <2>3. unsafe' = unsafe
      BY <1>1, <2>1 DEF Overtaking, EnrollPcs, DataOK
    <2>4. DataOK'
      BY <1>1, <2>1, <2>3 DEF DataOK
    <2>5. files' = files /\ marker' = marker
      BY <1>1, <2>2 DEF FilesFollow
    <2> QED BY <1>1, <2>1, <2>2, <2>3, <2>4, <2>5, QuietKeeps DEF Resting
  <1>5. CASE \E r \in Releases : LoseGeneration(r)
    <2>1. /\ UNCHANGED <<pc, mem, w, cache, disk, unsafe, failures, scratch, used,
                         retired, faults, outages, result>>
          /\ pc = "off" /\ published' \subseteq Releases /\ lost' \subseteq Releases
      BY <1>1, <1>5 DEF LoseGeneration, procVars, slotVars, DataOK
    <2>2. DataOK'
      BY <1>1, <2>1 DEF DataOK
    <2>3. files' = files /\ marker' = marker
      BY <1>1, <2>1 DEF FilesFollow
    <2> QED BY <1>1, <2>1, <2>2, <2>3, QuietKeeps DEF Resting, RestInv
  <1> QED BY <1>2, <1>3, <1>4, <1>5

\* Who holds the slots.
LEMMA WhoseTurn ==
  ASSUME EnrollInv
  PROVE  Inv \/ (Committing /\ pc \in {"write", "flush"}) \/ pc \in EnrollPcs
         \/ pc \in {"off", "initial", "recover"}
  BY DEF EnrollInv, EnrollControl, Resting, Filling, Committing, Between,
         FirstWrite, MirrorWrite, EnrollPcs

\* Whatever it is in the middle of.
LEMMA UpdaterKeeps ==
  ASSUME EnrollInv, UpdaterStep
  PROVE  EnrollInv'
  <1>1. CASE Inv
    BY <1>1, InvStepKeeps
  <1>2. CASE Committing /\ pc \in {"write", "flush"}
    BY <1>2, EnrollWriteKeeps
  <1>3. CASE pc \in EnrollPcs
    BY <1>3, IdleKeeps
  <1>4. CASE pc \in {"off", "initial", "recover"}
    BY <1>1, <1>4, IdleKeeps, RestingInv
  <1>5. Inv \/ (Committing /\ pc \in {"write", "flush"}) \/ pc \in EnrollPcs
        \/ pc \in {"off", "initial", "recover"}
    BY WhoseTurn
  <1> QED BY <1>1, <1>2, <1>3, <1>4, <1>5

\* write_state finds the slot file missing.
LEMMA MissingKeeps ==
  ASSUME EnrollInv, WriteMissing
  PROVE  EnrollInv'
  <1>1. /\ pc = "write" /\ Goto(w.fail) /\ cache' = cache
        /\ UNCHANGED <<slotVars, diskVars, envVars, enrollVars>>
    BY DEF WriteMissing, slotVars
  <1>2. Inv \/ Committing
    BY <1>1, WhichPart
  <1>3. w.slot \in Slots
    BY <1>1, <1>2, EnrollWrites DEF Inv, HelperInv, Writes
  <1>4. Inv
    BY <1>1, <1>2, <1>3 DEF WriteMissing, Committing
  <1>5. SlotInv(cache) /\ HelperInv /\ TypeOK /\ w.fail \in {"off", "abort"}
    BY <1>1, <1>4 DEF Inv, HelperInv, Writes
  <1>6. w.fail \in HelperPcs \cup {"off", "recover"} /\ w.fail \notin Holding
        /\ w.fail \notin {"write", "flush"}
    BY <1>5 DEF HelperPcs, Holding
  <1>7. w.fail = "abort" => Abortable(mem)
    BY <1>1, <1>5 DEF HelperInv
  <1>8. HelperInv' /\ ControlType'
    BY <1>1, <1>4, <1>5, <1>6, <1>7, GotoKeeps DEF Abortable
  <1>9. Inv' /\ DataOK'
    BY <1>1, <1>5, <1>8
    DEF Inv, TypeOK, ControlType, DataOK, slotVars, diskVars, envVars
  <1>10. pc' = w.fail /\ w' = None /\ (w.fail = "off" => mem' = None)
    BY <1>1 DEF Goto
  <1>11. RestInv' /\ EnrollControl'
    BY <1>1, <1>5, <1>9, <1>10
    DEF RestInv, EnrollControl, Resting, EnrollInv, enrollVars
  <1> QED BY <1>1, <1>5, <1>9, <1>10, <1>11, StillKeeps
          DEF slotVars, enrollVars

(***************************************************************************)
(* Enrollment: power loss, and the invariant.                              *)
(***************************************************************************)
\* Where a write is going on, as a power loss sees it.
LEMMA WriteInProgress ==
  ASSUME EnrollInv, pc = "write"
  PROVE  /\ w.slot \in Slots
         /\ SlotInv(cache) => w.slot = InactiveSlot(cache)
         /\ Initial(cache) => \A x \in Slots : cache[x] = Enrolling
  <1>1. Inv \/ Committing
    BY WhichPart
  <1>2. CASE Inv
    BY <1>2, SlotInvFacts, InitialOrRecord DEF Inv, HelperInv
  <1>3. CASE Committing
    <2>1. w.slot \in Slots /\ w.slot = InactiveSlot(cache)
      BY <1>3, EnrollWrites
    <2>2. cache = Pair(Enrolling, Enrolling) \/ cache = Pair(Enrolling, First)
      BY <1>3 DEF Committing, Between, FirstWrite, MirrorWrite
    <2>3. SlotInv(Pair(Enrolling, First))
      BY PairSelects
    <2>4. Initial(cache) => cache = Pair(Enrolling, Enrolling)
      BY <2>2, <2>3, InitialOrRecord
    <2> QED BY <2>1, <2>4 DEF Pair
  <1> QED BY <1>1, <1>2, <1>3

\* A power loss leaves what was flushed, or what was written over it.
LEMMA OutageLeaves ==
  ASSUME EnrollInv, ~unsafe, ~Overtaking,
         NEW img \in PowerLossImages(BeingWritten)
  PROVE  /\ RecordKept => Selected(img) /\ Current(img) \in {Current(disk), Current(cache)}
         /\ InitialKept /\ Selected(disk) =>
              Selected(img) /\ Current(img) = Current(disk)
         /\ InitialKept \/ RecordKept
  <1>1. RecordKept => (pc = "write" => w.slot = InactiveSlot(cache))
    BY WriteInProgress DEF RecordKept
  <1>2. InitialKept => (pc = "write" => /\ w.slot \in Slots
                                        /\ \A x \in Slots : cache[x] = Enrolling)
    BY WriteInProgress DEF InitialKept
  <1>3. InitialKept \/ RecordKept
    BY DEF EnrollInv, SafeInv
  <1> QED BY <1>1, <1>2, <1>3, RecordSurvives, InitialSurvives

\* The frames of such an image.
LEMMA OutageFramed ==
  ASSUME ImagesInv, NEW img \in PowerLossImages(BeingWritten)
  PROVE  /\ Framed(img)
         /\ Initial(cache) /\ Initial(disk) => Initial(img)
         /\ \A x \in Slots : img[x] \in {cache[x], disk[x], Torn}
  <1>1. /\ cache \in [Slots -> Frames] /\ disk \in [Slots -> Frames]
        /\ Framed(cache) /\ Framed(disk)
    BY DEF ImagesInv, Framed
  <1>2. /\ img \in [Slots -> Frames]
        /\ \A x \in Slots : img[x] \in {cache[x], disk[x], Torn}
    BY <1>1, ImageFrames
  <1>3. Framed(img)
    BY <1>1, <1>2 DEF Framed
  <1>4. Initial(cache) /\ Initial(disk) => Initial(img)
    BY <1>2 DEF Initial
  <1> QED BY <1>2, <1>3, <1>4

\* The invariant survives a power loss, and the files it takes along.
LEMMA OutageKeeps ==
  ASSUME EnrollInv, EnrollmentOutage
  PROVE  EnrollInv'
  <1>1. PICK img \in PowerLossImages(BeingWritten) : cache' = img /\ disk' = img
    BY DEF EnrollmentOutage, PowerLoss, BeingWritten
  <1>2. /\ DataOK /\ ImagesInv /\ RestInv
        /\ outages' = outages + 1 /\ Goto("off")
        /\ unsafe' = (unsafe \/ Overtaking)
        /\ UNCHANGED <<failures, published, scratch, used, retired, faults,
                       lost, result>>
        /\ marker' \in {marker, "none", "torn"}
    BY DEF EnrollInv, EnrollmentOutage, PowerLoss, diskVars
  <1>3. PICK gone \in SUBSET (files \ durable) :
          (\A x \in gone : cache'[x] = Torn) /\ files' = files \ gone
    BY DEF EnrollmentOutage
  <1>4. pc' = "off" /\ mem' = None /\ w' = None
    BY <1>2 DEF Goto
  <1>5. RestInv' /\ EnrollControl'
    BY <1>2, <1>4 DEF RestInv, EnrollControl, Resting
  <1>6. DataOK'
    <2>1. unsafe' \in BOOLEAN
      BY <1>2 DEF DataOK, Overtaking, Dirty
    <2> QED BY <1>2, <2>1 DEF DataOK
  <1>7. /\ Framed(img) /\ (Initial(cache) /\ Initial(disk) => Initial(img))
        /\ \A x \in Slots : img[x] \in {cache[x], disk[x], Torn}
    BY <1>2, OutageFramed
  <1>8. ImagesInv'
    <2>1. \A x \in Slots \ files' : img[x] = Torn
      BY <1>1, <1>2, <1>3, <1>7 DEF ImagesInv
    <2>2. files' \subseteq Slots
      BY <1>2, <1>3 DEF ImagesInv
    <2> QED BY <1>1, <1>7, <2>1, <2>2 DEF ImagesInv, Framed
  <1>9. SafeInv'
    <2> SUFFICES ASSUME ~unsafe'
                 PROVE  InitialKept' \/ RecordKept'
      BY <1>4 DEF SafeInv
    <2>1. ~unsafe /\ ~Overtaking
      BY <1>2
    <2>2. CASE InitialKept
      <3>1. Initial(img)
        BY <1>7, <2>2 DEF InitialKept
      <3>2. InitialKept'
        BY <1>1, <3>1 DEF InitialKept, Initial
      <3> QED BY <3>2
    <2>3. CASE RecordKept
      <3>1. Selected(img) /\ Current(img) \in {Current(disk), Current(cache)}
        BY <2>1, <2>3, OutageLeaves
      <3>2. CASE SlotInv(img)
        <4>1. RecordKept'
          BY <1>1, <1>7, <3>1, <3>2
          DEF RecordKept, SlotInv, Selected, Selects, Framed, Dirty
        <4> QED BY <4>1
      <3>3. CASE ~SlotInv(img)
        <4>1. Initial(img)
          BY <1>7, <3>1, <3>3, SelectedKinds DEF Selected
        <4>2. InitialKept'
          BY <1>1, <4>1 DEF InitialKept, Initial
        <4> QED BY <4>2
      <3> QED BY <3>2, <3>3
    <2> QED BY <2>1, <2>2, <2>3, OutageLeaves, <1>1
  <1> QED BY <1>5, <1>6, <1>8, <1>9 DEF EnrollInv

\* Setup starts over with an empty directory, and so does the first one.
LEMMA SetupKeeps ==
  ASSUME EnrollInv, Setup
  PROVE  EnrollInv'
  <1>1. /\ cache' = NoSlots /\ disk' = NoSlots /\ files' = {} /\ marker' = "none"
        /\ pc' = "off" /\ mem' = None /\ w' = None
    BY DEF Setup, procVars, EnrollInv, RestInv, Resting
  <1>2. DataOK'
    BY DEF Setup, EnrollInv, DataOK, UpdaterAssumption
  <1>3. /\ cache' \in [Slots -> Frames] /\ disk' = cache'
        /\ \A x \in Slots : cache'[x] = Torn
    BY <1>1, SlotFacts DEF NoSlots
  <1>4. Initial(cache') /\ Framed(cache')
    BY <1>3 DEF Initial, Framed
  <1>5. InitialKept'
    BY <1>3, <1>4 DEF InitialKept, Initial
  <1>6. ImagesInv' /\ RestInv' /\ EnrollControl' /\ SafeInv'
    BY <1>1, <1>3, <1>4, <1>5
    DEF ImagesInv, RestInv, EnrollControl, SafeInv, Resting, Framed
  <1> QED BY <1>2, <1>6 DEF EnrollInv

\* The first enrollment finds an empty directory.
LEMMA EnrollInitKeeps ==
  ASSUME EnrollInit
  PROVE  EnrollInv
  <1>1. DataOK
    BY DEF EnrollInit, DataOK
  <1> QED BY <1>1, EmptyKeeps DEF EnrollInit

\* A step that changes nothing keeps the invariant.
LEMMA StutterKeeps ==
  ASSUME EnrollInv, UNCHANGED allVars
  PROVE  EnrollInv'
  <1>1. UNCHANGED <<pc, mem, w, cache, disk, unsafe, failures, published, scratch,
                    used, retired, faults, outages, lost, result,
                    marker, files>>
    BY DEF allVars, enrollVars, vars, procVars, slotVars, diskVars, envVars
  <1>2. DataOK'
    BY <1>1 DEF EnrollInv, DataOK
  <1>3. ImagesInv' /\ RestInv'
    BY <1>1 DEF EnrollInv, ImagesInv, RestInv, Framed
  <1>4. Inv => Inv'
    BY <1>1 DEF Inv, TypeOK, HelperInv, Abortable, Holds
  <1>5. Filling => Filling'
    BY <1>1 DEF Filling
  <1>6. Committing => Committing'
    BY <1>1 DEF Committing, Between, FirstWrite, MirrorWrite, Writing
  <1>7. EnrollControl'
    BY <1>1, <1>4, <1>5, <1>6 DEF EnrollInv, EnrollControl
  <1>8. InitialKept' <=> InitialKept
    BY <1>1 DEF InitialKept, Initial, Anchored
  <1>9. RecordKept' <=> RecordKept
    BY <1>1 DEF RecordKept, Framed, SlotInv, Selected, Selects, Dirty
  <1>10. SafeInv'
    BY <1>1, <1>8, <1>9 DEF EnrollInv, SafeInv, Dirty
  <1> QED BY <1>2, <1>3, <1>7, <1>10 DEF EnrollInv

\* Every step of Setup, enrollments, the helper, recovery, process faults and
\* power losses keeps the invariant.
LEMMA EnrollStepKeeps ==
  ASSUME EnrollInv, [EnrollNext]_allVars
  PROVE  EnrollInv'
  <1>1. \/ Setup \/ EnrollmentOutage \/ UpdaterStep \/ WriteMissing
        \/ (\/ EnrollAgain \/ StartEnrollment \/ MarkerStep
            \/ SlotsRefused \/ RecoverUnenrolled)
        \/ (SlotsReady \/ PrepareSlot)
        \/ (CreateSlot \/ FillSlot \/ SlotFault \/ KillEnrollment)
        \/ SettleSlot
        \/ (CommitBaseline \/ MirrorBaseline \/ CopyBaseline)
        \/ UNCHANGED allVars
    BY DEF EnrollNext, EnrollStep, MarkerStep
  <1> QED BY <1>1, SetupKeeps, OutageKeeps, UpdaterKeeps, MissingKeeps,
             OutsideKeeps, JudgeKeeps, FillKeeps, SettleKeeps, CommitKeeps,
             StutterKeeps

\* From an empty directory on, whoever writes the slots and whatever interrupts
\* it, the slots hold what enrollment, the helper and recovery can go on from.
THEOREM EnrollHolds == EnrollSpec => []EnrollInv
  <1>1. EnrollInit => EnrollInv
    BY EnrollInitKeeps
  <1>2. EnrollInv /\ [EnrollNext]_allVars => EnrollInv'
    BY EnrollStepKeeps
  <1> QED BY <1>1, <1>2, PTL DEF EnrollSpec

\* As long as nothing was written beside an unflushed slot, a power loss at any
\* point leaves the record before or after the write in progress.
THEOREM PowerLossIsSurvived == EnrollSpec => []PowerSafe
  <1>1. EnrollInv => PowerSafe
    <2> SUFFICES ASSUME EnrollInv, Selected(disk), ~unsafe, ~Overtaking,
                        NEW img \in PowerLossImages(BeingWritten)
                 PROVE  Selected(img) /\ Current(img) \in {Current(disk), Current(cache)}
      BY DEF PowerSafe
    <2> QED BY OutageLeaves
  <1> QED BY <1>1, EnrollHolds, PTL

(***************************************************************************)
(* Enrollment: what is reported, and what is never taken back.             *)
(***************************************************************************)
\* The slots go on selecting a record, and no older one.
Advances ==
  Selected(cache') /\ Current(cache').revision >= Current(cache).revision

\* The record that is selected has a revision.
LEMMA RevisionKnown ==
  ASSUME EnrollInv, Selected(cache)
  PROVE  Current(cache).revision \in Nat
  <1>1. Framed(cache)
    BY DEF EnrollInv, ImagesInv
  <1>2. SlotInv(cache) \/ Current(cache) = Enrolling
    BY <1>1, EnrollKinds
  <1> QED BY <1>2, SlotInvFacts, StateFields, EnrollingFacts

\* Leaving the slots alone takes nothing back.
LEMMA SameAdvances ==
  ASSUME EnrollInv, Selected(cache), cache' = cache
  PROVE  Advances
  <1>1. Current(cache).revision >= Current(cache).revision
    BY RevisionKnown
  <1> QED BY <1>1 DEF Advances

\* A slot that holds no initial frame is filled, or fails to be.
LEMMA FillAdvances ==
  ASSUME EnrollInv, CreateSlot \/ FillSlot \/ SlotFault \/ KillEnrollment,
         Selected(cache)
  PROVE  Advances
  <1>1. Filling /\ pc \in {"create", "fill", "settle"} /\ Framed(cache)
    BY WhichPart
    DEF CreateSlot, FillSlot, SlotFault, KillEnrollment, EnrollInv, ImagesInv
  <1>2. /\ w.slot \in Slots /\ Initial(cache) /\ w.state = Enrolling
        /\ cache[w.slot] \in {Torn, Short, Enrolling}
        /\ pc # "settle" => cache[w.slot] # Enrolling
    BY <1>1 DEF Filling, Initial
  <1>3. PICK f \in {Torn, Short, Enrolling} :
          /\ cache' = [cache EXCEPT ![w.slot] = f]
          /\ pc = "settle" => f = cache[w.slot]
    BY <1>1, <1>2 DEF CreateSlot, FillSlot, SlotFault, KillEnrollment
  <1>4. Current(cache) = Enrolling
    BY <1>1, <1>2, EnrollKinds, InitialOrRecord
  <1>5. PICK y \in Slots : cache[y] = Enrolling
    BY <1>1, <1>4, SelectedKinds DEF Selected
  <1>6. CASE pc = "settle"
    <2>1. cache' = cache
      BY <1>1, <1>2, <1>3, <1>6 DEF Framed
    <2> QED BY <2>1, SameAdvances
  <1>7. CASE pc # "settle"
    <2>1. cache'[y] = Enrolling /\ Initial(cache')
      BY <1>1, <1>2, <1>3, <1>5, <1>7, EnrollingFacts, SlotFacts
      DEF Framed, Initial
    <2>2. Selected(cache') /\ Current(cache') = Enrolling
      BY <2>1, InitialSelected
    <2> QED BY <1>4, <2>2, EnrollingFacts DEF Advances
  <1> QED BY <1>6, <1>7

\* The first commit and its mirror only move on.
LEMMA CommitAdvances ==
  ASSUME EnrollInv, Committing, pc \in {"write", "flush"}, UpdaterStep,
         Selected(cache)
  PROVE  Advances
  <1>1. /\ WriteStep \/ WriteFault \/ Kill
        /\ Framed(cache) /\ w.slot \in Slots
        /\ pc = "write" => WriteChecked(cache, w.state)
        /\ pc = "flush" => cache[w.slot] = w.state
    BY AtWrite, EnrollWrites DEF UpdaterStep, EnrollInv, ImagesInv
  <1>2. CASE cache' = cache
    BY <1>2, SameAdvances
  <1>3. CASE cache' # cache
    <2>1. PICK f \in {cache[w.slot], w.state, Torn} :
            pc = "write" /\ cache' = [cache EXCEPT ![w.slot] = f]
      <3>1. CASE WriteSlot
        BY <3>1 DEF WriteSlot
      <3>2. CASE WriteFault
        <4>1. PICK f \in {cache[w.slot], w.state, Torn} :
                (f = Torn => pc = "write") /\ cache' = [cache EXCEPT ![w.slot] = f]
          BY <3>2 DEF WriteFault
        <4>2. pc # "flush"
          BY <1>1, <1>3, <4>1 DEF Framed
        <4> QED BY <4>1, <4>2
      <3>3. CASE Kill
        BY <1>3, <3>3 DEF Kill
      <3> QED BY <1>1, <1>3, <3>1, <3>2, <3>3
              DEF WriteStep, WriteRefused, FlushSlot, slotVars
    <2>2. CASE FirstWrite
      <3>1. /\ w.slot = "b" /\ w.state = First
            /\ cache = Pair(Enrolling, Enrolling)
            /\ cache["a"] = Enrolling /\ cache["b"] = Enrolling
        BY <2>1, <2>2, PairFacts DEF FirstWrite, Writing
      <3>2. Current(cache).revision = 1
        BY <3>1, PairSelects, EnrollingFacts
      <3>3. CASE f = First
        <4>1. cache' = Pair(Enrolling, First)
          BY <2>1, <3>1, <3>3, PairFacts
        <4>2. Selected(cache') /\ Current(cache').revision = 2
          BY <4>1, PairSelects, FirstLegal, SlotInvFacts
        <4> QED BY <3>2, <4>2 DEF Advances
      <3>4. CASE f \in {Enrolling, Torn}
        <4>1. "a" \in Slots /\ cache'["a"] = Enrolling /\ Initial(cache')
          BY <1>1, <2>1, <3>1, <3>4, EnrollingFacts, SlotFacts
          DEF Framed, Initial, Slots
        <4>2. Selected(cache') /\ Current(cache') = Enrolling
          BY <4>1, InitialSelected
        <4> QED BY <3>2, <4>2, EnrollingFacts DEF Advances
      <3> QED BY <2>1, <3>1, <3>3, <3>4
    <2>3. CASE MirrorWrite
      <3>1. /\ w.slot = "a" /\ w.state = Mirror
            /\ cache = Pair(Enrolling, First) /\ cache["a"] = Enrolling
            /\ SlotInv(cache) /\ w.slot = InactiveSlot(cache)
        BY <2>1, <2>3, PairFacts, PairSelects DEF MirrorWrite, Writing
      <3>2. Current(cache).revision = 2
        BY <3>1, PairSelects, FirstLegal
      <3>3. CASE f = Mirror
        <4>1. cache' = [Pair(Enrolling, First) EXCEPT !["a"] = Mirror]
          BY <2>1, <3>1, <3>3
        <4>2. cache' = Pair(Mirror, First)
          BY <4>1, PairFacts
        <4>3. Selected(cache') /\ Current(cache').revision = 3
          BY <4>2, PairSelects, FirstLegal, SlotInvFacts
        <4> QED BY <3>2, <4>3 DEF Advances
      <3>4. CASE f = Torn
        <4>1. /\ cache' = [cache EXCEPT ![w.slot] = Torn]
              /\ w.slot = InactiveSlot(cache) /\ SlotInv(cache)
          BY <2>1, <3>1, <3>4
        <4>2. SlotInv(cache') /\ Current(cache') = Current(cache)
          BY <4>1, SpoiltIgnored
        <4> QED BY <3>2, <4>2, SlotInvFacts DEF Advances
      <3>5. CASE f = cache[w.slot]
        <4>1. cache' = cache
          BY <1>1, <2>1, <3>5 DEF Framed
        <4> QED BY <1>3, <4>1
      <3> QED BY <2>1, <3>1, <3>3, <3>4, <3>5
    <2> QED BY <2>2, <2>3, EnrollWrites
  <1> QED BY <1>2, <1>3

\* The helper and recovery only succeed to the record that is selected.
LEMMA UpdaterAdvances ==
  ASSUME EnrollInv, UpdaterStep, Selected(cache)
  PROVE  Advances
  <1>1. ProcessNext /\ Framed(cache)
    BY DEF UpdaterStep, EnrollInv, ImagesInv
  <1>2. CASE Inv
    <2>1. Inv' /\ SlotInv(cache')
      BY <1>1, <1>2, StepKeeps DEF Inv
    <2>2. \/ Current(cache') = Current(cache)
          \/ RecordStep(Current(cache), Current(cache'))
      BY <1>1, <1>2, CurrentMoves
    <2>3. RecordInv(Current(cache)) /\ Current(cache).revision \in Nat
      BY <1>2, SlotInvFacts, RevisionKnown DEF Inv
    <2>4. Current(cache').revision
            \in {Current(cache).revision, Current(cache).revision + 1}
      BY <2>2, <2>3, StepsLegal
    <2>5. Selected(cache')
      BY <2>1, SlotInvFacts
    <2>6. Current(cache').revision >= Current(cache).revision
      BY <2>3, <2>4
    <2> QED BY <2>5, <2>6 DEF Advances
  <1>3. CASE Committing /\ pc \in {"write", "flush"}
    BY <1>3, CommitAdvances
  <1>4. CASE pc \in EnrollPcs
    <2>1. Kill /\ pc # "write"
      BY <1>1, <1>4, EnrollingKilled DEF EnrollPcs
    <2> QED BY <2>1, SameAdvances DEF Kill
  <1>5. CASE pc \in {"off", "initial", "recover"} /\ ~Inv
    <2>1. Current(cache).phase = "ENROLLING"
      BY <1>1, <1>5, EnrollKinds, RestingInv, EnrollingFacts
    <2>2. \/ StartSession \/ StartRecovery \/ SessionEnds \/ Kill
          \/ \E r \in Releases : LoseGeneration(r)
      BY <1>1, <1>5, <2>1, NothingToDo
    <2>3. cache' = cache
      BY <1>5, <2>2 DEF StartSession, StartRecovery, SessionEnds, Kill,
                        LoseGeneration, slotVars
    <2> QED BY <2>3, SameAdvances
  <1>6. Inv \/ (Committing /\ pc \in {"write", "flush"}) \/ pc \in EnrollPcs
        \/ pc \in {"off", "initial", "recover"}
    BY WhoseTurn
  <1> QED BY <1>2, <1>3, <1>4, <1>5, <1>6

\* No step but Setup and a power loss takes a record back.
LEMMA NothingIsForgotten ==
  ASSUME EnrollInv, EnrollNext
  PROVE  NothingForgotten
  <1> SUFFICES ASSUME files' # {}, outages' = outages, Selected(cache)
               PROVE  Advances
    BY DEF NothingForgotten, Advances
  <1>1. ~Setup
    BY DEF Setup
  <1>2. ~EnrollmentOutage
    <2>1. outages \in Nat
      BY DEF EnrollInv, DataOK
    <2> QED BY <2>1 DEF EnrollmentOutage, PowerLoss
  <1>3. CASE CreateSlot \/ FillSlot \/ SlotFault \/ KillEnrollment
    BY <1>3, FillAdvances
  <1>4. CASE UpdaterStep
    BY <1>4, UpdaterAdvances
  <1>5. CASE \/ EnrollAgain \/ StartEnrollment \/ MarkerStep
             \/ SlotsRefused \/ SlotsReady \/ PrepareSlot \/ SettleSlot
             \/ CommitBaseline \/ MirrorBaseline \/ CopyBaseline
             \/ RecoverUnenrolled \/ WriteMissing
    <2>1. cache' = cache
      BY <1>5 DEF EnrollAgain, StartEnrollment, MarkerStep, CreateMarker,
           WriteMarker, SealMarker, MarkerFault, SlotsRefused, SlotsReady, PrepareSlot, SettleSlot, CommitBaseline,
           MirrorBaseline, CopyBaseline, RecoverUnenrolled, RecoverUnselected,
           RecoveryEnds, WriteMissing, vars, slotVars
    <2> QED BY <2>1, SameAdvances
  <1> QED BY <1>1, <1>2, <1>3, <1>4, <1>5 DEF EnrollNext, EnrollStep, MarkerStep

(***************************************************************************)
(* Enrollment: what was flushed.                                           *)
(***************************************************************************)
\* What was flushed into a slot stays in its file; and a complete marker is
\* flushed before its enrollment goes on.
DurableInv ==
  /\ \A x \in Slots : disk[x] # Torn => x \in durable
  /\ marker = "ok" /\ "marker" \notin durable => pc = "sealing" \/ faults > 0

\* The helper and recovery change what is flushed of the slot they write only.
LEMMA OneFlushed ==
  ASSUME ProcessNext, faults \in Nat
  PROVE  /\ disk' = disk \/ disk' = [disk EXCEPT ![w.slot] = cache[w.slot]]
         /\ faults' \in {faults, faults + 1}
  <1>1. CASE FlushSlot \/ Sync
    BY <1>1 DEF FlushSlot, Sync, envVars
  <1>2. CASE WriteFault \/ Kill \/ \E r \in Releases : LoseGeneration(r)
    BY <1>2 DEF WriteFault, Kill, LoseGeneration, slotVars
  <1>3. CASE WriteRefused \/ WriteSlot \/ Truncate \/ Rewrite
    BY <1>3 DEF WriteRefused, WriteSlot, Truncate, Rewrite, slotVars, envVars
  <1>4. CASE Moves \/ HelperWrites
    BY <1>4
    DEF Moves, HelperWrites, StartSession, SessionEnds, AdmitUnchanged,
        ApplyRejected, Apply, Abort, BuildFails, Build, Publish, Retire,
        Replace, Check, Release, SelfTestFails, Quiesce, StartProbation,
        Commit, slotVars, envVars
  <1>5. CASE RecoverCleaning
    BY <1>5 DEF RecoverCleaning, slotVars
  <1>6. CASE \/ StartRecovery \/ RecoverHealthy \/ RecoverNoBackup
             \/ RecoverMissing \/ RecoverPreparing \/ RecoverInterrupted
             \/ RecoverRollingBack
    BY <1>6
    DEF StartRecovery, RecoverHealthy, RecoverNoBackup, RecoverMissing,
        RecoverPreparing, RecoverInterrupted, RecoverRollingBack, RecoveryEnds,
        slotVars, envVars
  <1>7. CASE \/ \E r \in Releases : Admit(r)
             \/ \E r \in Releases, id \in Ids :
                  BeginUpdate(r, id) \/ BeginRepair(r, id)
    BY <1>7 DEF Admit, BeginUpdate, BeginRepair, BeginWith, slotVars, envVars
  <1> QED BY <1>1, <1>2, <1>3, <1>4, <1>5, <1>6, <1>7
          DEF ProcessNext, RecoveryStep, SessionNext, Request, HelperStep, Fault, Moves,
              HelperWrites, WriteStep

\* They keep it, and so does a kill of the enrollment.
LEMMA UpdaterFlushes ==
  ASSUME EnrollInv, DurableInv, UpdaterStep
  PROVE  DurableInv'
  <1>1. /\ ProcessNext /\ FilesFollow /\ faults \in Nat
        /\ disk \in [Slots -> Frames]
    BY DEF EnrollInv, DataOK, UpdaterStep, ImagesInv, Framed
  <1>2. /\ disk' = disk \/ disk' = [disk EXCEPT ![w.slot] = cache[w.slot]]
        /\ faults' \in {faults, faults + 1}
    BY <1>1, OneFlushed
  <1>3. /\ durable' = durable \cup (IF disk' # disk THEN {w.slot} ELSE {})
        /\ marker' = marker
    BY <1>1 DEF FilesFollow
  <1>4. \A x \in Slots : disk'[x] # Torn => x \in durable'
    <2> SUFFICES ASSUME NEW x \in Slots, disk'[x] # Torn
                 PROVE  x \in durable'
      OBVIOUS
    <2>1. CASE disk'[x] = disk[x]
      BY <1>3, <2>1 DEF DurableInv
    <2>2. CASE disk'[x] # disk[x]
      BY <1>1, <1>2, <1>3, <2>2
    <2> QED BY <2>1, <2>2
  <1>5. CASE pc = "sealing"
    <2>1. Kill
      BY <1>1, <1>5, EnrollingKilled DEF EnrollPcs
    <2>2. faults' > 0
      BY <1>1, <2>1 DEF Kill
    <2> QED BY <1>4, <2>2 DEF DurableInv
  <1>6. CASE pc # "sealing"
    <2>1. faults > 0 => faults' > 0
      BY <1>1, <1>2
    <2> QED BY <1>3, <1>4, <1>6, <2>1 DEF DurableInv
  <1> QED BY <1>5, <1>6

\* A power loss leaves what it leaves flushed.
LEMMA OutageFlushes ==
  ASSUME EnrollInv, EnrollmentOutage
  PROVE  DurableInv'
  <1>1. ImagesInv'
    BY OutageKeeps DEF EnrollInv
  <1>2. /\ durable' = files' \cup (IF marker' = "none" THEN {} ELSE {"marker"})
    BY DEF EnrollmentOutage
  <1>3. \A x \in Slots : disk'[x] # Torn => x \in files'
    BY <1>1 DEF ImagesInv
  <1> QED BY <1>2, <1>3 DEF DurableInv

\* Every step keeps it.
LEMMA FlushesKept ==
  ASSUME EnrollInv, DurableInv, [EnrollNext]_allVars
  PROVE  DurableInv'
  <1>1. faults \in Nat /\ disk \in [Slots -> Frames]
    BY DEF EnrollInv, DataOK, ImagesInv, Framed
  <1>2. CASE Setup
    BY <1>2, SlotFacts DEF Setup, DurableInv, NoSlots
  <1>3. CASE \/ EnrollAgain \/ StartEnrollment \/ SlotsRefused \/ SlotsReady
             \/ PrepareSlot \/ CreateSlot \/ FillSlot \/ CommitBaseline
             \/ MirrorBaseline \/ RecoverUnenrolled \/ WriteMissing
             \/ UNCHANGED allVars
    <2>1. UNCHANGED <<disk, durable, marker, faults>>
      BY <1>3 DEF EnrollAgain, StartEnrollment, SlotsRefused, SlotsReady,
           PrepareSlot, CreateSlot, FillSlot, CommitBaseline, MirrorBaseline,
           RecoverUnenrolled, RecoverUnselected, RecoveryEnds, WriteMissing,
           allVars, enrollVars, vars, slotVars, envVars
    <2>2. pc # "sealing" \/ pc' = pc
      BY <1>3 DEF EnrollAgain, StartEnrollment, SlotsRefused, SlotsReady,
           PrepareSlot, CreateSlot, FillSlot, CommitBaseline, MirrorBaseline,
           RecoverUnenrolled, RecoverUnselected, Recovering, WriteMissing,
           allVars, vars, procVars
    <2> QED BY <2>1, <2>2 DEF DurableInv
  <1>4. CASE CreateMarker \/ WriteMarker \/ SealMarker
    <2>1. disk' = disk /\ durable \subseteq durable' /\ faults' = faults
      BY <1>4 DEF CreateMarker, WriteMarker, SealMarker, slotVars, envVars
    <2>2. marker' = "ok" /\ "marker" \notin durable' => pc' = "sealing"
      BY <1>4 DEF CreateMarker, WriteMarker, SealMarker, Goto
    <2> QED BY <2>1, <2>2 DEF DurableInv
  <1>5. CASE MarkerFault \/ SlotFault \/ KillEnrollment
    <2>1. UNCHANGED <<disk, durable>> /\ faults' > 0
      BY <1>1, <1>5 DEF MarkerFault, SlotFault, KillEnrollment, enrollVars,
                        slotVars
    <2> QED BY <2>1 DEF DurableInv
  <1>6. CASE SettleSlot
    <2>1. /\ disk' = [disk EXCEPT ![w.slot] = cache[w.slot]]
          /\ durable' = durable \cup {w.slot}
          /\ UNCHANGED <<marker, faults>> /\ pc # "sealing"
      BY <1>6 DEF SettleSlot, envVars
    <2>2. \A x \in Slots : disk'[x] # Torn => x \in durable'
      BY <1>1, <2>1 DEF DurableInv
    <2> QED BY <2>1, <2>2 DEF DurableInv
  <1>7. CASE CopyBaseline
    <2>1. UNCHANGED <<disk, durable, marker>> /\ pc # "sealing"
          /\ faults' \in {faults, faults + 1}
      BY <1>7 DEF CopyBaseline, slotVars
    <2>2. faults > 0 => faults' > 0
      BY <1>1, <2>1
    <2> QED BY <2>1, <2>2 DEF DurableInv
  <1> QED BY <1>2, <1>3, <1>4, <1>5, <1>6, <1>7, OutageFlushes, UpdaterFlushes
          DEF EnrollNext, EnrollStep

\* So both hold of every enrollment, and of what follows it.
THEOREM FlushesHold == EnrollSpec => [](EnrollInv /\ DurableInv)
  <1>1. EnrollInit => DurableInv
    BY SlotFacts DEF EnrollInit, DurableInv, NoSlots
  <1>2. EnrollInv /\ DurableInv /\ [EnrollNext]_allVars => DurableInv'
    BY FlushesKept
  <1> QED BY <1>1, <1>2, EnrollHolds, PTL DEF EnrollSpec

\* Success is reported from the copy on, or of what was enrolled before.
LEMMA SuccessIsReal ==
  ASSUME EnrollInv, DurableInv, EnrollNext
  PROVE  StartsUpdater
  <1> SUFFICES ASSUME report', ~report
               PROVE  \/ pc = "off" /\ AlreadyEnrolled
                      \/ /\ marker = "ok" /\ files = Slots
                         /\ cache = [x \in Slots |-> IF x = "a" THEN Enrolled(3, TRUE)
                                                            ELSE Enrolled(2, FALSE)]
                         /\ disk = cache /\ Slots \subseteq durable
                         /\ "marker" \in durable \/ faults > 0
    BY DEF StartsUpdater
  <1>1. EnrollAgain \/ CopyBaseline
    BY DEF EnrollNext, EnrollStep, Setup, StartEnrollment, CreateMarker,
           WriteMarker, SealMarker, MarkerFault, SlotsRefused, SlotsReady, PrepareSlot, CreateSlot,
           FillSlot, SettleSlot, CommitBaseline, MirrorBaseline, SlotFault,
           KillEnrollment, EnrollmentOutage, RecoverUnenrolled, UpdaterStep,
           FilesFollow, WriteMissing, enrollVars
  <1>2. CASE EnrollAgain
    BY <1>2 DEF EnrollAgain
  <1>3. CASE CopyBaseline
    <2>1. pc = "copy" /\ Committing /\ Between
      BY <1>3, WhichPart DEF CopyBaseline
    <2>2. /\ marker = "ok" /\ files = Slots
          /\ cache = Pair(Mirror, First) /\ disk = cache
      BY <2>1 DEF Committing, Between
    <2>3. \A x \in Slots : disk[x] # Torn
      BY <2>2, PairFacts, FirstLegal, SlotFacts DEF Slots
    <2>4. Slots \subseteq durable /\ ("marker" \in durable \/ faults > 0)
      BY <2>1, <2>2, <2>3 DEF DurableInv
    <2> QED BY <2>2, <2>4 DEF Pair, Mirror, First
  <1> QED BY <1>1, <1>2, <1>3

\* Success is reported only of an installation the updater starts from, and
\* only Setup and a power loss take a record back.
THEOREM EnrollmentIsSafe == EnrollSpec => EnrollmentSafe
  <1>1. EnrollInv /\ DurableInv /\ [EnrollNext]_allVars
          => [StartsUpdater /\ NothingForgotten]_allVars
    BY NothingIsForgotten, SuccessIsReal
  <1> QED BY <1>1, FlushesHold, PTL DEF EnrollSpec, EnrollmentSafe
=============================================================================
