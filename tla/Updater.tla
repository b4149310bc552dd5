------------------------------- MODULE Updater -------------------------------
(***************************************************************************)
(* The NekoUpdater helper, the launcher that drives it over a pipe, and    *)
(* the crash-recovery engine, over the two state slots.                    *)
(*                                                                         *)
(* One process at a time holds the slots (their handles are opened without *)
(* write sharing), so one control point `pc` serves helper and recovery.   *)
(* A durable write is "write" then "flush" in the helper and "truncate",   *)
(* "rewrite", "sync" in the recovery engine; a kill, an I/O error or a     *)
(* power loss may come between any two steps.                              *)
(***************************************************************************)
EXTENDS SlotStore, FiniteSets

CONSTANTS Baseline,    \* the release that enrollment committed
          MaxFaults,   \* kills of a process and failed slot writes
          MaxOutages,  \* power losses
          MaxLosses    \* generation directories the environment destroys

ASSUME UpdaterAssumption == /\ Baseline \in Releases
                            /\ MaxFaults \in Nat
                            /\ MaxOutages \in Nat
                            /\ MaxLosses \in Nat

VARIABLES
  pc,         \* the control point, "off" when no process holds the slots
  mem,        \* the record the helper last loaded or wrote
  w,          \* the durable write in progress
  published,  \* the generations complete under releases/
  scratch,    \* the containers under incoming/ and staging/
  used,       \* the tokens drawn so far
  result,     \* what the last recovery reported
  faults, outages,
  lost,       \* generations the environment destroyed
  retired,    \* generations a repair moved aside and has not replaced
  failures,   \* releases durably recorded as failed
  unsafe      \* a slot was written while the active slot was not flushed

procVars == <<pc, mem, w>>
slotVars == <<cache, disk, unsafe, failures>>
diskVars == <<published, scratch, used, retired>>
envVars  == <<faults, outages, lost, result>>
vars == <<procVars, slotVars, diskVars, envVars>>

HelperPcs == {"initial", "admitted", "ready", "build", "publish",
              "replace", "check", "verified", "selftest", "quiescing",
              "probation", "abort", "write", "flush"}
RecoveryPcs == {"recover", "truncate", "rewrite", "sync"}

Writes == [state: States, slot: Slots,
           ok: HelperPcs \cup {"off", "recover"},
           fail: {"off", "abort"}]

TypeOK ==
  /\ cache \in [Slots -> Frames] /\ disk \in [Slots -> Frames]
  /\ pc \in HelperPcs \cup RecoveryPcs \cup {"off"}
  /\ mem \in Optional(States)
  /\ w \in Optional(Writes)
  /\ published \subseteq Releases /\ lost \subseteq Releases
  /\ retired \subseteq Releases /\ failures \subseteq Releases
  /\ scratch \subseteq Directories /\ used \subseteq Ids
  /\ result \in {"none", "converged", "repair"}
  /\ faults \in Nat /\ outages \in Nat /\ unsafe \in BOOLEAN

\* Enrollment leaves revision 2 in slot b and its mirror in slot a.
Enrolled(revision, complete) ==
  [revision |-> revision, complete |-> complete, phase |-> "IDLE",
   committed |-> Baseline, previous |-> None, highwater |-> Baseline,
   observed |-> Baseline, failed |-> None, tx |-> None, cleanup |-> {},
   rollback |-> None, evidence |-> {Baseline}]

Init ==
  /\ cache = [x \in Slots |-> IF x = "a" THEN Enrolled(3, TRUE)
                                         ELSE Enrolled(2, FALSE)]
  /\ disk = cache
  /\ pc = "off" /\ mem = None /\ w = None
  /\ published = {Baseline} /\ scratch = {} /\ used = {} /\ retired = {}
  /\ result = "none" /\ faults = 0 /\ outages = 0 /\ lost = {}
  /\ failures = {} /\ unsafe = FALSE

(***************************************************************************)
(* Control.                                                                *)
(***************************************************************************)
Goto(p) == /\ pc' = p /\ w' = None
           /\ mem' = IF p \in {"off", "recover"} THEN None ELSE mem

Persist(first, s, ok, fail) ==
  /\ pc' = first
  /\ w' = [state |-> s, slot |-> InactiveSlot(cache), ok |-> ok, fail |-> fail]
  /\ UNCHANGED mem

HelperWrite(s, ok, fail) == Persist("write", s, ok, fail)
RecoveryWrite(s) == Persist("truncate", s, "recover", "off")

(***************************************************************************)
(* SlotStore.write_state.                                                  *)
(***************************************************************************)
WriteRefused ==
  /\ pc = "write" /\ ~WriteChecked(cache, w.state)
  /\ Goto(w.fail)
  /\ UNCHANGED <<slotVars, diskVars, envVars>>

WriteSlot ==
  /\ pc = "write" /\ WriteChecked(cache, w.state)
  /\ cache' = [cache EXCEPT ![w.slot] = w.state]
  /\ unsafe' = (unsafe \/ Dirty(Other(w.slot)))
  /\ pc' = "flush"
  /\ UNCHANGED <<mem, w, disk, failures, diskVars, envVars>>

\* FlushFileBuffers succeeded and the slot reads back as written.
FlushSlot ==
  /\ pc = "flush"
  /\ disk' = [disk EXCEPT ![w.slot] = cache[w.slot]]
  /\ IF Selects(cache, w.slot)
     THEN pc' = w.ok /\ w' = None
          /\ mem' = IF w.ok = "off" THEN None ELSE w.state
     ELSE Goto(w.fail)
  /\ failures' = failures \cup ({w.state.failed} \ {None})
  /\ UNCHANGED <<cache, unsafe, diskVars, envVars>>

\* WriteFile or FlushFileBuffers reports an error.
WriteFault ==
  /\ pc \in {"write", "flush"} /\ faults < MaxFaults
  /\ pc = "write" => WriteChecked(cache, w.state)
  /\ \E f \in {cache[w.slot], w.state, Torn} :
       /\ f = Torn => pc = "write"
       /\ cache' = [cache EXCEPT ![w.slot] = f]
  /\ faults' = faults + 1
  /\ unsafe' = (unsafe \/ Dirty(Other(w.slot)))
  /\ Goto(w.fail)
  /\ UNCHANGED <<disk, failures, diskVars, outages, lost, result>>

(***************************************************************************)
(* The session: serve_session and the broker's handlers.                   *)
(***************************************************************************)
StartSession ==
  /\ pc = "off" /\ Openable(cache)
  /\ Goto("initial")
  /\ result' = "none"
  /\ UNCHANGED <<slotVars, diskVars, faults, outages, lost>>

\* EOF, a timeout or an unexpected message where a request is awaited, an
\* admission's end, or a release that never comes.
SessionEnds ==
  /\ pc \in {"initial", "admitted", "ready", "verified"}
  /\ Goto("off")
  /\ UNCHANGED <<slotVars, diskVars, envVars>>

AdmitUnchanged(r) ==
  /\ pc = "initial" /\ Selected(cache) /\ AdmissionUnchanged(Current(cache), r)
  /\ Goto("admitted")
  /\ UNCHANGED <<slotVars, diskVars, envVars>>

Admit(r) ==
  /\ pc = "initial" /\ Selected(cache) /\ AdmissionChanges(Current(cache), r)
  /\ HelperWrite(Admitted(Current(cache), r), "admitted", "off")
  /\ UNCHANGED <<slotVars, diskVars, envVars>>

\* The incoming container is created before the record that owns it.
BeginWith(r, repair, id) ==
  /\ pc = "initial" /\ Selected(cache) /\ id \notin used
  /\ BeginChecked(Current(cache), r, repair)
  /\ scratch' = scratch \cup {<<"incoming", id>>}
  /\ used' = used \cup {id}
  /\ LET next == Begun(Current(cache), r, id, repair) IN
       IF ValidTransition(Current(cache), next)
       THEN HelperWrite(next, "ready", "off")
       ELSE Goto("off")
  /\ UNCHANGED <<slotVars, published, retired, envVars>>

BeginUpdate(r, id) == BeginWith(r, FALSE, id)
BeginRepair(r, id) == BeginWith(r, TRUE, id)

\* APPLY with the artifacts missing, extraneous or not as signed, or with
\* no room for the staging container.
ApplyRejected ==
  /\ pc = "ready"
  /\ HelperWrite(Aborted(mem), "off", "off")
  /\ UNCHANGED <<slotVars, diskVars, envVars>>

\* handle_apply_request, as far as it can be told from here: what the launcher
\* copied may still not be the signed artifacts.
Handled == <<"incoming", mem.tx.id>> \in scratch

\* APPLY: the staging container is created before the record that owns it.
Apply ==
  /\ pc = "ready" /\ Handled
  /\ scratch' = scratch \cup {<<"staging", mem.tx.id>>}
  /\ HelperWrite(Building(mem), "build", "abort")
  /\ UNCHANGED <<slotVars, published, used, retired, envVars>>

\* _abort from the record the broker holds in memory.
Abort ==
  /\ pc = "abort"
  /\ HelperWrite(Aborted(mem), "off", "off")
  /\ UNCHANGED <<slotVars, diskVars, envVars>>

\* Building, publishing or verifying the candidate fails.
BuildFails ==
  /\ pc \in {"build", "publish", "replace", "check"}
  /\ Goto("abort")
  /\ UNCHANGED <<slotVars, diskVars, envVars>>

Build ==
  /\ pc = "build" /\ BuildAuthority(mem)
  /\ Goto("publish")
  /\ UNCHANGED <<slotVars, diskVars, envVars>>

\* An update publishes only to a free name.
Publish ==
  /\ pc = "publish" /\ mem.tx.candidate \notin published
  /\ published' = published \cup {mem.tx.candidate}
  /\ Goto("check")
  /\ UNCHANGED <<slotVars, scratch, used, retired, envVars>>

\* A repair first moves the generation it replaces out of the way.
Retire ==
  /\ pc = "publish" /\ mem.tx.repair /\ mem.tx.candidate \in published
  /\ published' = published \ {mem.tx.candidate}
  /\ retired' = retired \cup {mem.tx.candidate}
  /\ Goto("replace")
  /\ UNCHANGED <<slotVars, scratch, used, envVars>>

Replace ==
  /\ pc = "replace"
  /\ published' = published \cup {mem.tx.candidate}
  /\ retired' = retired \ {mem.tx.candidate}
  /\ Goto("check")
  /\ UNCHANGED <<slotVars, scratch, used, envVars>>

Check ==
  /\ pc = "check"
  /\ HelperWrite(Verified(mem), "verified", "abort")
  /\ UNCHANGED <<slotVars, diskVars, envVars>>

\* The launcher closes the pipe: the session is APPLY_VERIFIED.
Release ==
  /\ pc = "verified"
  /\ Goto("selftest")
  /\ UNCHANGED <<slotVars, diskVars, envVars>>

(***************************************************************************)
(* activate_verified_generation.                                           *)
(***************************************************************************)
\* run_probation_self_test on the published generation: its files, its Core
\* and its launcher.
SelfTestFails ==
  /\ pc = "selftest"
  /\ HelperWrite(Aborted(mem), "off", "off")
  /\ UNCHANGED <<slotVars, diskVars, envVars>>

SelfTestable == mem.tx.candidate \in published

Quiesce ==
  /\ pc = "selftest" /\ SelfTestable
  /\ HelperWrite(Quiescing(mem), "quiescing", "off")
  /\ UNCHANGED <<slotVars, diskVars, envVars>>

StartProbation ==
  /\ pc = "quiescing"
  /\ HelperWrite(Probation(mem), "probation", "off")
  /\ UNCHANGED <<slotVars, diskVars, envVars>>

Commit ==
  /\ pc = "probation"
  /\ HelperWrite(Committed(mem), "off", "off")
  /\ UNCHANGED <<slotVars, diskVars, envVars>>

(***************************************************************************)
(* RecoveryEngine.run_recovery.                                            *)
(***************************************************************************)
StartRecovery ==
  /\ pc = "off"
  /\ Goto("recover")
  /\ result' = "none"
  /\ UNCHANGED <<slotVars, diskVars, faults, outages, lost>>

RecoveryEnds(outcome) ==
  /\ Goto("off")
  /\ result' = outcome
  /\ UNCHANGED <<slotVars, diskVars, faults, outages, lost>>

Recovering(phases) ==
  pc = "recover" /\ Selected(cache) /\ Current(cache).phase \in phases

CommittedPresent(s) == s.committed = None \/ s.committed \in published

\* Only after a power loss, or before an enrollment has ended.
RecoverUnselected ==
  pc = "recover" /\ ~Selected(cache) /\ RecoveryEnds("repair")

\* Mutant: a healthy record is written again, as a refresh.
RecoverRefreshing ==
  /\ Recovering({"IDLE"}) /\ CommittedPresent(Current(cache))
  /\ IF result = "none"
     THEN /\ Persist("truncate", Cleaned(Current(cache)), "recover", "off")
          /\ result' = "converged"
          /\ UNCHANGED <<slotVars, diskVars, faults, outages, lost>>
     ELSE RecoveryEnds("converged")

RecoverHealthy ==
  /\ Recovering({"IDLE"}) /\ CommittedPresent(Current(cache))
  /\ RecoveryEnds("converged")

\* Mutant: the engine waits for the missing generation to come back.
RecoverWaiting ==
  /\ Recovering({"IDLE"}) /\ ~CommittedPresent(Current(cache))
  /\ Current(cache).previous = None
  /\ UNCHANGED vars

RecoverNoBackup ==
  /\ Recovering({"IDLE"}) /\ ~CommittedPresent(Current(cache))
  /\ Current(cache).previous = None
  /\ RecoveryEnds("repair")

RecoverMissing ==
  /\ Recovering({"IDLE"}) /\ ~CommittedPresent(Current(cache))
  /\ Current(cache).previous # None
  /\ RecoveryWrite(PostcommitRollback(Current(cache)))
  /\ UNCHANGED <<slotVars, diskVars, envVars>>

RecoverPreparing ==
  /\ Recovering({"PREPARING"})
  /\ RecoveryWrite(Aborted(Current(cache)))
  /\ UNCHANGED <<slotVars, diskVars, envVars>>

\* Deletion ignores its errors: a fault may let any of the containers survive.
RecoverCleaning ==
  /\ Recovering({"CLEANING"})
  /\ \E kept \in SUBSET Current(cache).cleanup :
       /\ scratch' = scratch \ (Current(cache).cleanup \ kept)
       /\ faults' = faults + (IF kept = {} THEN 0 ELSE 1)
       /\ faults' <= MaxFaults
  /\ RecoveryWrite(Cleaned(Current(cache)))
  /\ UNCHANGED <<slotVars, published, used, retired, outages, lost, result>>

RecoverInterrupted ==
  /\ Recovering({"QUIESCING", "PROBATION"})
  /\ RecoveryWrite(PrecommitRollback(Current(cache)))
  /\ UNCHANGED <<slotVars, diskVars, envVars>>

RecoverRollingBack ==
  /\ Recovering({"ROLLING_BACK"})
  /\ RecoveryWrite(RolledBack(Current(cache)))
  /\ UNCHANGED <<slotVars, diskVars, envVars>>

\* _write_next_slot: open with O_TRUNC, write, fsync; nothing is validated.
Truncate ==
  /\ pc = "truncate"
  /\ cache' = [cache EXCEPT ![w.slot] = Short]
  /\ unsafe' = (unsafe \/ Dirty(Other(w.slot)))
  /\ pc' = "rewrite"
  /\ UNCHANGED <<mem, w, disk, failures, diskVars, envVars>>

Rewrite ==
  /\ pc = "rewrite"
  /\ cache' = [cache EXCEPT ![w.slot] = w.state]
  /\ pc' = "sync"
  /\ UNCHANGED <<mem, w, disk, unsafe, failures, diskVars, envVars>>

Sync ==
  /\ pc = "sync"
  /\ disk' = [disk EXCEPT ![w.slot] = cache[w.slot]]
  /\ failures' = failures \cup ({w.state.failed} \ {None})
  /\ Goto("recover")
  /\ UNCHANGED <<cache, unsafe, diskVars, envVars>>

(***************************************************************************)
(* The environment.                                                        *)
(***************************************************************************)
\* The record about to be overwritten is the last one a power loss would keep.
Overtaking == pc = "write" /\ Dirty(Other(w.slot))

\* The launcher aborts the helper, or a process dies; a WriteFile in
\* progress may leave its slot torn.
Kill ==
  /\ pc # "off" /\ faults < MaxFaults
  /\ faults' = faults + 1
  /\ IF pc = "write" /\ WriteChecked(cache, w.state)
     THEN \E f \in {cache[w.slot], Torn} :
            cache' = [cache EXCEPT ![w.slot] = f]
     ELSE cache' = cache
  /\ unsafe' = (unsafe \/ Overtaking)
  /\ Goto("off")
  /\ UNCHANGED <<disk, failures, diskVars, outages, lost, result>>

BeingWritten == IF pc = "write" THEN {w.slot} ELSE {}

PowerLoss ==
  /\ outages < MaxOutages
  /\ outages' = outages + 1
  /\ \E img \in PowerLossImages(IF pc = "write" THEN {w.slot} ELSE {}) :
       /\ cache' = img
       /\ disk' = img
  /\ unsafe' = (unsafe \/ Overtaking)
  /\ Goto("off")
  /\ UNCHANGED <<failures, diskVars, faults, lost, result>>

LoseGeneration(r) ==
  /\ pc = "off" /\ r \in published \ lost /\ Cardinality(lost) < MaxLosses
  /\ published' = published \ {r}
  /\ lost' = lost \cup {r}
  /\ UNCHANGED <<procVars, slotVars, scratch, used, retired, faults, outages,
                 result>>

(***************************************************************************)
(* The specifications.                                                     *)
(***************************************************************************)
WriteStep == WriteRefused \/ WriteSlot \/ FlushSlot

\* What the helper does by itself; SessionEnds and Release answer for the
\* launcher, and every wait it ends is under a timeout.
HelperStep ==
  \/ WriteStep \/ Abort \/ Build \/ BuildFails \/ Publish \/ Retire
  \/ Replace \/ Check \/ SessionEnds \/ Release \/ SelfTestFails
  \/ Quiesce \/ StartProbation \/ Commit

Request ==
  \/ \E r \in Releases : AdmitUnchanged(r) \/ Admit(r)
  \/ \E r \in Releases, id \in Ids : BeginUpdate(r, id) \/ BeginRepair(r, id)
  \/ Apply \/ ApplyRejected

RecoveryStep ==
  \/ RecoverHealthy \/ RecoverNoBackup
  \/ RecoverMissing \/ RecoverPreparing \/ RecoverCleaning
  \/ RecoverInterrupted \/ RecoverRollingBack
  \/ Truncate \/ Rewrite \/ Sync

Fault == WriteFault \/ Kill \/ \E r \in Releases : LoseGeneration(r)

\* Sessions as the launcher runs them: nothing starts the recovery engine.
SessionNext == StartSession \/ Request \/ HelperStep \/ Fault

\* Sessions, recovery and process faults; no power loss.
ProcessNext == SessionNext \/ StartRecovery \/ RecoveryStep

Next == ProcessNext \/ RecoverUnselected \/ PowerLoss

Spec == Init /\ [][Next]_vars
ProcessSpec == Init /\ [][ProcessNext]_vars
FairSessionSpec == /\ Init /\ [][SessionNext]_vars
                   /\ WF_vars(HelperStep) /\ WF_vars(StartSession)

(***************************************************************************)
(* Properties.                                                             *)
(***************************************************************************)
\* The slots always select a record, whatever was interrupted: no step of
\* select_active_slot answers REPAIR_REQUIRED, so every record was written
\* with evidence for every binding it refers to and every pair of frames is
\* adjacent and legal, those the recovery engine writes unchecked included.
Recoverable == Selected(cache)

\* committed <= highwater <= observed, the order the generation builder
\* insists on, and one release per sequence among those trusted.
FloorOrder ==
  LET s == Current(cache)
      trusted == {s.committed, s.previous, s.highwater, s.observed} \ {None}
  IN
  /\ SeqOf(s.previous) <= SeqOf(s.committed)
  /\ SeqOf(s.committed) <= SeqOf(s.highwater)
  /\ SeqOf(s.highwater) <= SeqOf(s.observed)
  /\ \A p, q \in trusted : SeqNo[p] = SeqNo[q] => p = q

\* A release once durably recorded as failed is never again the candidate
\* of an update (CANDIDATE_SUPPRESSED), whatever was admitted, repaired or
\* rolled back since: unless a repair of it, the committed release, has been
\* committed after it failed, which leaves it as its own backup.
NotRetried ==
  LET s == Current(cache)
      Repaired == s.committed = s.tx.candidate /\ s.previous = s.tx.candidate
  IN
  s.tx # None => s.tx.repair \/ s.tx.candidate \notin failures \/ Repaired

\* The committed generation is on disk unless the environment destroyed it
\* or a repair moved it aside: no interrupted update, abort or rollback
\* selects a generation that was never published.
CommittedOnDisk ==
  Current(cache).committed \in published \cup lost \cup retired

\* A generation left behind by an attempt that died never occupies the name
\* a later update wants to publish to.
FreshName ==
  pc = "publish" /\ ~mem.tx.repair => mem.tx.candidate \notin published

\* The recovery engine gives up only when a generation is missing that the
\* environment destroyed or a repair moved aside; never for an interruption.
RecoveryHeals == result = "repair" => lost # {} \/ retired # {}

\* A slot file cut short by a crash of the recovery engine, which the helper
\* and the launcher refuse to open, is one the next recovery rewrites: the
\* record selected beside it is not a healthy IDLE.
ShortSlotHeals ==
  ~Openable(cache) /\ Selected(cache) =>
     \/ Current(cache).phase # "IDLE"
     \/ ~CommittedPresent(Current(cache))

\* Where the generations of committed releases and updates are.
GenerationsKept == CommittedOnDisk /\ FreshName

\* Recovery ends healthy where it can, and is not needed where it is refused.
RecoveryEffective == RecoveryHeals /\ ShortSlotHeals

Containers(s) ==
  s.cleanup \cup Scratch(s.tx)
  \cup (IF s.rollback = None THEN {} ELSE s.rollback.scratch)

\* Aborts, commits and postcommit rollbacks carry the record of every
\* scratch container along, so that a later cleanup can find it: also an
\* abort formulated from a record that is no longer the current one.
OwnershipKept ==
  [][LET s == Current(cache)
         t == Current(cache')
     IN \/ s.phase \in {"PREPARING", "PROBATION"} /\ t.phase # "ROLLING_BACK"
        \/ s.phase \in {"IDLE", "CLEANING"} /\ t.phase = "ROLLING_BACK"
        => Containers(s) \subseteq Containers(t)]_vars

\* In IDLE the next newer release can be begun and its build authorised,
\* with or without an admission first, whatever failed before; unless a
\* repair made the backup equal to the committed generation.
NextUpdateBuildable ==
  LET s == Current(cache)
      Buildable(u, r, id) ==
        LET next == Begun(u, r, id, FALSE) IN
        /\ BeginChecked(u, r, FALSE) /\ ValidTransition(u, next)
        /\ BuildAuthority(Building(next))
  IN
  s.phase = "IDLE" /\ s.previous # s.committed =>
    \A r \in {q \in Releases : SeqNo[q] > SeqNo[s.observed]}, id \in Ids :
      /\ Buildable(s, r, id)
      /\ AdmissionChanges(s, r) /\ Buildable(Admitted(s, r), r, id)

\* Every session ends: no wait is without a timeout and no write is retried.
SessionTerminates == pc \in HelperPcs ~> pc \notin HelperPcs

\* Every recovery run ends, from whatever record it starts.
RecoveryTerminates == pc \in RecoveryPcs ~> pc \notin RecoveryPcs

\* The updater implements UpdateAuthority.
Authority == INSTANCE UpdateAuthority WITH
  committed <- Current(cache).committed,
  previous  <- Current(cache).previous,
  highwater <- Current(cache).highwater,
  observed  <- Current(cache).observed,
  failed    <- Current(cache).failed,
  trial     <- IF Current(cache).tx = None THEN None
               ELSE Current(cache).tx.candidate,
  rolling   <- Current(cache).rollback # None
               /\ Current(cache).rollback.mode = "postcommit"

\* Every step of helper, recovery and faults is a step of the authority or
\* leaves it alone.
AuthoritySpec == Authority!Spec
=============================================================================
