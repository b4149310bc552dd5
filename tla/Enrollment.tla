------------------------------ MODULE Enrollment ------------------------------
(***************************************************************************)
(* How an installation comes to the state Updater starts from.  Setup      *)
(* deletes state, releases, incoming and staging and runs the launcher     *)
(* once with --enroll-baseline, a process that creates the marker, both    *)
(* slots at revision 1, the first committed record and its mirror, and     *)
(* copies the baseline to releases/.  It may be killed anywhere and run    *)
(* again, on what it left or after updates; sessions, recovery and faults  *)
(* are those of Updater.                                                   *)
(*                                                                         *)
(* A slot file that does not exist holds Torn in `cache`: the selector     *)
(* treats a missing frame and a torn one alike, and `files` tells them     *)
(* apart where the code does.                                              *)
(***************************************************************************)
EXTENDS Updater

VARIABLES
  marker,   \* enrollment.bin: "none", "torn" or "ok"
  files,    \* the slot files that exist
  durable,  \* those a power loss leaves as they are; "marker" for the marker
  report    \* success was reported, and no enrollment went to work since

enrollVars == <<marker, files, durable, report>>
allVars == <<vars, enrollVars>>

EnrollPcs == {"marker", "marking", "sealing", "slots", "create", "fill",
              "settle", "commit", "mirror", "copy"}

NoSlots == [x \in Slots |-> Torn]

\* state_rev1, the record both slots are created with.
Enrolling ==
  [Enrolled(1, FALSE) EXCEPT !.phase = "ENROLLING", !.committed = None,
                             !.highwater = None, !.observed = None]

\* [InstallDelete] has emptied the directory.
EnrollInit ==
  /\ cache = NoSlots /\ disk = NoSlots /\ files = {} /\ durable = {}
  /\ marker = "none"
  /\ pc = "off" /\ mem = None /\ w = None
  /\ published = {} /\ scratch = {} /\ used = {} /\ retired = {}
  /\ result = "none" /\ faults = 0 /\ outages = 0 /\ lost = {}
  /\ failures = {} /\ unsafe = FALSE /\ report = FALSE

\* Running Setup again: [InstallDelete] before the enrollment.
Setup ==
  /\ pc = "off"
  /\ cache' = NoSlots /\ disk' = NoSlots /\ files' = {} /\ durable' = {}
  /\ marker' = "none"
  /\ published' = {} /\ scratch' = {} /\ used' = {} /\ retired' = {}
  /\ result' = "none" /\ failures' = {} /\ unsafe' = FALSE /\ report' = FALSE
  /\ UNCHANGED <<procVars, faults, outages, lost>>

\* What load_selected_state returns, when it returns.
Loaded == files = Slots /\ Openable(cache) /\ Selected(cache)

AlreadyEnrolled ==
  Loaded /\ Current(cache).committed = Baseline /\ Current(cache).complete

Conflicting ==
  LET s == Current(cache) IN
  /\ Loaded /\ s.committed \notin {None, Baseline}
  /\ \/ SeqOf(s.committed) = SeqOf(Baseline)
     \/ SeqOf(s.highwater) > SeqOf(Baseline)

EnrollAgain ==
  /\ pc = "off" /\ AlreadyEnrolled
  /\ report' = TRUE
  /\ UNCHANGED <<vars, marker, files, durable>>

\* The identities hold and no conflicting record is selected; a record that
\* cannot be loaded is passed over.  The marker is written once: a complete
\* one is read and compared, not flushed.
StartEnrollment ==
  /\ pc = "off" /\ ~AlreadyEnrolled /\ ~Conflicting
  /\ marker # "torn"
  /\ Goto(IF marker = "none" THEN "marker" ELSE "slots")
  /\ report' = FALSE
  /\ UNCHANGED <<slotVars, diskVars, envVars, marker, files, durable>>

\* write_enrollment_marker: CREATE_NEW at its size, WriteFile, and then
\* FlushFileBuffers.
CreateMarker ==
  /\ pc = "marker"
  /\ marker' = "torn"
  /\ Goto("marking")
  /\ UNCHANGED <<slotVars, diskVars, envVars, files, durable, report>>

WriteMarker ==
  /\ pc = "marking"
  /\ marker' = "ok"
  /\ Goto("sealing")
  /\ UNCHANGED <<slotVars, diskVars, envVars, files, durable, report>>

\* Mutant: the marker is not flushed.
SealUnflushed ==
  /\ pc = "sealing"
  /\ Goto("slots")
  /\ UNCHANGED <<slotVars, diskVars, envVars, enrollVars>>

SealMarker ==
  /\ pc = "sealing"
  /\ durable' = durable \cup {"marker"}
  /\ Goto("slots")
  /\ UNCHANGED <<slotVars, diskVars, envVars, marker, files, report>>

\* Each of the three may report an error.
MarkerFault ==
  /\ pc \in {"marker", "marking", "sealing"} /\ faults < MaxFaults
  /\ faults' = faults + 1
  /\ Goto("off")
  /\ UNCHANGED <<slotVars, diskVars, outages, lost, result, enrollVars>>

(***************************************************************************)
(* enroll_state_directory.  It creates the missing slots one by one, and   *)
(* rewrites one that is torn beside a valid one; it only goes on from      *)
(* slots that hold revision 1, and each new slot is judged again with its  *)
(* neighbour before the next step.                                         *)
(***************************************************************************)
\* slot_*_individually_valid; and that the record is the initial one.
Valid(x) == IsState(cache[x]) /\ Authenticated(cache[x])
Anchors(x) == x \in files /\ cache[x] = Enrolling

\* Mutant: whatever the slots hold, enrollment starts over in the inactive one.
UnwrittenOrStale ==
  IF files = {} THEN {"a"}
  ELSE {x \in Slots : /\ Selected(cache) => x # ActiveSlot(cache)
                      /\ ~Anchors(x)}

\* The slot to write: a missing one, or a torn one beside an anchor.
Unwritten ==
  IF files = {} THEN {"a"}
  ELSE {x \in Slots : ~Valid(x) /\ Anchors(Other(x))}

BothInitial ==
  /\ \A x \in Slots : x \in files /\ Valid(x)
  /\ Selected(cache) /\ Current(cache) = Enrolling

SlotsRefused ==
  /\ pc = "slots"
  /\ ~Openable(cache) \/ (~BothInitial /\ Unwritten = {})
  /\ Goto("off")
  /\ UNCHANGED <<slotVars, diskVars, envVars, enrollVars>>

SlotsReady ==
  /\ pc = "slots" /\ Openable(cache) /\ BothInitial
  /\ Goto("commit")
  /\ UNCHANGED <<slotVars, diskVars, envVars, enrollVars>>

PrepareSlot ==
  /\ pc = "slots" /\ Openable(cache) /\ ~BothInitial
  /\ \E x \in Unwritten :
       /\ pc' = IF x \in files THEN "fill" ELSE "create"
       /\ w' = [state |-> Enrolling, slot |-> x, ok |-> "off", fail |-> "off"]
  /\ UNCHANGED <<mem, slotVars, diskVars, envVars, enrollVars>>

\* CREATE_NEW; the size comes after.
CreateSlot ==
  /\ pc = "create"
  /\ files' = files \cup {w.slot}
  /\ cache' = [cache EXCEPT ![w.slot] = Short]
  /\ pc' = "fill"
  /\ UNCHANGED <<mem, w, disk, unsafe, failures, diskVars, envVars, marker,
                 durable, report>>

FillSlot ==
  /\ pc = "fill"
  /\ cache' = [cache EXCEPT ![w.slot] = w.state]
  /\ unsafe' = (unsafe \/ Dirty(Other(w.slot)))
  /\ pc' = "settle"
  /\ UNCHANGED <<mem, w, disk, failures, diskVars, envVars, enrollVars>>

\* FlushFileBuffers succeeded, and the slot reads back as written.
SettleSlot ==
  /\ pc = "settle"
  /\ disk' = [disk EXCEPT ![w.slot] = cache[w.slot]]
  /\ durable' = durable \cup {w.slot}
  /\ Goto("slots")
  /\ UNCHANGED <<cache, unsafe, failures, diskVars, envVars, marker, files,
                 report>>

\* SetEndOfFile, WriteFile or FlushFileBuffers reports an error.
SlotFault ==
  /\ pc \in {"fill", "settle"} /\ faults < MaxFaults
  /\ \E f \in {cache[w.slot], w.state, Torn} :
       /\ pc = "settle" => f = cache[w.slot]
       /\ cache' = [cache EXCEPT ![w.slot] = f]
  /\ faults' = faults + 1
  /\ Goto("off")
  /\ UNCHANGED <<disk, unsafe, failures, diskVars, outages, lost, result,
                 enrollVars>>

(***************************************************************************)
(* The first committed record, its mirror, and the baseline generation.    *)
(***************************************************************************)
CommitBaseline ==
  /\ pc = "commit"
  /\ Persist("write", Enrolled(2, FALSE), "mirror", "off")
  /\ UNCHANGED <<slotVars, diskVars, envVars, enrollVars>>

MirrorBaseline ==
  /\ pc = "mirror"
  /\ Persist("write", Enrolled(3, TRUE), "copy", "off")
  /\ UNCHANGED <<slotVars, diskVars, envVars, enrollVars>>

\* An error of the copy is swallowed.
CopyBaseline ==
  /\ pc = "copy"
  /\ \/ published' = {Baseline} /\ faults' = faults
     \/ published' = {} /\ faults < MaxFaults /\ faults' = faults + 1
  /\ report' = TRUE
  /\ Goto("off")
  /\ UNCHANGED <<slotVars, scratch, used, retired, outages, lost, result,
                 marker, files, durable>>

(***************************************************************************)
(* The faults of Updater, while enrolling.                                 *)
(***************************************************************************)
\* A slot that was being filled may be left short, torn or written.
KillEnrollment ==
  /\ pc = "fill" /\ faults < MaxFaults
  /\ faults' = faults + 1
  /\ \E f \in {Torn, w.state} : cache' = [cache EXCEPT ![w.slot] = f]
  /\ Goto("off")
  /\ UNCHANGED <<disk, unsafe, failures, diskVars, outages, lost, result,
                 enrollVars>>

\* A power loss may also take a slot file or a marker nobody flushed, or leave
\* the marker torn.
EnrollmentOutage ==
  /\ PowerLoss
  /\ \E gone \in SUBSET (files \ durable) :
       /\ \A x \in gone : cache'[x] = Torn
       /\ files' = files \ gone
  /\ marker' \in IF marker = "none" \/ "marker" \in durable THEN {marker}
                                                         ELSE {"none", "torn", marker}
  /\ durable' = files' \cup (IF marker' = "none" THEN {} ELSE {"marker"})
  /\ UNCHANGED report

\* run_recovery on slots that select nothing, or an ENROLLING record.
RecoverUnenrolled ==
  /\ \/ RecoverUnselected
     \/ Recovering({"ENROLLING"}) /\ RecoveryEnds("repair")
  /\ UNCHANGED enrollVars

EnrollStep ==
  \/ CreateMarker \/ WriteMarker \/ SealMarker
  \/ SlotsRefused \/ SlotsReady \/ PrepareSlot
  \/ CreateSlot \/ FillSlot \/ SettleSlot
  \/ CommitBaseline \/ MirrorBaseline \/ CopyBaseline

\* Recovery creates the file it writes, and a flush keeps it; the helper does
\* not write a slot whose file does not exist.
FilesFollow ==
  /\ files' = files \cup (IF pc' = "rewrite" THEN {w.slot} ELSE {})
  /\ durable' = durable \cup (IF disk' # disk THEN {w.slot} ELSE {})
  /\ cache' # cache => w.slot \in files'
  /\ UNCHANGED <<marker, report>>

\* The helper's session starts only with a marker that matches its profile.
UpdaterStep ==
  /\ ProcessNext
  /\ pc = "off" /\ pc' = "initial" => marker = "ok"
  /\ FilesFollow

\* write_state finds no handle for the inactive slot.
WriteMissing ==
  /\ pc = "write" /\ w.slot \notin files
  /\ Goto(w.fail)
  /\ UNCHANGED <<slotVars, diskVars, envVars, enrollVars>>

EnrollNext ==
  \/ Setup \/ EnrollAgain \/ StartEnrollment \/ EnrollStep
  \/ MarkerFault \/ SlotFault \/ KillEnrollment \/ EnrollmentOutage
  \/ RecoverUnenrolled \/ UpdaterStep \/ WriteMissing

EnrollFairness ==
  /\ WF_allVars(EnrollStep)
  /\ WF_allVars((HelperStep /\ FilesFollow) \/ WriteMissing)
  /\ WF_allVars((RecoveryStep /\ FilesFollow) \/ RecoverUnenrolled)

EnrollSpec == EnrollInit /\ [][EnrollNext]_allVars /\ EnrollFairness

(***************************************************************************)
(* Properties.                                                             *)
(***************************************************************************)
\* As long as no slot was written while the other was still unflushed, a
\* power loss at any point, from the first flushed slot of the enrollment
\* on, leaves slots that select the record before or after the write in
\* progress.
PowerSafe ==
  Selected(disk) /\ ~unsafe /\ ~Overtaking =>
    \A img \in PowerLossImages(BeingWritten) :
      Selected(img) /\ Current(img) \in {Current(disk), Current(cache)}

\* When an enrollment reports success the installation is where Updater
\* starts, down to what a power loss would leave of its slots, or was enrolled
\* before.  The marker is complete, and would be left as well, unless a kill or
\* an error had cut an enrollment short: the next one takes a marker that was
\* written and not flushed for a durable one.
StartsUpdater ==
  report' /\ ~report =>
    \/ pc = "off" /\ AlreadyEnrolled
    \/ /\ marker = "ok" /\ files = Slots
       /\ cache = [x \in Slots |-> IF x = "a" THEN Enrolled(3, TRUE)
                                              ELSE Enrolled(2, FALSE)]
       /\ disk = cache /\ Slots \subseteq durable
       /\ "marker" \in durable \/ faults > 0

\* Nothing but Setup and a power loss takes a record back: neither running
\* the enrollment again, on whatever an update, a recovery or a kill has
\* left, nor any of these makes the slots select an older record or none.
NothingForgotten ==
  files' # {} /\ outages' = outages /\ Selected(cache) =>
    /\ Selected(cache')
    /\ Current(cache').revision >= Current(cache).revision

EnrollmentSafe == [][StartsUpdater /\ NothingForgotten]_allVars

\* Every enrollment ends.
EnrollmentTerminates == pc \in EnrollPcs ~> pc \notin EnrollPcs \cup {"write", "flush"}

\* Enrollments, sessions and recovery runs: whatever holds the slots comes
\* to an end.
HelperEnds == SessionTerminates /\ RecoveryTerminates /\ EnrollmentTerminates
=============================================================================
