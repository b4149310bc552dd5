------------------------------- MODULE Delivery -------------------------------
(***************************************************************************)
(* How a published release reaches an installation: the launcher's update  *)
(* coordinator and its worker, the store of staged generations, the window *)
(* that applies them (at launch, on request, on close) and the helper      *)
(* sessions, over what UpdateAuthority says of the helper's durable state. *)
(*                                                                         *)
(* main.py ends the process with os._exit, so closing the window kills the *)
(* worker between any two of its steps.  Which components a release        *)
(* changes is left out: every release changes one.                         *)
(***************************************************************************)
EXTENDS Naturals, Sequences

CONSTANTS Releases,   \* sequence numbers of the releases of one major line
          Reinstall,  \* those a 5.x updater cannot install
          Baseline, None,
          MaxQueue,   \* tasks waiting for the update executor
          MaxCrashes, \* launchers or helpers killed by something else
          MaxDamage   \* staged generations damaged on disk

ASSUME DeliveryAssumption ==
  /\ Releases \subseteq Nat /\ Baseline \in Releases /\ None \notin Releases
  /\ Reinstall \subseteq Releases \ {Baseline}
  /\ MaxQueue \in Nat \ {0} /\ MaxCrashes \in Nat /\ MaxDamage \in Nat

VARIABLES
  committed, previous, highwater, observed, failed, trial, rolling,
  exe,      \* the release NekoLauncher.exe of the root is of, None if it is gone
  core,     \* the release ProxyCore of the root is of, or None when two are mixed
  session,  \* the helper session that holds the slots, or None
  ptr,      \* update-pending/current.json: the release it names, or None
  gens,     \* update-pending/generations
  newest,   \* the release the repository serves as latest
  tk,       \* where the launcher's main thread is
  at,       \* where the update executor's thread is
  arg,      \* the locals of the task it runs
  queue,    \* the tasks behind it
  snap,     \* the coordinator's _current_snapshot
  started,  \* _startup_done
  found,    \* _startup_resolved: the release the startup check found
  report,   \* the release the window offers to repair, from its last file check
  win,      \* the pending update the window holds
  applying, \* _update_apply_pending, and whether its future is done
  game,     \* pso2.exe runs
  crashes, damage

SeqNo == [r \in Releases |-> r]
Authority == INSTANCE UpdateAuthority

authority == <<committed, previous, highwater, observed, failed, trial, rolling>>
store  == <<ptr, gens>>
root   == <<exe, core>>
worker == <<at, arg, queue>>
checks == <<found, report>>
ui     == <<snap, started, win, applying>>
env    == <<newest, game, crashes, damage>>
vars == <<authority, session, store, root, tk, worker, checks, ui, env>>

Optional(S) == S \cup {None}
Dispositions == {"none", "current", "mandatory", "reinstall"}
Snapshots == [pending: Optional(Releases), disp: Dispositions]
NoSnapshot == [pending |-> None, disp |-> "none"]
Sessions == [by: {"boot", "worker", "close", "nobody"}, release: Releases,
             stage: {"ready", "applied", "active"}]
ASSUME SessionAssumption == None \notin Sessions
Locals == [release: Optional(Releases), pending: Optional(Releases),
           disp: Dispositions, repair: BOOLEAN]
NoLocals == [release |-> None, pending |-> None, disp |-> "none",
             repair |-> FALSE]
Tasks == [kind: {"startup", "apply", "check", "repair"}, release: Optional(Releases)]
Phases == {"idle", "resolve", "judge", "admit", "stage", "download", "remove",
           "place", "point", "sweep", "publish", "broken", "repaired",
           "apply", "handoff"}
Tks == {"off", "sync", "aside", "copy", "stale", "load", "boot", "ui", "offer", "closing"}

TypeOK ==
  /\ committed \in Releases /\ previous \in Optional(Releases)
  /\ highwater \in Releases /\ observed \in Releases
  /\ failed \in Optional(Releases) /\ trial \in Optional(Releases)
  /\ exe \in Optional(Releases) /\ core \in Optional(Releases)
  /\ rolling \in BOOLEAN /\ session \in Optional(Sessions)
  /\ ptr \in Optional(Releases)
  /\ gens \in [Releases -> {"absent", "whole", "damaged"}]
  /\ newest \in Releases /\ tk \in Tks /\ at \in Phases /\ arg \in Locals
  /\ queue \in Seq(Tasks) /\ Len(queue) <= MaxQueue
  /\ found \in Optional(Releases) /\ report \in Optional(Releases \ Reinstall)
  /\ snap \in Snapshots /\ started \in BOOLEAN /\ win \in Optional(Releases)
  /\ applying \in {"no", "submitted", "failed", "prepared"} /\ game \in BOOLEAN
  /\ crashes \in 0..MaxCrashes /\ damage \in 0..MaxDamage

Init ==
  /\ Authority!Init /\ exe = Baseline /\ core = Baseline
  /\ session = None /\ ptr = None /\ gens = [r \in Releases |-> "absent"]
  /\ newest = Baseline /\ tk = "off"
  /\ at = "idle" /\ arg = NoLocals /\ queue = <<>>
  /\ snap = NoSnapshot /\ started = FALSE /\ win = None /\ applying = "no"
  /\ found = None /\ report = None
  /\ game = FALSE /\ crashes = 0 /\ damage = 0

(***************************************************************************)
(* What the launcher reads from the disk.                                  *)
(***************************************************************************)
\* AuthenticatedReleaseIdentityReader.read: the slots can be opened and hold
\* one admitted release.
Readable == session = None /\ observed = highwater

\* The pointer names a release at or below r, and one above it.
PointsUpTo(r) == IF ptr = None THEN FALSE ELSE ptr <= r
PointsAbove(r) == IF ptr = None THEN FALSE ELSE ptr > r

\* PendingUpdateStore.load_verified.
Loadable(r) == /\ ptr = r /\ gens[r] = "whole"
               /\ highwater = r /\ r > committed /\ failed # r

Loaded == IF Readable /\ ptr # None /\ Loadable(ptr) THEN ptr ELSE None

\* evaluate_release; a retry is LATEST with retry_staging.
Verdict(r) ==
  IF r < highwater THEN "downgrade"
  ELSE IF r > highwater THEN "available"
  ELSE IF r \in {committed, failed} THEN "latest" ELSE "retry"

\* The installed updater is the one the release is bound to.
Installable(r) == r \notin Reinstall

\* classify_startup_release; it raises for a downgrade.
Disposition(r) ==
  IF r < highwater THEN "none"
  ELSE IF r = committed THEN "current"
  ELSE IF Installable(r) THEN "mandatory" ELSE "reinstall"

LoginOpen == /\ started /\ snap.pending = None
             /\ snap.disp \notin {"mandatory", "reinstall"}

(***************************************************************************)
(* Handing a staged generation to the helper: prepare_pending.             *)
(***************************************************************************)
\* BEGIN is accepted: the helper's durable state is PREPARING.
BeginAccepted(by, r) ==
  /\ session = None /\ Authority!Try(r)
  /\ session' = [by |-> by, release |-> r, stage |-> "ready"]

\* The helper does not start, or does not answer and is killed before it has
\* written anything.
NoHelper == UNCHANGED <<authority, session>>

\* The slots are held, a transaction is open, or the release is not wanted.
Unwilling(r) == \/ session # None \/ ~Authority!Quiet \/ r < observed
                \/ r = observed /\ failed = r /\ r # committed

BeginRefused(r) == NoHelper \/ (Unwilling(r) /\ UNCHANGED <<authority, session>>)

Holds(by, stage) == session # None /\ session.by = by /\ session.stage = stage

\* The artifacts are copied and checked, APPLY is answered with accepted.
ApplyAccepted(by) ==
  /\ Holds(by, "ready") /\ gens[session.release] = "whole"
  /\ session' = [session EXCEPT !.stage = "applied"]
  /\ UNCHANGED authority

\* The helper refuses the artifacts and records the release as failed.
ApplyRejected(by) == Holds(by, "ready") /\ session' = None /\ Authority!Reject

\* PreparedUpdate.abort: the helper is killed and its transaction stays open.
Abort(by) ==
  /\ session # None /\ session.by = by
  /\ session' = None /\ UNCHANGED authority

CopyFails(by) ==
  Holds(by, "ready") /\ gens[session.release] # "whole" /\ Abort(by)

\* An answer comes too late: the helper may have written what it answers.
TimesOut(by) == Holds(by, "ready") /\ Abort(by)

\* How prepare_pending fails once the helper has taken BEGIN.
PrepareFails(by) == ApplyRejected(by) \/ CopyFails(by) \/ TimesOut(by)

\* PreparedUpdate.release: the helper sees EOF and goes on by itself.
Released == session' = [session EXCEPT !.by = "nobody", !.stage = "active"]

\* What a helper does when the launcher that drives it dies: it goes on once
\* its answer is in the pipe, and ends at once before that.
LeftAlone ==
  IF session = None \/ session.by = "nobody" THEN UNCHANGED session
  ELSE \/ Released /\ (session.stage = "applied" \/ gens[session.release] = "whole")
       \/ session.stage = "ready" /\ session' = None

\* activate_verified_generation.
Activate ==
  /\ Holds("nobody", "active")
  /\ Authority!Accept \/ Authority!Reject
  /\ session' = None
  /\ UNCHANGED <<root, checks, store, tk, worker, ui, env>>

HelperKilled ==
  /\ Holds("nobody", "active") /\ crashes < MaxCrashes
  /\ crashes' = crashes + 1 /\ session' = None
  /\ UNCHANGED <<root, checks, authority, store, tk, worker, ui, newest, game, damage>>

(***************************************************************************)
(* The environment.                                                        *)
(***************************************************************************)
ReleasePublished ==
  /\ \E r \in Releases : r > newest /\ newest' = r
  /\ UNCHANGED <<root, checks, authority, session, store, tk, worker, ui, game, crashes, damage>>

GameChanges ==
  /\ game' = ~game
  /\ UNCHANGED <<root, checks, authority, session, store, tk, worker, ui, newest, crashes, damage>>

GenerationDamaged ==
  /\ ptr # None /\ gens[ptr] = "whole" /\ damage < MaxDamage
  /\ gens' = [gens EXCEPT ![ptr] = "damaged"]
  /\ damage' = damage + 1
  /\ UNCHANGED <<root, checks, authority, session, ptr, tk, worker, ui, newest, game, crashes>>

(***************************************************************************)
(* The launcher process.                                                   *)
(***************************************************************************)
Launch ==
  /\ tk = "off" /\ exe # None /\ tk' = "sync"
  /\ UNCHANGED <<authority, session, store, root, worker, checks, ui, env>>

\* _maybe_sync_committed_generation: the root gets the launcher of the
\* committed release and then its Core, if the launcher differs.
SyncNothing ==
  /\ tk = "sync" /\ tk' = "stale"
  /\ UNCHANGED <<authority, session, store, root, worker, checks, ui, env>>

\* The running launcher is moved aside; _replace_executable_atomically.
SyncAside ==
  /\ tk = "sync" /\ session = None /\ exe # committed
  /\ tk' = "aside"
  /\ UNCHANGED <<authority, session, store, root, worker, checks, ui, env>>

SyncLauncher ==
  /\ tk = "aside"
  /\ \/ exe' = committed /\ tk' = "copy"
     \/ UNCHANGED exe /\ tk' = "stale"
  /\ UNCHANGED <<authority, session, store, core, worker, checks, ui, env>>

\* Everything in memory goes; what the threads were doing is cut short.
Gone ==
  /\ tk' = "off" /\ at' = "idle" /\ arg' = NoLocals /\ queue' = <<>>
  /\ snap' = NoSnapshot /\ started' = FALSE /\ win' = None /\ applying' = "no"
  /\ found' = None /\ report' = None

\* The Core is copied file by file over the old one; then the new launcher
\* is started.
SyncCore ==
  /\ tk = "copy" /\ core' = committed /\ Gone
  /\ UNCHANGED <<authority, session, store, exe, env>>

SyncCoreFails ==
  /\ tk = "copy" /\ core' = None /\ tk' = "stale"
  /\ UNCHANGED <<authority, session, store, exe, worker, checks, ui, env>>

Crash ==
  /\ tk # "off" /\ crashes < MaxCrashes
  /\ crashes' = crashes + 1
  /\ Gone /\ LeftAlone
  /\ exe' = IF tk = "aside" THEN None ELSE exe
  /\ core' \in IF tk = "copy" THEN {core, None} ELSE {core}
  /\ UNCHANGED <<authority, store, newest, game, damage>>

\* try_apply_pending_on_launch: a pointer at or below the committed release is
\* cleared, the pointer first and its generation after it.
ClearStalePointer ==
  /\ tk = "stale" /\ Readable /\ PointsUpTo(committed)
  /\ ptr' = None /\ tk' = "load"
  /\ gens' \in {gens, [gens EXCEPT ![ptr] = "absent"]}
  /\ UNCHANGED <<root, checks, authority, session, worker, ui, env>>

NothingStale ==
  /\ tk = "stale" /\ Readable /\ ~PointsUpTo(committed)
  /\ tk' = "load"
  /\ UNCHANGED <<root, checks, authority, session, store, worker, ui, env>>

\* The window is built; it takes the coordinator's current snapshot.
OpenWindow ==
  /\ tk' = "ui" /\ queue' = <<[kind |-> "startup", release |-> None]>>
  /\ snap' = [pending |-> Loaded,
              disp |-> IF Loaded = None THEN "none" ELSE "mandatory"]
  /\ win' = Loaded
  /\ UNCHANGED <<at, arg, started, applying>>

BootWithoutUpdate ==
  /\ \/ tk = "stale" /\ ~Readable
     \/ tk = "load" /\ Loaded = None
     \/ tk = "load" /\ game
  /\ OpenWindow
  /\ UNCHANGED <<root, checks, authority, session, store, env>>

BootBegin ==
  /\ tk = "load" /\ Loaded # None /\ ~game
  /\ BeginAccepted("boot", Loaded)
  /\ tk' = "boot"
  /\ UNCHANGED <<root, checks, store, worker, ui, env>>

BootBeginRefused ==
  /\ tk = "load" /\ Loaded # None /\ ~game
  /\ BeginRefused(Loaded) /\ OpenWindow
  /\ UNCHANGED <<root, checks, store, env>>

BootApplied ==
  /\ tk = "boot" /\ ApplyAccepted("boot")
  /\ UNCHANGED <<root, checks, store, tk, worker, ui, env>>

BootFails ==
  /\ tk = "boot" /\ PrepareFails("boot")
  /\ OpenWindow
  /\ UNCHANGED <<root, checks, store, env>>

\* HANDOFF_STARTED: the process ends and starts itself again later.
BootHandsOff ==
  /\ tk = "boot" /\ Holds("boot", "applied")
  /\ Released /\ Gone
  /\ UNCHANGED <<root, authority, store, env>>

(***************************************************************************)
(* The update executor: SoftwareUpdateCoordinator.startup.                 *)
(***************************************************************************)
Take(kind, phase) ==
  /\ at = "idle" /\ queue # <<>> /\ Head(queue).kind = kind
  /\ at' = phase /\ queue' = Tail(queue)

Step(phase, locals) == at' = phase /\ arg' = locals /\ UNCHANGED queue

\* _run_startup up to the check.  Without an identity the check ends at once
\* with what the store says then.
StartupReads ==
  /\ Take("startup", "resolve") /\ Readable
  /\ arg' = [NoLocals EXCEPT !.pending = Loaded]
  /\ gens' = [r \in Releases |-> IF r = ptr THEN gens[r] ELSE "absent"]
  /\ snap' = [pending |-> Loaded,
              disp |-> IF Loaded = None THEN "none" ELSE "mandatory"]
  /\ UNCHANGED <<root, checks, authority, session, ptr, tk, started, win, applying, env>>

\* Mutant: the exception ends the task, and nothing is published.
StartupGivesUp ==
  /\ Take("startup", "idle") /\ ~Readable
  /\ arg' = NoLocals
  /\ UNCHANGED <<root, checks, authority, session, store, tk, ui, env>>

StartupUnreadable ==
  /\ Take("startup", "broken") /\ ~Readable
  /\ arg' = NoLocals
  /\ UNCHANGED <<root, checks, authority, session, store, tk, ui, env>>

Finish(pending, disp) ==
  Step("publish", [NoLocals EXCEPT !.pending = pending, !.disp = disp])

Kept(disp) == IF arg.pending # None THEN "mandatory" ELSE disp

\* The repository serves no release.
NothingServed ==
  /\ at = "resolve" /\ Finish(arg.pending, Kept("current"))
  /\ UNCHANGED <<root, checks, authority, session, store, tk, ui, env>>

\* Mutant: without an answer there is no update.
CheckForgets ==
  /\ at = "resolve" /\ Finish(None, "none")
  /\ UNCHANGED <<root, checks, authority, session, store, tk, ui, env>>

\* It cannot be reached, what it serves is not authentic, or it cannot be
\* compared with the installation.
CheckFails ==
  /\ at \in {"resolve", "judge"} /\ Finish(arg.pending, Kept("none"))
  /\ UNCHANGED <<root, checks, authority, session, store, tk, ui, env>>

ShouldAdmit(r) ==
  /\ Disposition(r) # "current"
  /\ Verdict(r) \in {"available", "retry"} \/ Disposition(r) = "mandatory"

\* What the repository serves as latest, with its manifest; while that is
\* downloaded another release may take its place.
Fetch ==
  /\ at = "resolve" /\ Step("judge", [arg EXCEPT !.release = newest])
  /\ UNCHANGED <<root, checks, authority, session, store, tk, ui, env>>

Resolve ==
  /\ at = "judge" /\ Readable
  /\ IF Installable(arg.release) /\ ShouldAdmit(arg.release)
     THEN Step("admit", [arg EXCEPT !.disp = Disposition(arg.release)])
     ELSE Finish(arg.pending, Disposition(arg.release))
  /\ found' = arg.release
  /\ UNCHANGED <<root, report, authority, session, store, tk, ui, env>>

(***************************************************************************)
(* Admission by a helper session of its own.                               *)
(***************************************************************************)
\* Mutant: a release admitted before is refused like one below the floor.
AdmitOnce(r) == FALSE

AdmitUnchanged(r) == /\ Authority!Quiet /\ highwater = r /\ observed = r
                     /\ failed # r /\ UNCHANGED authority

\* Admitted: the snapshot says STAGING, with the pending update it had.
AdmitAccepted ==
  /\ at = "admit" /\ session = None
  /\ Authority!Admit(arg.release) \/ AdmitUnchanged(arg.release)
  /\ Step("stage", arg)
  /\ snap' = [pending |-> arg.pending, disp |-> arg.disp]
  /\ UNCHANGED <<root, checks, session, store, tk, started, win, applying, env>>

\* The helper writes the admission; its answer or its exit comes too late.
AdmitAnswerLost ==
  /\ at = "admit" /\ session = None
  /\ Authority!Admit(arg.release)
  /\ Finish(arg.pending, arg.disp)
  /\ UNCHANGED <<root, checks, session, store, tk, ui, env>>

AdmitRefused ==
  /\ at = "admit"
  /\ Finish(arg.pending, arg.disp)
  /\ UNCHANGED <<root, checks, authority, session, store, tk, ui, env>>

(***************************************************************************)
(* Staging: SoftwareUpdateStageService.stage and PendingUpdateStore.       *)
(***************************************************************************)
Staging(r) == /\ highwater = r /\ observed = r /\ failed # r /\ r > committed
              /\ ~PointsAbove(r)


StageExisting ==
  /\ at = "stage" /\ Readable /\ Loaded = arg.release
  /\ Finish(arg.release, arg.disp)
  /\ UNCHANGED <<root, checks, authority, session, store, tk, ui, env>>

StageRefused ==
  /\ at = "stage" /\ Readable /\ ~Staging(arg.release)
  /\ Finish(arg.pending, arg.disp)
  /\ UNCHANGED <<root, checks, authority, session, store, tk, ui, env>>

StageUnreadable ==
  /\ at = "stage" /\ ~Readable
  /\ Step("broken", arg)
  /\ UNCHANGED <<root, checks, authority, session, store, tk, ui, env>>

\* Mutant: a release that is staged already is staged again.
StageAgain ==
  /\ at = "stage" /\ Readable /\ Staging(arg.release)
  /\ Step("download", arg)
  /\ UNCHANGED <<root, checks, authority, session, store, tk, ui, env>>

StageMissing ==
  /\ at = "stage" /\ Readable /\ Staging(arg.release) /\ Loaded # arg.release
  /\ Step("download", arg)
  /\ UNCHANGED <<root, checks, authority, session, store, tk, ui, env>>

\* What ends a task without a new pending update.
TaskFails ==
  IF arg.repair THEN Step("idle", NoLocals) ELSE Finish(arg.pending, arg.disp)

DownloadFails ==
  /\ at = "download" /\ TaskFails
  /\ UNCHANGED <<root, checks, authority, session, store, tk, ui, env>>

\* Mutant: whatever was downloaded is promoted.
DownloadAny ==
  /\ at = "download" /\ Step("remove", arg)
  /\ UNCHANGED <<root, checks, authority, session, store, tk, ui, env>>

\* promote refuses a release below the one the pointer names; otherwise the
\* new generation is complete in a temporary directory.
Download ==
  /\ at = "download"
  /\ IF PointsAbove(arg.release) THEN TaskFails ELSE Step("remove", arg)
  /\ UNCHANGED <<root, checks, authority, session, store, tk, ui, env>>

\* rmtree ignores its errors: some of the old generation may be left.
RemoveOld ==
  /\ at = "remove" /\ Step("place", arg)
  /\ \E left \in {"absent", "damaged"} :
       /\ left = "damaged" => gens[arg.release] # "absent"
       /\ gens' = [gens EXCEPT ![arg.release] = left]
  /\ UNCHANGED <<root, checks, authority, session, ptr, tk, ui, env>>

PlaceFails ==
  /\ at = "place" /\ gens[arg.release] # "absent" /\ TaskFails
  /\ UNCHANGED <<root, checks, authority, session, store, tk, ui, env>>

Place ==
  /\ at = "place" /\ gens[arg.release] = "absent"
  /\ gens' = [gens EXCEPT ![arg.release] = "whole"]
  /\ Step("point", arg)
  /\ UNCHANGED <<root, checks, authority, session, ptr, tk, ui, env>>

Point ==
  /\ at = "point" /\ ptr' = arg.release /\ Step("sweep", arg)
  /\ UNCHANGED <<root, checks, authority, session, gens, tk, ui, env>>

Swept == gens' = [r \in Releases |->
                    IF r = arg.release THEN gens[r] ELSE "absent"]

Sweep ==
  /\ at = "sweep" /\ Swept
  /\ IF arg.repair THEN Step("repaired", arg)
                   ELSE Finish(arg.release, arg.disp)
  /\ UNCHANGED <<root, checks, authority, session, ptr, tk, ui, env>>

\* startup's except branch: what the store says now.
Broken ==
  /\ at = "broken"
  /\ Finish(Loaded, IF Loaded # None THEN "mandatory" ELSE "none")
  /\ UNCHANGED <<root, checks, authority, session, store, tk, ui, env>>

Publish ==
  /\ at = "publish"
  /\ snap' = [pending |-> arg.pending, disp |-> arg.disp]
  /\ started' = TRUE
  /\ Step("idle", NoLocals)
  /\ UNCHANGED <<root, checks, authority, session, store, tk, win, applying, env>>

(***************************************************************************)
(* Repair of the installed release, as _handle_file_repair composes it.    *)
(***************************************************************************)
Queued(kind) == \E i \in 1..Len(queue) : queue[i].kind = kind

\* _start_file_check, asked for or after a repair.
RequestCheck ==
  /\ tk = "ui" /\ Len(queue) < MaxQueue /\ ~Queued("check")
  /\ queue' = Append(queue, [kind |-> "check", release |-> None])
  /\ UNCHANGED <<root, checks, authority, session, store, tk, at, arg, ui, env>>

\* The installed release; if a helper holds the slots, the one that the startup
\* check found.
Compared == IF session = None THEN committed ELSE found

\* check_installed_files: a file of the root may be damaged at any time, and one
\* of another release counts as damaged; without its own updater, nothing can be
\* repaired.
Repairable(r) == IF Installable(r) THEN {r, None} ELSE {None}

FileCheck ==
  /\ Take("check", "idle") /\ arg' = NoLocals
  /\ report' \in IF Compared = None THEN {report} ELSE Repairable(Compared)
  /\ UNCHANGED <<root, found, authority, session, store, tk, ui, env>>

\* The release is the one of the report, whatever has happened since.
RequestRepair ==
  /\ tk = "ui" /\ Len(queue) < MaxQueue /\ ~Queued("repair")
  /\ report # None
  /\ queue' = Append(queue, [kind |-> "repair", release |-> report])
  /\ UNCHANGED <<root, checks, authority, session, store, tk, at, arg, ui, env>>

\* The exact release is resolved, and the updater checked before anything else;
\* either may fail, and the repair with it.
StartRepair ==
  /\ Take("repair", "download")
  /\ arg' = [NoLocals EXCEPT !.release = Head(queue).release, !.repair = TRUE]
  /\ UNCHANGED <<root, checks, authority, session, store, tk, ui, env>>

\* The session it is given is the admission service, which has neither
\* prepare_repair nor prepare_pending nor apply: the repair ends in an error.
RepairFails ==
  /\ at = "repaired" /\ Step("idle", NoLocals)
  /\ UNCHANGED <<root, checks, authority, session, store, tk, ui, env>>

(***************************************************************************)
(* The window: applying on request, after the check and on close.          *)
(***************************************************************************)
TakeAnswer ==
  /\ tk = "ui" /\ started /\ win # snap.pending
  /\ win' = snap.pending
  /\ UNCHANGED <<root, checks, authority, session, store, tk, worker, snap, started,
                 applying, env>>

\* _get_verified_pending_update: what the window holds, which may be older
\* than what the worker has staged since.
WindowPending == IF win # None THEN win ELSE snap.pending

SubmitApply ==
  /\ tk = "ui" /\ applying = "no" /\ ~game /\ WindowPending # None
  /\ Len(queue) < MaxQueue
  /\ applying' = "submitted" /\ win' = WindowPending
  /\ queue' = Append(queue, [kind |-> "apply", release |-> WindowPending])
  /\ UNCHANGED <<root, checks, authority, session, store, tk, at, arg, snap, started, env>>

StartApply ==
  /\ Take("apply", "apply")
  /\ arg' = [NoLocals EXCEPT !.release = Head(queue).release]
  /\ UNCHANGED <<root, checks, authority, session, store, tk, ui, env>>

ApplyEnds(result) ==
  /\ Step("idle", NoLocals)
  /\ applying' = result
  /\ UNCHANGED <<root, checks, store, tk, snap, started, win, env>>

\* What was captured at the request is handed over; the store is not read again.
ApplyBegin ==
  /\ at = "apply" /\ ~game
  /\ BeginAccepted("worker", arg.release)
  /\ Step("handoff", arg)
  /\ UNCHANGED <<root, checks, store, tk, ui, env>>

ApplyBlocked ==
  /\ at = "apply"
  /\ \/ game /\ UNCHANGED <<authority, session>>
     \/ BeginRefused(arg.release)
  /\ ApplyEnds("failed")

ApplyCopied ==
  /\ at = "handoff" /\ ApplyAccepted("worker")
  /\ ApplyEnds("prepared")

ApplyFails ==
  /\ at = "handoff" /\ PrepareFails("worker")
  /\ ApplyEnds("failed")

\* finish() on the Tk thread.
TkApplyFailed ==
  /\ tk = "ui" /\ applying = "failed" /\ applying' = "no"
  /\ UNCHANGED <<root, checks, authority, session, store, tk, worker, snap, started, win, env>>

TkRelaunch ==
  /\ tk = "ui" /\ applying = "prepared"
  /\ Released /\ Gone
  /\ UNCHANGED <<root, authority, store, env>>

\* _perform_close: a future that is done is aborted, one that is not gets
\* _abort_update_apply_future as its callback.
Close ==
  /\ tk = "ui"
  /\ IF applying = "no" /\ ~game /\ WindowPending # None
     THEN tk' = "offer" /\ win' = WindowPending
     ELSE tk' = "closing" /\ UNCHANGED win
  /\ IF applying = "prepared"
     THEN Abort("worker") /\ applying' = "no"
     ELSE UNCHANGED <<authority, session, applying>>
  /\ UNCHANGED <<root, checks, store, worker, snap, started, env>>

AbortCallback ==
  /\ tk = "closing" /\ applying = "prepared"
  /\ Abort("worker") /\ applying' = "no"
  /\ UNCHANGED <<root, checks, store, tk, worker, snap, started, win, env>>

CloseBegin ==
  /\ tk = "offer" /\ BeginAccepted("close", win)
  /\ tk' = "closing"
  /\ UNCHANGED <<root, checks, store, worker, ui, env>>

CloseBeginRefused ==
  /\ tk = "offer" /\ BeginRefused(win)
  /\ tk' = "closing"
  /\ UNCHANGED <<root, checks, store, worker, ui, env>>

CloseApplied ==
  /\ tk = "closing" /\ ApplyAccepted("close")
  /\ UNCHANGED <<root, checks, store, tk, worker, ui, env>>

CloseFails ==
  /\ tk = "closing" /\ PrepareFails("close")
  /\ UNCHANGED <<root, checks, store, tk, worker, ui, env>>

\* The end of main: os._exit, whatever the update executor is doing.
Exit ==
  /\ tk = "closing" /\ ~Holds("close", "ready")
  /\ IF Holds("close", "applied") THEN Released ELSE LeftAlone
  /\ Gone
  /\ UNCHANGED <<root, authority, store, env>>

-----------------------------------------------------------------------------
Helper == Activate
Boot == \/ SyncNothing \/ SyncAside \/ SyncLauncher \/ SyncCore
        \/ SyncCoreFails
        \/ ClearStalePointer \/ NothingStale \/ BootWithoutUpdate
        \/ BootBegin \/ BootBeginRefused \/ BootApplied \/ BootFails
        \/ BootHandsOff
Check == \/ StartupReads \/ StartupUnreadable
         \/ NothingServed \/ CheckFails \/ Fetch \/ Resolve
         \/ AdmitAccepted \/ AdmitAnswerLost \/ AdmitRefused
         \/ StageExisting \/ StageRefused \/ StageUnreadable \/ StageMissing
         \/ DownloadFails \/ Download \/ RemoveOld \/ PlaceFails \/ Place
         \/ Point \/ Sweep \/ Broken \/ Publish
Repair == FileCheck \/ StartRepair \/ RepairFails
Apply == \/ StartApply \/ ApplyBegin \/ ApplyBlocked \/ ApplyCopied
         \/ ApplyFails
Window == TakeAnswer \/ TkApplyFailed \/ TkRelaunch
Closing == \/ AbortCallback \/ CloseBegin \/ CloseBeginRefused
           \/ CloseApplied \/ CloseFails \/ Exit
User == Launch \/ RequestCheck \/ RequestRepair \/ SubmitApply \/ Close \/ GameChanges
Fault == Crash \/ HelperKilled \/ ReleasePublished \/ GenerationDamaged

Next == \/ Helper \/ Boot \/ Check \/ Repair \/ Apply \/ Window \/ Closing
        \/ User \/ Fault

Spec == Init /\ [][Next]_vars

\* What the program does by itself.
Fairness ==
  /\ WF_vars(Helper) /\ WF_vars(Boot) /\ WF_vars(Check) /\ WF_vars(Repair)
  /\ WF_vars(Apply) /\ WF_vars(Window) /\ WF_vars(Closing)
FairSpec == Spec /\ Fairness

\* A player who opens the launcher again and again, over a network that works
\* again and again, and who in the end closes it only when its check is over,
\* repairs nothing and does not start the game; the helper starts in the end.
Restless ==
  \/ RequestCheck \/ RequestRepair
  \/ ~game /\ GameChanges
  \/ Close /\ ~(started /\ at = "idle" /\ queue = <<>>)
  \/ BootBeginRefused /\ ~Unwilling(Loaded)
Patience ==
  /\ WF_vars(Launch) /\ SF_vars(Close /\ ~Restless) /\ SF_vars(Fetch) /\ SF_vars(Resolve)
  /\ SF_vars(AdmitAccepted) /\ SF_vars(Download)
  /\ SF_vars(RemoveOld /\ gens'[arg.release] = "absent")
  /\ <>[][~Restless]_vars /\ <>[]~game
PatientSpec == FairSpec /\ Patience

(***************************************************************************)
(* Properties.                                                             *)
(***************************************************************************)
\* What a session is about to copy is there: no worker removes or sweeps a
\* generation between the request and the copy.
NotSweptUnderSession ==
  session # None /\ session.stage = "ready" /\ damage = 0 =>
    gens[session.release] = "whole"

\* A staged release the helper would take is not lost by what the launcher
\* does next: only the disk, the authority, a newer release or a transaction on it
\* ends it; a repair of the installed release and a second staging do not.
StagedSurvives ==
  [][\A r \in Releases :
       Loadable(r) /\ ~Loadable(r)' =>
         \/ authority' # authority \/ damage' # damage
         \/ PointsAbove(r)' \/ trial = r]_vars

\* Login is refused as long as a staged update waits to be applied, whatever
\* the worker, the window and the helper did in between.
GateHolds == tk = "ui" /\ LoginOpen /\ trial = None => Loaded = None

\* A release this updater cannot install never becomes the floor.
NeverFloored == highwater \notin Reinstall /\ observed \notin Reinstall

\* The types and what the store and the helper hold of releases.
StoreOK == TypeOK /\ NotSweptUnderSession /\ NeverFloored

\* The startup check ends, with the gate decided, whatever the network, the
\* helper and the store answer.
StartupEnds == tk = "ui" ~> started \/ tk = "off"

\* A release that stays the newest is committed or has failed in the end,
\* unless the updater cannot install it or a transaction was left open.
Delivered ==
  []<>(\/ newest \in {committed, failed} \cup Reinstall
       \/ trial # None \/ exe = None)
=============================================================================
