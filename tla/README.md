# Verification of the Neko Family Proxy launcher

TLA+ models of the launcher of Neko Family Proxy, of its updater, of the server
it talks to, of the tooling that releases it and of the agent that watches the
proxy; the TLC configurations that check the models on small instances; and
TLAPS proofs of what matters most about the updater, the delivery of updates, the
proxy session, the Core host, signing in, the server, the release ledger and the
Discord worker for every instance. Paths are relative to the root of the repository;
`launcher/…/x.py` stands for `launcher/src/neko_launcher/x.py` under `src/`.

Run, in this directory:

    tlc -workers 2 -config MCUpdater_process.cfg MCUpdater
    tlapm ProxySessionProofs.tla

The modules with proofs are `UpdaterProofs`, `DeliveryProofs`,
`ProxySessionProofs`, `CoreHostProofs`, `SignInProofs`, `SessionAuthorityProofs`,
`ReleaseLedgerProofs` and `DiscordWorkerProofs`.

`PROJECT.json` lists the runs, the mutants that show that each property can be
broken by a plausible bug, the source lines every definition stands for, the
hazards and the theorems.

## 1. The system

The launcher is a Tk desktop program for Windows. It signs a player in on the
web, claims a session from a Supabase back end, starts a native *Core* process
for the running game (`pso2.exe`), and asks a server for a launch permit that
the Core checks. It updates itself and the Core through a separate *helper*
process that owns a transactional installation. A Python agent watches the proxy
server, and Python scripts build, sign and publish releases.

### 1.1 Components

**Updater helper** (`launcher/…/updater/`). State: a record (revision, phase,
committed, previous, high water, observed, failed, transaction, rollback,
cleanup, evidence) in two slot files, generations under `releases/`, scratch
containers under `incoming/` and `staging/`. Operations: admit an authority,
begin, apply, build, publish, check, probation, commit, abort, roll back, clean,
recover. The launcher starts one helper per session and talks to it over a
pipe; the next start of any process reads the slots. Hard: kills between any two
steps, writes that are in doubt, power loss, floors that must not sink, aborts
formulated from a stale record. Correct when: one record is always selectable,
what is committed is on disk, what failed is not tried again, every session and
every recovery ends. Modelled by `Updater` and the modules below it.

**Helper transport and trust** (`auth_handshake`, `ipc_channel`,
`process_spawner`, `lock_manager`, `root_validator`, `trust*`, `manifest_v2`,
`core_manifest_verifier`, `zip_extractor`). State: pipe, installation lock,
process handles. Not modelled: `Updater` and `Delivery` assume that one helper
holds the lock and that what it accepts is verified.

**Enrollment** (`updater/enrollment.py`, `bootstrap/baseline_enrollment.py`).
State: the marker, the first three revisions of the slots and the baseline
generation. Hard: a kill between any two of them or between a write and its flush,
a second run on what the first left or on a record an update has moved. Modelled by
`Enrollment`.

**Proxy session** (`application/controller.py`, `services.py`,
`authorized_core.py`, `ui/app_window.py`). State: one immutable `AppState`
replaced atomically, `_proxy_operation_lock`, the active cancellation, the
window's own flags, the queue of the one worker thread and the queue of answers
for the Tk thread. Operations: sign in, heartbeat, start, stop, reconnect, sign
out, revoke, close, and the handling of game detection, telemetry and timers.
Hard: every handler reads `AppState`, decides, and publishes later; the lock is
held only around the Core; the Tk thread and the worker interleave between.
Correct when no proxy outlives the right to it, no start is lost or doubled, and
sign-out and closing always get through. Modelled by `ProxySession`.

**Automatic reconnect controller** (`application/reconnect.py`). State: armed,
blocked, attempts, the scheduled and the in-flight attempt. Shared by Tk timers
and worker tasks. Hard: stale timers and late completions. Modelled by
`Reconnect`, with its callers in `ProxySession`.

**Update coordinator, policy, check** (`application/software_update_*.py`,
`infrastructure/github_*.py`). State: the current and the startup snapshot, the
startup disposition, two locks. Operations: startup, the login gate, staging,
file check and repair. Hard: a check that fails after one that found a mandatory
update; a release that failed but is still mandatory; answers of the helper that
come too late. Modelled by `Delivery`.

**Staged updates, admission, hand-off**
(`infrastructure/software_update_pending_store.py`, `…_stage.py`,
`…_authority_admission.py`, `…_apply.py`, `bootstrap/pending_update_bootstrap.py`,
`main.py`). State: a pointer file, generation directories, the files of the root.
Hard: `os._exit` and crashes between the directory and the pointer, a pending
update overtaken by another, the game starting between the check and the
hand-off. Modelled by `Delivery`.

**Core host** (`infrastructure/core/`). State: owned process, job, pipe, guarded
handles. Hard: a spawn that fails half way, exit against timeout, a pipe that
breaks between two requests or is served by somebody else, two threads shutting
down at once. Modelled by `CoreHost`.

**Web sign-in and gateways** (`infrastructure/auth/`, `application/services.py`).
State: tokens in memory and in a vault, a loopback listener with one single-use
state. Hard: rotation of refresh tokens against deaths and lost answers, a late
callback, a cancel at any moment. Modelled by `SignIn`.

**Server** (`supabase/migrations`, `supabase/functions`). State: web sessions,
sessions with one active per user, permit attempts. Operations: claim, heartbeat,
release, authorise a permit, count an attempt. Hard: transactions of several
launchers that wait for advisory locks, heartbeats outside them, a permit signed
after its transaction. Modelled by `SessionAuthority`.

**Release tooling** (`scripts/`). State: an append-only sequence ledger, custody
of the signed envelopes, drafts and releases on GitHub. Hard: an interrupted
append, two processes at once, a death between going public and recording it.
Modelled by `ReleaseLedger`.

**Agents** (`agent/`). State: the alert state machine, traffic counters and a
JSON file. Hard: posts that fail or whose answer is lost, kills, clocks that a
boot starts again. Modelled by `DiscordWorker`.

**The rest**: composition and the single-instance mutex (`bootstrap/`), scans and
diagnostics (`application/file_*.py`, `diagnostics.py`), views (`ui/`), the
end-to-end harness (`e2e/`), the installer (its deletions are the `Setup` of
`Enrollment`), the workflows.

### 1.2 How they interact

    Tk thread --submit--> worker thread --lock--> Core host (process, pipe)
        ^  \                |  |                       |
        |   timers          |  +--HTTP--> server       | telemetry
        +---answers---------+                          |
        +----------------------------------------------+
    coordinator --check/stage--> pending store --hand-off--> helper --> slots
    Setup --> enrollment --> slots                  recovery engine --> slots
    release tooling --> GitHub --> coordinator

`AppState` is the only state the Tk thread and the worker share besides the
reconnect controller and the Core adapter; the slots are the only state the
updater's processes share; the pending store is shared by the update executor,
the window and the next launch.

The models meet in three places. `Updater` implements `UpdateAuthority`, and
`Delivery` runs the launcher over `UpdateAuthority`: what the helper does to its
record, the one has in full and the other by its promise. `Enrollment` ends in the
initial state of `Updater` and goes on with its steps. `ProxySession` sees the
Core and the server as events, `CoreHost`, `SignIn` and `SessionAuthority` have
them in detail.

## 2. Modules

| Module | What it is |
|---|---|
| `UpdateState` | the updater's record: its type, `ValidTransition`, and every transition the code formulates |
| `SlotStore` | the two slots and `select_active_slot` |
| `Updater` | helper sessions, `write_state`, recovery, kills, failed writes, power loss |
| `UpdateAuthority` | the abstract specification: what is committed, tried, failed, and the floors |
| `Enrollment` | Setup and enrollment before `Updater`, and again after it |
| `Delivery` | launcher, update worker, window, pending store and root over `UpdateAuthority` |
| `Reconnect` | `AppState` and the operations of the reconnect controller |
| `ProxySession` | the Tk thread, the worker thread, the Core and the world |
| `CoreHost` | Core processes, control pipe, job object, and the two threads that call them |
| `SignIn` | browser sign-in, vault, token rotation, session calls, two launches |
| `SessionAuthority` | the server's transactions for one user |
| `ReleaseLedger` | ledger, custody, drafts and releases, and the processes that write them |
| `DiscordWorker` | the Discord worker and the weekly maintenance over one state file |
| `MC…` | small instances of each |
| `UpdaterClaims` | what a document says of the updater and the code does not do |
| `UpdaterProofs` | theorems and proofs about the record's transitions, the updater and its refinement of `UpdateAuthority`, and the past of its releases |
| `DeliveryProofs` | the theorems about staged updates and the login gate and their proofs |
| `ProxySessionProofs`, `CoreHostProofs`, `SignInProofs` | theorems and proofs about the launcher's processes |
| `SessionAuthorityProofs` | the theorem about the server and its proof |
| `ReleaseLedgerProofs` | the theorems about the release ledger and their proofs |
| `DiscordWorkerProofs` | the theorems about the worker's messages, counts and alerts and their proofs |

### 2.1 The updater and its enrollment

`UpdateState` has one operator per record the code writes: `Admitted`,
`Begun`, `Verified`, … with the checks that precede it (`BeginChecked`,
`AdmissionChanges`, `BuildAuthority`), and the relation `ValidTransition` of
`state_machine.py`, which `select_active_slot` and `write_state` ask for. A
release stands for its signed envelope; `SeqNo` is its sequence, and two
releases may share one. Evidence is the set of releases whose envelopes a record
carries; `Prune` is `_prune_evidence`.

`SlotStore` gives each slot file two contents: `cache`, what any process reads
back, and `disk`, what a power loss leaves. A frame is a record, `Torn` (bad
checksum) or `Short` (wrong size).

`Updater` has a control point `pc`, the record `mem` the helper holds in memory,
and the write `w` in progress. Each action is a handler up to its next durable
effect: creating containers, formulating a record, `WriteSlot` (WriteFile),
`FlushSlot` (FlushFileBuffers and read-back), renames. `WriteFault` is an error
reported by either call, `Kill` a process that dies (a `WriteFile` in progress
may leave the slot torn), `PowerLoss` keeps, drops or tears what was not
flushed, `LoseGeneration` destroys a generation from outside. Recovery is the
loop of `recovery_engine.py`; its own slot writer truncates, writes and syncs
without validating.

| Code | Actions |
|---|---|
| `broker.py` requests | `StartSession`, `Admit*`, `Begin*`, `Apply*`, `Release`, `SessionEnds` |
| `staging_handoff.py` | `Apply` finds the container it made (`Handled`) |
| `generation_builder.py`, `generation_publisher.py` | `Build`, `BuildFails`, `Publish`, `Retire`, `Replace`, `Check` |
| `activation.py`, `probation_runner.py` | `SelfTestFails`, `Quiesce` (`SelfTestable`), `StartProbation`, `Commit` |
| `precommit_abort.py`, `broker._abort` | `Abort` |
| `slot_store.write_state` | `WriteRefused`, `WriteSlot`, `FlushSlot`, `WriteFault` |
| `recovery_engine.py` | `StartRecovery`, `Recover*`, `Truncate`, `Rewrite`, `Sync` |

`Enrollment` adds the marker (`none`, `torn`, `ok`), which slot files exist and
which of these files, the marker among them, a power loss leaves in the directory
(`files`, `durable`: a file is durable from its first flush on), and whether
success was reported. `Setup` empties the directory as `[InstallDelete]` of the
installer does. `write_enrollment_marker` is `CreateMarker` (the file at its size),
`WriteMarker` and `SealMarker` (FlushFileBuffers), each of which may fail
(`MarkerFault`) or be the last step of a killed process; a run that finds a
complete marker starts at the slots and flushes nothing of it (`StartEnrollment`).
`SlotsRefused` … `CopyBaseline` are the steps of `enroll_state_directory` and
`enroll_baseline`; `SlotsReady` and `PrepareSlot`
decide, as the code, which half-written slots may be written again;
`EnrollAgain` and `AlreadyEnrolled` are a run on an enrolled directory. A slot
that does not exist is `Torn` for the selector, as in the code. Recovery creates
the file it writes and a flush makes it durable (`FilesFollow`), but the helper
refuses to write a slot whose file is missing (`WriteMissing`).

### 2.2 Delivery

One launcher at a time: the main thread (`tk`: synchronise the root, clear a
stale pointer, apply a pending update, run the window, close), the update executor
(`at` with its locals `arg` and the `queue` behind it), and a helper session over
the authority's record. The repository serves `newest`.

| Code | Actions |
|---|---|
| `main.py`, root synchronisation | `Launch`, `SyncAside`, `SyncLauncher`, `SyncCore`, `SyncCoreFails`, `Gone` |
| `pending_update_bootstrap.py` | `ClearStalePointer`, `BootBegin`, `BootBeginRefused`, `BootApplied`, `BootFails`, `BootHandsOff` |
| coordinator `startup`, policy, check | `StartupReads`, `Fetch`, `Resolve`, `NothingServed`, `CheckFails`, `Publish`, `LoginOpen` |
| `software_update_authority_admission.py` | `AdmitAccepted`, `AdmitAnswerLost`, `AdmitRefused` |
| `software_update_stage.py`, pending store | `StageExisting` … `Download`, `RemoveOld`, `Place`, `Point`, `Sweep`, `Broken` |
| file check and repair | `RequestCheck`, `FileCheck`, `RequestRepair`, `StartRepair`, `RepairFails` |
| apply on request and on close | `SubmitApply`, `StartApply`, `Apply*`, `TkRelaunch`, `Close`, `AbortCallback`, `Close*`, `Exit` |
| the helper | `Activate`, `HelperKilled`, `NoHelper` (it does not start or answers too late), `TimesOut` |

`Exit` is `os._exit`: the executor stops between any two of its steps, and the next
launch finds what it left. A check that finds an update holds the login until a
launch has handed it to the helper.

### 2.3 The proxy session

`ProxySession` gives the Tk thread and the worker thread a place (`tk.at`,
`worker.at`); every read of `AppState` that decides something, and every
publication that follows it, is a step of its own, so that the other thread may
run in every gap the code leaves. `_proxy_operation_lock` is held across steps
only while the gateway starts (`StartSteps`), so `LockFree` says whether
another thread may take it. Tasks and answers are FIFO queues, as those of a
one-thread executor and of `root.after`.

| Code | Actions |
|---|---|
| `services.py` sign-in, heartbeat, sign-out | `Claim`, `AuthSucceed`, `Beat`, `RevokeHost`, `RevokeSession`, `Leave`, `SignOutHost` |
| `controller.start_proxy`, `_start_proxy` | `Admit`, `PublishStarting`, `Register`, `Lock`, `Settle`, `Report`, `Undo`, `Clear` |
| `authorized_core.py` | `Target`, `Host`, `Permit`, `Authorize` |
| `reconnect.py` with its callbacks | `ReconnectTimer`, `MarkBegun`, `HealthDone`, `Mark`, `Complete`, `ReconnectDone`, `MarkFailed` |
| process detection | `PollTimer`, `Snapshot` and what a poll sees of it (`Shown`, `Sees*`), `PollDone`, `Apply`, `StopHost`, `TkRevoke*`, `Resume` |
| startup route | `SignInDone`, `ProbeDone`, `Observe` |
| telemetry | `Telemeter` |
| the user | `SignIn`, `SignOut`, `RetryProxy`, `Close` … `Exit` |
| the world | `GameStarts`, `GameExits`, `CoreCrashes`, `LicenseExpires` |

Points worth knowing when reading it against the code:

- `SignOutHost` merges the host's shutdown and the publication that follows it
  under the same task; `Apply` merges the update of a dispatch with the
  cancellation and the STOPPING status it publishes at once.
- The fields `then` and `keep` of `tk` are what the dispatch of
  `GameProcessStateChanged` read one step before it publishes.
- A snapshot may miss a game that has no visible window yet: bound to a process
  the detector matches its identity, unbound it wants a window.
- A loss of the Core is published as DISCONNECTED once per transition
  (`core_telemetry_client.py`), a live Core is sampled again and again.
- A failed recheck or permit, a timeout too, is never safe to retry; a permit
  refused with 401 signs nobody out, the next heartbeat does.
- `Exit` is `os._exit` after the mainloop (`main.py`): the worker ends wherever
  it is, and the Core goes with its lifetime job.
- The Core is external: absent, idle or running. Its own reaction to the exit of
  its target is not part of the repository.
- Attempts, sessions and targets are compared only for equality. A fresh one is
  any value that nothing still holds, which is what makes the sets finite.

### 2.4 The Core host

The worker and the closing window each run one operation (start, reconnect, stop,
shutdown) under the operation lock, except that a superseded start stops the
gateway, and a closing window shuts down, outside it. A start begins (`Begin`,
`Fresh`), reuses, discards or creates the host (`Reuse`, `Discard`, `Create`,
`Adopt`: the process is in the job before the adapter knows it), connects
(`Channel`) and exchanges one frame per step of the protocol: `Ask`, the Core's
`Handle`, `Receive`, or `Late` when the time is over, in which case the frame may
still be handled. `Kill` is `TerminateProcess`, with the job's closing as what
remains when it fails; `LauncherEnds` closes the job. `Serve` lets any host, a
stray one of another launcher too, answer behind the pipe's name.

### 2.5 Sign-in

The worker's jobs are login, heartbeat, the probe of an automatic reconnect, a
call without a session's meaning (`coupon`), and sign-out; a closing window
releases the session on a thread of its own. A refresh token is its family and
turn; `Refresh` sends it under the gateway's lock, `Rotate` is the service's half
of the exchange, `Keep` the saving of what came back, `Discard` and `Forget` the
deletions. `Answers`, `Told` and `Outcomes` are what a call can come back with:
transient, expired, replaced, revoked, without entitlement, or an error body that
breaks off while it is read. `Submit`, `Cancel`, `Callback` and `Teardown` race as
they do between the Tk thread, the browser and the listener.

### 2.6 The server

A call is a transaction of several statements; each is a step that sees what was
committed when it began, and its `start` is what `now()` returns throughout. Claims
and releases take the user's advisory lock (`LockClaim`), heartbeats none, the two
permit transactions a lock of their own (`LockRate`, `RecordAttempt`,
`Authorize`). `Breaks` is a connection lost at any point, a call whose launcher has
given up goes on. `SignPermit` is the signing after the commit.

### 2.7 The release ledger

`Reserve`, `Sign*`, `Publish*`, `Supersede*` are the commands of
`release_controller.py`, `publish_atomic_release.py` and
`production_sequence_ledger.py`, each under the file lock and in the order of its
writes: event, envelope, draft, upload, verification, promotion, record.
`Restart` is a process that dies anywhere; `CutAppend` a line cut short;
`OpenFails` the lock file that cannot be opened after its path was marked.
`Views` are what a supersession is told of the live releases: the provider of the
published releases, or a custody directory, whose records it reads under a name
they do not have, so that it sees no release at all (`Bound`, `Seen`). The run and
the theorems have both.

### 2.8 The agents

A request to Discord is two steps, what Discord stores and the answer, with its
retries. `Sample`, `StatusTick`, `SummaryTick` and their ends are the worker's
loop, `Publish` … `Boot` the weekly maintenance that stops it, edits the same
message and reboots. `StopFails` is a `systemctl` that reports an error, which the
controller handles; `StopTimesOut` one that does not answer within 15 seconds,
whose exception ends the controller with nothing announced; `ControllerKilled` the
end of the controller's own service in between.

## 3. Runs

| Run | Instance | Shows |
|---|---|---|
| `process` | `Updater`: 3 releases, 2 transaction ids, 1 fault, 1 lost generation, no power loss (`ProcessSpec`) | the safety of the updater under kills and failed writes, and that it implements `UpdateAuthority` |
| `power` | `Enrollment`: 2 releases, 1 id, 1 process fault, 1 power loss | what a power loss can leave; what enrollment leaves; whatever holds the slots ends |
| `cleaning` | `UpdaterClaims` | violated: that what ends in CLEANING is cleaned in the end |
| `proxy` | `ProxySession`: 2 attempts, sessions and targets, retry budget 2, 4 disturbances | no proxy outlives the right to it, attempts are single-flight |
| `proxy_liveness` | 1 session and target, retry budget 1, 3 disturbances | reconnects, sign-outs and closing end |
| `staging` | `Delivery`: 4 releases, the last for another updater, queue 2, 1 crash, 1 damaged generation | a staged update survives, login stays closed while it waits, floors and sessions keep what they name |
| `delivered` | `Delivery`: 3 releases, the last for another updater, queue 1 | every check ends, every release that stays newest is delivered |
| `core` | `CoreHost`: 2 Cores and a stray one | frames reach the owned host, none is forgotten alive, operations end |
| `auth` | `SignIn`: 2 sign-ins, 2 turns of a token, 2 launches, 2 faults | spent tokens, sign-out, cancel; sign-ins end, losses are noticed |
| `server` | `SessionAuthority`: 2 launchers, 2 calls, 2 claims, 2 attempts, 3 instants | the latest claim wins, the rate limit holds |
| `release` | `ReleaseLedger`: 2 processes, 2 sequences (the second with a frozen Core), 2 faults, 1 torn append, 1 lock failure, both views of a supersession | one envelope per sequence, releases in order, a public release is recorded unless a supersession that cannot see it gives it up |
| `status` | `DiscordWorker`: 3 messages, 1 of each fault, flip, kill, deletion, refusal and packet | one message, counts and alerts that agree with it |

### 3.1 Bounds

`process`, `power`. Three releases are the least that let one release fail while
another is committed and a third raises the floor; `MaxFaults` counts kills and
failed writes over a whole behaviour, which is unbounded otherwise: sessions and
recoveries repeat as long as the releases last. One fault at every step of every
session covers each interruption on its own; the inductive invariant was also
checked with two, and the theorems below hold for any number. `MaxLosses` is the
number of generations destroyed from outside, `MaxOutages` the number of power
losses. Transaction ids are compared only for equality (symmetry). The view of
`process` drops `disk` and `unsafe`, which nothing reads without a power loss.

`proxy`. `MaxEvents` counts disturbances: what the user does, failed requests,
crashes, the exit and start of the game, an expiring licence. Timers, polls,
heartbeats and telemetry are not counted. Four disturbances are enough for, say,
a sign-in, a game, a crash of the Core and a sign-out while the reconnect runs.
`MaxQueue` is the number of waiting tasks and answers at which the periodic timers
hold back: the mainloop drains its answers far more often than its timers fire,
and user intents are not held back.

`staging`, `delivered`. Three installable releases let one be staged, a second
supersede it and a third be published meanwhile; the last release of each
instance is one this updater cannot install. `MaxQueue` 2 is a check and an apply
behind the task under way; `delivered` has 1, because its fairness makes the
graph large, and one waiting task is what can delay the check it is about.

`core`. The second Core is the one a restart creates while the first may still die;
the stray one is another launcher's behind the same pipe name. `auth`. Two launches,
so that the second finds what the first left in the vault; two turns are a token,
its successor, and the use of the spent one. `server`. Two claims are one that
replaces the other, with heartbeats, releases and permits of both; the third instant
makes a session lapse and lets an attempt leave the window. `release`. A second
sequence is what overtakes the first. `status`. One of each disturbance, in any
order and at any step. The cooldown of an alert is asked only after more changes of
health than the run has; an instance with three, and no deleted message, was checked
besides (574008 states), and the theorems hold for any number.

Deadlock is not checked where the system may stop: the launcher has ended
(`proxy`, `core`), every sequence is published and a failed ledger refuses all
commands (`release`), the host is down (`status`).

### 3.2 Fairness

The helper (`HelperStep`), recovery (`RecoveryStep`) and enrollment are weakly
fair: a process that runs takes its next step, and every wait for the launcher
is under a timeout. `cleaning` assumes that the launcher starts sessions again
and, as the code does, that nothing starts the recovery engine.

In the proxy session the worker is weakly fair because it never waits for the Tk
thread; the steps of a Tk handler are weakly fair because the mainloop runs a
handler to its end; answers, the poll timer, reconnect timers and telemetry are
strongly fair because the mainloop takes its callbacks in order and no one
starves another. User intents, faults and the world have no fairness.

In `Delivery` `Fairness` is what the program does by itself, and all `StartupEnds`
needs. `Delivered` adds `Patience`: the player opens the launcher again and again,
lets its check end before closing it, and in the end does not play or repair; the
repository, a download, an admission and a removal that are tried again and again
succeed again and again; and in the end the helper starts. None of this is the
code's, all of it is what an update needs from the world; what remains when it is
given is the code's.

In `CoreHost` and `SignIn` each thread is strongly fair: every wait has a deadline
and locks are handed over; a killed process ends; heartbeats are submitted as long
as the timer runs. In `ReleaseLedger` a running controller goes on, a refused one
is started again, and whoever pursues the newest release tries again with the
payload it was built with, after removing leftover drafts. In `DiscordWorker` the
loop ticks, requests are answered, systemd restarts the worker and the host boots.

### 3.3 Where documents and code differ

`cleaning` is kept as a violated run: a commit or an abort ends in CLEANING, BEGIN
is refused outside IDLE, and only the recovery engine leads back, which nothing
starts. The following were found the same way, with a counterexample of TLC, and are
recorded here. Where a property exempts one of them it says so. What some hazards of
`PROJECT.json` fear does happen, and no property claims otherwise: the kill between
the renames of a repair, the kill between the post of a summary and its save, the
permit signed after a claim has replaced its session, and the release that failed
and stays mandatory.

Updater and delivery:

- Committing a repair makes the release its own backup (`activation.py:124`), and
  no later build is accepted (`generation_builder.py:408`);
  `docs/superpowers/specs/2026-09-06-software-update-phase-3-design.md:234` says
  "previous is lower than committed."
- A helper killed between WriteFile and FlushFileBuffers leaves a record that the
  next session builds on; a power loss then leaves two frames that are not adjacent
  (`slot_store.py:472`), which line 232 of the same document excludes for
  interrupted writes.
- A rollback drops the record of containers that are still on disk
  (`recovery_engine.py:207`); a kill between the two renames of a repair leaves no
  committed directory (`generation_publisher.py:53`).
- An enrollment killed after its first committed record cannot be finished:
  `enroll_state_directory` raises REPAIR_REQUIRED, although line 410 of the same
  document says "Manual --enroll may finish the mirror". A torn marker refuses
  every later run too. Running Setup again heals both.
- An enrollment that was killed, or whose flush failed, between the write and the
  flush of the marker (`enrollment.py:634`) leaves a complete marker that the next
  run accepts and does not flush (`:616`) before it reports success; a power loss
  may take it. Line 404 of the same document says "Marker is flushed/reread".
  `EnrollmentSafe` promises a flushed marker as long as nothing has failed. A run on
  an installation whose slots are enrolled reports success without looking at the
  marker (`baseline_enrollment.py:236`).
- The synchronisation of the root can leave the Core of one release beside the
  launcher of another (`main.py:141`), although its docstring says "safely replace
  and relaunch" (`main.py:101`).
- A release that failed and was rolled back stays a mandatory update for the
  startup policy (`software_update_coordinator.py:337`, `:381`) while the helper
  never retries it: login stays closed until something newer is published.
- A helper killed in the middle of a transaction leaves it open, and no later
  session settles it, contrary to
  `docs/superpowers/plans/2026-09-06-software-update-phase-3-slice-f-interruption-recovery.md:7`.
- Between "prepared" and the relaunch the file check compares with the release the
  startup check found (`app_window.py:1000`) and may offer a repair to it.

Proxy session and sign-in:

- A start that is being reported overwrites the STOPPED of an exit
  (`controller.py:404`, `:426`), which the test at `test_controller.py:215` expects
  to stand.
- A second start that fails before it reaches the host leaves the first one's
  runtime, and the exit that follows stops nothing. The loss of the Core is
  signalled once, and a probe that cannot observe the game drops it.
- The poll and the login route can each submit a start for the same game
  (`app_window.py:1845`, `:3272`); the recovery state of a session that ended by
  force keeps the next login from starting the proxy (`app_window.py:3250`); a
  start queued ahead of a sign-out clears its suppression latch
  (`controller.py:265`).
- A Core whose challenge was refused may be used again by the next start, contrary
  to `docs/contracts/launcher-consumer-contract.md:244`.
- A timeout while the body of an error is read passes through the gateway
  (`proxy_api_gateway.py:262`) and `services.py:158`, and the window stays in
  "signing in" (`app_window.py:1565`).
- A refresh whose answer was lost makes the next heartbeat fail with
  `invalid_grant` and signs the player out, although `services.py:419` speaks of a
  transient failure. Cancelling before `_cancelled.clear()` (`web_auth.py:636`) is
  lost; `SignIn` keeps that step apart for this reason.

Release tooling and agents:

- A supersession reads the live releases from the payload key `sequence`
  (`production_sequence_ledger.py:956`) while payloads have `release_sequence`
  (`build_software_release_v2.py:359`), so the view that its command line builds
  shows it no release, and it records a public release as failed; the docstring at
  `:841` speaks of "a signed-but-unpublished release". What `release` and the
  theorems say holds with this view as well, and says what it costs: only the newest
  release can be lost this way, since the provider's history does not reconcile with
  the ledger afterwards, and no later command reserves, signs or publishes.
- A draft left by a death between its creation and the upload is refused by the
  next attempt (`publish_atomic_release.py:713`), although
  `docs/superpowers/plans/2026-09-16-single-repo-plan-contracts.md:129` describes a
  resumption; and a release with a frozen Core cannot be published at all
  (`publish_atomic_release.py:507`, `verify_github_release_assets.py:421`).
- The cooldown is measured on a clock that a boot starts again while the time of
  the last alert stays in the file (`neko_discord_worker.py:459`, `:507`), so it may
  last much longer after one. It never holds back a recovery (`:455`), and another
  alert only when its status was the last alerted.
- A `systemctl` that does not answer within 15 seconds raises `TimeoutExpired`
  through the weekly maintenance (`neko_weekly_maintenance.py:288`), which ends with
  the unit perhaps stopped and nothing announced; `StatusShown` exempts a unit that
  stays stopped.

## 4. Proofs

The theorems about the updater are about `ProcessSpec`, for any releases,
sequences, transaction ids and numbers of faults. Power loss is not among its
steps. The three about its enrollment are about `EnrollSpec`: Setup, enrollments,
sessions, recovery, faults and any number of power losses, from an empty directory
on. All others are about the `Spec` of their module: any releases, crashes,
damage and length of the executor's queue in `Delivery`; any attempts, sessions
and games, and any length of the queue of the proxy session; any number of hosts;
any sign-ins, launches and turns of a token; any launchers, calls and bounds of
the server; any controllers, sequences and faults of the ledger; any messages,
packets, faults, kills and changes of health of the Discord worker.

They assume what the modules assume of their constants: sequences are positive
numbers, the baseline is a release, lapse, window and limit are positive, budgets
are natural numbers, the executor's queue takes at least one task, at least one
host is spawned and one token handed out, and `None`, `Torn` and `Short` are
different from each other and from the data (no task of a queue, no session, no
request and no body of a message is `None`).

| Theorem | States |
|---|---|
| `StepsLegal` | a record formulated from a legal record (`RecordInv`) is a `ValidTransition` with the next revision, and legal again |
| `InvHolds` | the inductive invariant of the updater |
| `TypesHold`, `AlwaysRecoverable`, `FloorsOrdered` | `TypeOK`, `Recoverable`, `FloorOrder` |
| `ImplementsAuthority` | `ProcessSpec => AuthoritySpec` |
| `HistoryHolds` | the inductive invariant over the past of the releases |
| `FailedNotRetried`, `GenerationsAreKept`, `RecoveryIsEffective`, `OwnershipIsKept`, `NextUpdateIsBuildable` | `NotRetried`, `GenerationsKept`, `RecoveryEffective`, `OwnershipKept`, `NextUpdateBuildable` |
| `EnrollHolds` | the inductive invariant of an installation from its empty directory on, power losses included |
| `FlushesHold` | what a flush has made durable stays so, and a complete marker nobody flushed is about to be flushed or something had failed |
| `PowerLossIsSurvived`, `EnrollmentIsSafe` | `PowerSafe` and `EnrollmentSafe` of `Enrollment` |
| `DeliveryHolds` | the inductive invariant of the delivery |
| `StoreIsKept`, `GateStaysShut`, `StagedIsNotLost` | `StoreOK`, `GateHolds` and `StagedSurvives` of `Delivery` |
| `SessionHolds` | the inductive invariant of the proxy session |
| `TheRightIsGone`, `AttemptsAreKept` | `RightGone` and `AttemptsOK` of `ProxySession` |
| `HostsHold` | the inductive invariant of the Core host |
| `RequestsReachTheirCore`, `NoCoreLeftBehind` | `FramesToOwned` and `HostOK` of `CoreHost` |
| `SignInHolds` | the inductive invariant of signing in |
| `TokensAreUsedOnce`, `SignedOutStaysSo`, `CancelledNeverSignsIn` | `VaultOK`, `SignOutSticks`, `CancelHonoured` of `SignIn` |
| `AuthorityHolds` | `AuthorityOK` of `SessionAuthority`: its types, `LatestClaimWins`, `RateHolds` |
| `EnvelopesHold` | `OneEnvelope` of `ReleaseLedger` |
| `LedgerHolds`, `LiveIsHonoured` | `LedgerOK` and `LiveHonoured` of `ReleaseLedger`; the latter from `ReleasesInOrder` and `SupersessionSees` |
| `WorkerHolds` | the inductive invariant of the Discord worker |
| `MessagesArePaid`, `PacketsAreCounted`, `AlertsAreTrue` | `OneStatusMessage`, `CountersOK` and `LastAlertTrue` of `DiscordWorker` |

The argument for the updater. That the slots always select a record is not
inductive: a write must be known to be the successor of the record it leaves in the
other slot, and the helper formulated it earlier, perhaps before other writes. `Inv`
therefore relates three things: the slots (`SlotInv`: one slot is selected and its
record satisfies `RecordInv`), the record in memory (`HelperInv`: at each place of a
session it is the current record, in the phase the place implies; at an abort it is
the current one or one with a lower revision, which `write_state` refuses), and the
write in progress (it is a successor of the current record, or will be refused).
`RecordInv` holds what the transitions need: the order of the floors, evidence for
every release referred to, and the shape of transaction, rollback and cleanup in
each phase. `UpdaterProofs` proves one lemma per transition of the record, then the
slots' lemmas (one slot is active, writing a successor selects it, spoiling the
other slot changes nothing) and one lemma per group of actions, and maps each
transition of the record to a step of `UpdateAuthority` or to a stutter. The mapping
needs one more invariant, `Noted`: the candidate of a transaction is the release
observed.

The argument for its history. `NotRetried`, `GenerationsKept` and
`RecoveryEffective` relate the record to what happened long before: to releases
that failed, were published, were lost. `FailuresInv` and `PublishedInv` say what
the record still remembers of them (`Known`: below the floor, so that no update
can name it again, or the one observed, and then marked, committed or under
trial), `PlacedInv` that what it refers to was published once. `WorkInv` carries
the same through a session, whose record and write are in memory. A slot that
recovery cuts short has the wrong size for ever unless a later recovery rewrites
it: `ShortInv` says that the record beside it is one that recovery changes.

The argument for enrollment and power loss. Until the first commit there is no legal
record, and after a power loss none of what `Inv` says of the slots need hold of
what is on `disk`. `EnrollInv` therefore says first what any frame may be
(`ImagesInv`: useless, the record both slots are created with, or legal, in `cache`
and on `disk`, and nothing where there is no file), then what is under way
(`EnrollControl`: nothing; a slot being filled beside frames that are all initial or
useless; one of the two frames of the first commit or its mirror; or the updater,
with `Inv`), and last how the two contents of the slots are related (`SafeInv`, as
long as no slot was written beside an unflushed one). Before the first commit that
is `InitialKept`: an initial frame that was flushed is still read back, or its
neighbour is and was flushed. After it, it is `RecordKept`: at most one slot is not
flushed, and what is on disk selects the other one. From these `RecordSurvives` and
`InitialSurvives` compute every image a loss may leave. `FirstInterrupted` leads
from the one to the other: the first committed record is written beside an initial
one that was flushed, whatever the write leaves. A loss in the middle of a write
gives back a case of the invariant, which is why it may happen again. The helper's
and recovery's steps fall into three shapes (`TouchingShape`: no change, a flush, a
write to the inactive slot), and for a session or recovery run without a committed
record nothing is to be done (`NothingToDo`). What a reported success may promise is
`DurableInv`: a slot that the disk holds anything of is durable, and a complete
marker that nobody flushed is at the step that flushes it, or a fault came before.
The kills and errors at the marker are counted as faults; with none before, the
enrollment that reports success has flushed the marker itself, or one before it did.

The argument for the delivery. A release is staged by one task, read by another
and handed to the helper by a third, each of which acts on what an earlier step
read: the window's offer, the snapshot, an argument, a queued task. `HeldInv` says
what may be relied on for each of them (`Held`): the release is still the one on
disk, or the helper will refuse it anyway, unless the disk was damaged (`Fits`).
This is kept because a copy is only made of something newer than what the pointer
names, and goes on only while that stays so (`CopyInv`), because a repair, which
writes below the pointer, is of a release that no held one can be (`RepairInv`),
and because a session of the helper is always somebody's (`SessionInv`): the one
task that holds it, or a helper whose launcher has ended, beside which a new
launcher has learnt nothing yet (`Unknowing`). `StoreOK` follows for a transaction
that was handed off, `StagedSurvives` for every step that takes the pointer away.
`GateInv` follows the startup check from the release it resolved to the state it
publishes: whatever waits in the store is on the way into that state.

The argument for the proxy session. Two threads, timers, a queue and the Core act
on `AppState`, and handlers write what they read several steps before. `RightGone`
speaks only of quiet states. `RightInv` says what keeps it true on the way there:
a Core that runs the proxy, or that a start is about to let run, has a session,
and `proxy_suppressed` is set beside it only while a sign-out is queued or under
way, which takes the host down (`RunInv`). A handler that will write back a
suppression it read is covered by its last conjunct; the steps that revoke
a session rely on the entitlement being gone, so that no start passes the check
under the operation lock behind them (`RevokeInv`); a sign-in is alone and never
beside a session (`SigningInv`). For `AttemptsOK`, `Placed` says that every
attempt is in one place (a timer, the handler that submits it, the queue or the
worker), and `Flying` that those not cancelled are the one in flight; single
flight follows without counting.

The argument for the Core host. Worker and window share the adapter, one lock and
one frame at a time per thread. `Asked` says that the frame of a thread that waits
is its own request, `JobInv` that what lives is in the job and the job's process
is the adapter's or about to become it, `PermitInv` that a challenge is from the
Core that the authorization will go to, and `RuntimeInv` for each place of an
operation who knows of a proxy that runs: the one who reports it, the cleanup
that will stop it, or the mark that stopping it failed.

The argument for signing in. A refresh token is used once, and the launcher
learns its successor only from an answer. `Sent` says that what is presented is
what is stored, by the one thread that holds the credential lock; `Unspent` that
unless something broke (an answer lost, the vault failing, an end inside the
exchange) the stored token is the last of its family, or the answer that
replaces it has arrived; `Flown` that a sign-in under way makes a later family
than any stored. `Forgotten` and `Cancelled` say which threads can still be under
way after a sign-out and a cancel, and that none of them saves anything.

The argument for the server. `AuthorityOK` is not inductive because a call acts
on what an earlier statement of its read. `IInv` adds what each call may rely on
meanwhile: a claim between its update and its insert holds the user's lock, and
every unrevoked session is the one it is about to revoke (`Inserting`; heartbeats
run in between but revoke nothing); a permit that counted the attempts holds the
rate lock, and its count is still right (`Counting`); what a call names exists,
and what it will tell is no older than its arrival (`Names`). The limit then
holds although attempts carry the start of their transactions and may be recorded
out of that order: every allowed attempt in a window with the new one is among
those it counted (`RateKept`).

The argument for the ledger. A controller writes custody, repository and ledger
one after the other and may stop in between, so that they agree only up to where
it stopped. `EnvelopeInv` says what they agree on: every envelope the ledger or
the repository knows is the one in custody (`Entry`), a controller at work holds
the lock, hence is alone (`Exclusive`), and what it read of its row when it
entered still stands at each of its steps (`Custody`). The condition of
`CanAppend` is not needed for it: the lock is enough. `OrderInv` adds the place
of the sequence: nothing is pending and nothing above it exists when it is
signed or promoted, which is what makes it the one pending release afterwards
(`Order`, `PendingIsNewest`). A release that a supersession gave up unseen
(`Discarded`) is live and recorded failed, which the history of every other command
refuses to reconcile (`NoneDiscarded`), so nothing is reserved or promoted above
it, and it stays the newest (`LiveAccounted`). That the next unused sequence is above
all others
(`NextIsNew`) rests on the existence of a greatest one, from well-founded
induction on the natural numbers (`HighestIs`).

The argument for the Discord worker. The worker, a maintenance controller that
should have stopped it, and Discord, whose answers get lost, each may leave a
message behind. `CountInv` is a potential: the messages that are shown, and those
the processes still owe (`Owed`: a process that knows of no visible message, or is
about to forget it, will post one), exceed one by no more than the faults so far.
A post pays with what it owed, a lost answer or a failed save with a fault. It
needs that the id of a message just stored is known to nobody else (`UniqueInv`)
and that a stopped worker leaves the file to the controller (`StoppedInv`). The
counters and the alerts agree with the world while nothing failed: `Counted` says
that no window reaches into a summary already posted, `AlertInv` that the last
alert matches the status in the file and in memory, except while the alert is on
its way.

What the proofs corrected. Every inductive invariant was checked with TLC before
it was proved, and some formulas that TLC accepts on a small instance are false on
a larger one or need an assumption that had not been stated:

- `NotRetried` held with two transaction tokens and fails with three: a release
  that failed may be repaired and committed, after which the record no longer
  marks it, and trying it again is what `repair` is for. The property exempts
  releases repaired since (`Repaired`).
- `Torn` and `Short` must differ (`SlotStore`), a family has at least one token
  (`SignIn`), `None` is not a task (`ProxySession`), a session (`Delivery`) or
  the body of an alert (`DiscordWorker`), and the executor's queue takes at least
  the startup task, which is submitted without asking for room (`Delivery`).

- In an earlier `Enrollment` a power loss could take a slot file whose contents
  had been flushed before, after another loss had torn them, and the helper wrote
  a slot whose file was gone, which `write_state` refuses
  (`slot_store.py:457`). The first needs two power losses; neither broke a property
  of the run, but the invariant that relates files and contents was not
  inductive. Hence `durable`, `FilesFollow` and `WriteMissing`.

Only model-checked: liveness (`HelperEnds`, `Settles` and `ReconnectEnds` among it),
since the prover has no ENABLED and no rule for fairness; and the properties of
`Updater` proved under `ProcessSpec` are not claimed after a power loss, where some
of them fail (section 3.3). Induction over data is out of the prover's reach as
well; the models with theorems use no recursion.

## 5. What is not modelled

Bytes: frames, JSON, signatures, archives and hashes are identities with an
outcome. Sizes: the 1 MiB limit of a frame and free disk space (a fault of
`Apply`). The handshake of the helper's pipe and the installation lock: one
helper or one recovery runs at a time in `Updater`, which is what the lock is
for.

- Enrollment: the machine credential; what the baseline's signatures and
  identities say is an input; the copy of the baseline generation swallows its
  errors and is never repeated (`baseline_enrollment.py:399`).
- Delivery: which components a release changes, the manual check (no caller), the
  texts of the diagnostics, redirects and shapes of the repository's answers
  (a fetch succeeds or fails).
- Proxy session: coupons, account recovery (off in production), the debug
  dialog apart from its start button, the stop that applying an update submits
  to its own executor (`app_window.py:2276`), and `SessionRevoked` events, which
  nothing in production dispatches.
- Core host: telemetry, whose disconnect is an event of `ProxySession`;
  `start_admitted_core`, which only the end-to-end harness calls.
- Sign-in: the older Supabase storage; the mutex that main.py releases before
  `os._exit`.
- Server: minting web sessions from the bridge and its one-time tokens,
  installations, audit rows, the machine proof of a permit; earlier schemas and
  coupons.
- Release tooling: how assets are built and verified, the processing of commits,
  whose command is retired.
- Agents: the operations status script, which only reads; `SIGTERM` has no
  handler, so a stop is a kill.

Components marked `not_modelled` in `PROJECT.json` carry their reason there.

## 6. Plan

The components that keep state are modelled. What remains, in the order in which
it matters:

1. `SessionAuthority`: installations and the bridge, composed with the heartbeat
   of `SignIn`.
2. The transport of the helper: who holds the installation lock when the launcher
   exits and the helper goes on.
