----------------------------- MODULE DiscordWorker -----------------------------
(***************************************************************************)
(* The Discord worker of the proxy server and the weekly maintenance       *)
(* controller: one process that counts traffic, samples health and keeps   *)
(* one status message, and one that stops it, edits the same message and   *)
(* reboots the host.  Both read and replace the same state file.           *)
(*                                                                         *)
(* A request to Discord is two steps, what Discord stores and the answer,  *)
(* because a process can die and an answer be lost between them.  systemd  *)
(* stops the worker with SIGTERM, which it does not handle: the `finally'  *)
(* of its loop does not run, a stop is a kill.  Traffic is counted in      *)
(* packets of one unit.                                                    *)
(***************************************************************************)
EXTENDS Naturals, FiniteSets

CONSTANTS None,
          MinReport,   \* min_report_bytes
          MaxTraffic,  \* packets
          MaxMessages, \* messages the channel can hold
          MaxFaults,   \* lost answers, failed saves, lost state files, kills in a post
          MaxRefused,  \* requests Discord refuses
          MaxKills,    \* kills outside a post, stops included
          MaxDeleted,  \* status messages deleted by hand
          MaxFlips     \* changes of the server's health

ASSUME WorkerAssumption ==
  /\ MinReport \in Nat \ {0} /\ MaxTraffic \in Nat /\ MaxMessages \in Nat
  /\ MaxFaults \in Nat /\ MaxRefused \in Nat /\ MaxKills \in Nat
  /\ MaxDeleted \in Nat /\ MaxFlips \in Nat

VARIABLES
  healthy,   \* service, listener and ping of the server are all well
  channel,   \* what each message of the channel shows, "free" if unborn
  told,      \* the last alert stored in the channel
  disk,      \* discord-state.json
  worker,    \* the worker's memory, None while it does not run
  stopped,   \* the unit was stopped: Restart=always does not apply
  maint,     \* where the maintenance controller is
  loaded,    \* the state it read
  call,      \* the request each process has under way
  traffic,   \* packets that passed while the worker ran
  reported,  \* packets in the summaries of the channel
  recent,    \* DEGRADED was last alerted, or the baseline, less than the cooldown
             \* ago by the monotonic clock, which a boot starts again
  used       \* how much of each budget is gone

fileVars == <<disk, loaded>>
ghosts   == <<traffic, reported, recent>>
vars == <<healthy, channel, told, disk, worker, stopped, maint, loaded, call,
          traffic, reported, recent, used>>

Processes == {"worker", "maint"}
Statuses == {"UNKNOWN", "ONLINE", "DEGRADED"}
Messages == 1..MaxMessages
Contents == {"free", "deleted", "MAINTENANCE"} \cup Statuses
Ids == Messages \cup {None}
Files == [id: Ids, bytes: 0..MaxTraffic, confirmed: Statuses, last: Statuses]
Memories == [id: Ids, bytes: 0..MaxTraffic, confirmed: Statuses, last: Statuses,
             pending: 0..1, init: BOOLEAN, sampled: BOOLEAN]
Requests == [kind: {"alert", "create", "edit", "summary"},
             body: Contents \cup {"RECOVERY"}, size: 0..MaxTraffic, id: Ids,
             try: 1..2, stored: BOOLEAN]
ASSUME NoneAssumption ==
  /\ None \notin Messages /\ None \notin Memories /\ None \notin Requests
  /\ None \notin Contents \cup {"RECOVERY"}
Budgets == [faults: 0..MaxFaults, refused: 0..MaxRefused, kills: 0..MaxKills,
            deleted: 0..MaxDeleted, flips: 0..MaxFlips]

TypeOK ==
  /\ healthy \in BOOLEAN /\ channel \in [Messages -> Contents]
  /\ told \in {"none", "DEGRADED", "RECOVERY"}
  /\ disk \in Files /\ worker \in Memories \cup {None} /\ stopped \in BOOLEAN
  /\ maint \in {"idle", "stopping", "publish", "asking", "reboot", "booting"}
  /\ loaded \in Files
  /\ call \in [Processes -> Requests \cup {None}]
  /\ traffic \in 0..MaxTraffic /\ reported \in Nat
  /\ recent \in BOOLEAN /\ used \in Budgets

\* WorkerState(): what load_state answers for a missing or unreadable file.
FreshState == [id |-> None, bytes |-> 0, confirmed |-> "UNKNOWN",
               last |-> "UNKNOWN"]

\* The constructor: neither the pending sample nor its count is restored.
Loaded(file) == [id |-> file.id, bytes |-> file.bytes,
                 confirmed |-> file.confirmed, last |-> file.last,
                 pending |-> 0, init |-> file.confirmed # "UNKNOWN", sampled |-> FALSE]

\* _sync_state.
Image(mem) == [id |-> mem.id, bytes |-> mem.bytes, confirmed |-> mem.confirmed,
               last |-> mem.last]

Init ==
  /\ healthy \in BOOLEAN /\ channel = [m \in Messages |-> "free"]
  /\ told = "none" /\ disk = FreshState /\ worker = None /\ stopped = FALSE
  /\ maint = "idle" /\ loaded = FreshState
  /\ call = [p \in Processes |-> None]
  /\ traffic = 0 /\ reported = 0 /\ recent = FALSE
  /\ used = [faults |-> 0, refused |-> 0, kills |-> 0, deleted |-> 0, flips |-> 0]

Up == worker # None
Free(p) == call[p] = None
Running == Up /\ Free("worker")

(***************************************************************************)
(* The state file and the transport, shared by the two processes.          *)
(***************************************************************************)
Spent(budget, limit) == used[budget] < limit
Spend(budget) == [used EXCEPT ![budget] = @ + 1]

\* save_state_atomic replaces the file or, on any error, leaves it; `spent' is
\* what the step has used of the budgets before it saves.
Save(file, spent) ==
  \/ disk' = file /\ used' = spent
  \/ /\ spent.faults < MaxFaults
     /\ disk' = disk /\ used' = [spent EXCEPT !.faults = @ + 1]

Request(kind, body, size, id) ==
  [kind |-> kind, body |-> body, size |-> size, id |-> id,
   try |-> 1, stored |-> FALSE]

Begin(p, request) == call' = [call EXCEPT ![p] = request]

NewMessages == {m \in Messages : channel[m] = "free"}

\* Discord stores the request of p; an edit of a deleted message is answered
\* 404 instead.
Store(p) ==
  /\ ~Free(p) /\ ~call[p].stored
  /\ LET c == call[p] IN
     CASE c.kind = "create" ->
            \E m \in NewMessages :
               /\ \A n \in NewMessages : m <= n
               /\ channel' = [channel EXCEPT ![m] = c.body]
               /\ call' = [call EXCEPT ![p].stored = TRUE, ![p].id = m]
               /\ UNCHANGED <<told, reported>>
       [] c.kind = "edit" ->
            /\ channel[c.id] # "deleted"
            /\ channel' = [channel EXCEPT ![c.id] = c.body]
            /\ call' = [call EXCEPT ![p].stored = TRUE]
            /\ UNCHANGED <<told, reported>>
       [] c.kind = "alert" ->
            /\ told' = c.body /\ call' = [call EXCEPT ![p].stored = TRUE]
            /\ UNCHANGED <<channel, reported>>
       [] c.kind = "summary" ->
            /\ reported' = reported + c.size
            /\ call' = [call EXCEPT ![p].stored = TRUE]
            /\ UNCHANGED <<channel, told>>
  /\ UNCHANGED <<healthy, fileVars, worker, stopped, maint, traffic, recent, used>>

\* The request of p fails in a way DiscordTransport._send tries once more.
Retry(p) ==
  /\ ~Free(p) /\ call[p].try = 1
  /\ call' = [call EXCEPT ![p].try = 2, ![p].stored = FALSE]
  /\ \/ ~call[p].stored /\ Spent("refused", MaxRefused) /\ used' = Spend("refused")
     \/ call[p].stored /\ Spent("faults", MaxFaults) /\ used' = Spend("faults")
  /\ UNCHANGED <<healthy, channel, told, fileVars, worker, stopped, maint, ghosts>>

\* What _send returns for p, and what that uses of the budgets.
Succeeds(p) == call[p].stored
Missing(p) == call[p].kind = "edit" /\ channel[call[p].id] = "deleted"
Fails(p, spent) ==
  \/ ~call[p].stored /\ Spent("refused", MaxRefused) /\ spent = Spend("refused")
  \/ /\ call[p].stored /\ call[p].try = 2
     /\ Spent("faults", MaxFaults) /\ spent = Spend("faults")
Failures(p) == {s \in {Spend("refused"), Spend("faults")} : Fails(p, s)}

(***************************************************************************)
(* Health and alerts: tick_health_and_rates.                               *)
(***************************************************************************)
\* derive_health_status of a snapshot just taken, which is neither missing nor
\* older than stale_after.
Evaluated == IF healthy THEN "ONLINE" ELSE "DEGRADED"

\* AlertDecision.alert_type of a confirmed transition.
AlertType(old, new) ==
  IF new = "ONLINE" THEN IF old = "DEGRADED" THEN "RECOVERY" ELSE None
  ELSE new

\* The cooldown of everything but a recovery: an alert of the status that was
\* alerted last.
Suppressed(alert) ==
  alert # "RECOVERY" /\ worker.last = alert /\ recent

SampledWorker == [worker EXCEPT !.sampled = TRUE]

\* The first sample is the baseline and raises no alert.
Baseline ==
  /\ Running /\ ~worker.init
  /\ worker' = [SampledWorker EXCEPT !.confirmed = Evaluated, !.last = Evaluated,
                                     !.init = TRUE]
  /\ recent' = (recent \/ ~healthy)
  /\ UNCHANGED <<healthy, channel, told, fileVars, stopped, maint, call, traffic,
                 reported, used>>

Unchanged ==
  /\ Running /\ worker.init /\ Evaluated = worker.confirmed
  /\ worker' = [SampledWorker EXCEPT !.pending = 0]
  /\ UNCHANGED <<healthy, channel, told, fileVars, stopped, maint, call, ghosts, used>>

\* The first of the two samples a transition needs.
FirstSample ==
  /\ Running /\ worker.init /\ Evaluated # worker.confirmed /\ worker.pending = 0
  /\ worker' = [SampledWorker EXCEPT !.pending = 1]
  /\ UNCHANGED <<healthy, channel, told, fileVars, stopped, maint, call, ghosts, used>>

ConfirmedWorker == [SampledWorker EXCEPT !.confirmed = Evaluated, !.pending = 0]

\* The second sample; the alert status is recorded before the alert is posted.
Confirm ==
  /\ Running /\ worker.init /\ Evaluated # worker.confirmed /\ worker.pending = 1
  /\ LET alert == AlertType(worker.confirmed, Evaluated) IN
     IF alert = None \/ Suppressed(alert)
     THEN worker' = ConfirmedWorker /\ UNCHANGED <<call, recent>>
     ELSE /\ worker' = [ConfirmedWorker EXCEPT !.last = Evaluated]
          /\ Begin("worker", Request("alert", alert, 0, None))
          /\ recent' = (recent \/ alert = "DEGRADED")
  /\ UNCHANGED <<healthy, channel, told, fileVars, stopped, maint, traffic,
                 reported, used>>

\* Mutant: the state is not saved with the alert.
AlertDoneUnsaved ==
  /\ Up /\ ~Free("worker") /\ call["worker"].kind = "alert"
  /\ used' \in {used} \cup Failures("worker")
  /\ used' = used => Succeeds("worker")
  /\ Begin("worker", None)
  /\ UNCHANGED <<healthy, channel, told, fileVars, worker, stopped, maint, ghosts>>

\* Delivered or not, the alert is forgotten and the state is saved.
AlertDone ==
  /\ Up /\ ~Free("worker") /\ call["worker"].kind = "alert"
  /\ \E spent \in {used} \cup Failures("worker") :
        /\ spent = used => Succeeds("worker")
        /\ Save(Image(worker), spent)
  /\ Begin("worker", None)
  /\ UNCHANGED <<healthy, channel, told, worker, stopped, maint, loaded, ghosts>>

\* Time passes the cooldown.
CooldownPasses ==
  /\ recent /\ recent' = FALSE
  /\ UNCHANGED <<healthy, channel, told, fileVars, worker, stopped, maint, call,
                 traffic, reported, used>>

(***************************************************************************)
(* The status message: tick_status_message.                                *)
(***************************************************************************)
StatusTick ==
  /\ Running /\ worker.sampled
  /\ Begin("worker",
           IF worker.id = None
           THEN Request("create", worker.confirmed, 0, None)
           ELSE Request("edit", worker.confirmed, 0, worker.id))
  /\ UNCHANGED <<healthy, channel, told, fileVars, worker, stopped, maint,
                 ghosts, used>>

Created ==
  /\ Up /\ ~Free("worker") /\ call["worker"].kind = "create" /\ Succeeds("worker")
  /\ worker' = [worker EXCEPT !.id = call["worker"].id]
  /\ Save(Image(worker'), used) /\ Begin("worker", None)
  /\ UNCHANGED <<healthy, channel, told, stopped, maint, loaded, ghosts>>

Edited ==
  /\ Up /\ ~Free("worker") /\ call["worker"].kind = "edit" /\ Succeeds("worker")
  /\ Begin("worker", None)
  /\ UNCHANGED <<healthy, channel, told, fileVars, worker, stopped, maint, ghosts, used>>

\* Mutant: the missing message is kept.
EditMissingIgnored ==
  /\ Up /\ ~Free("worker") /\ Missing("worker") /\ Begin("worker", None)
  /\ UNCHANGED <<healthy, channel, told, fileVars, worker, stopped, maint, ghosts, used>>

\* 404: the message is gone, the next tick creates another.
EditMissing ==
  /\ Up /\ ~Free("worker") /\ Missing("worker")
  /\ worker' = [worker EXCEPT !.id = None]
  /\ Save(Image(worker'), used) /\ Begin("worker", None)
  /\ UNCHANGED <<healthy, channel, told, stopped, maint, loaded, ghosts>>

\* Mutant: any failed edit forgets the message.
StatusFailsForgetting ==
  /\ Up /\ ~Free("worker") /\ call["worker"].kind \in {"create", "edit"}
  /\ worker' = [worker EXCEPT !.id = None]
  /\ \E spent \in Failures("worker") : Save(Image(worker'), spent)
  /\ Begin("worker", None)
  /\ UNCHANGED <<healthy, channel, told, stopped, maint, loaded, ghosts>>

\* Any other failure is tried again at the next tick.
StatusFails ==
  /\ Up /\ ~Free("worker") /\ call["worker"].kind \in {"create", "edit"}
  /\ used' \in Failures("worker") /\ Begin("worker", None)
  /\ UNCHANGED <<healthy, channel, told, fileVars, worker, stopped, maint, ghosts>>

(***************************************************************************)
(* Traffic: the packet branch of run and tick_traffic_summary.             *)
(***************************************************************************)
Packet ==
  /\ Running /\ traffic < MaxTraffic
  /\ traffic' = traffic + 1 /\ worker' = [worker EXCEPT !.bytes = @ + 1]
  /\ UNCHANGED <<healthy, channel, told, fileVars, stopped, maint, call,
                 reported, recent, used>>

NewWindow == [worker EXCEPT !.bytes = 0]

SummaryTick ==
  /\ Running /\ worker.bytes >= MinReport
  /\ Begin("worker", Request("summary", "free", worker.bytes, None))
  /\ UNCHANGED <<healthy, channel, told, fileVars, worker, stopped, maint,
                 ghosts, used>>

\* Below the threshold nothing is posted and the window starts again.
SummarySkipped ==
  /\ Running /\ worker.bytes < MinReport
  /\ worker' = NewWindow /\ Save(Image(worker'), used)
  /\ UNCHANGED <<healthy, channel, told, stopped, maint, loaded, call, ghosts>>

\* Mutant: the state is not saved after a summary.
SummaryDoneUnsaved ==
  /\ Up /\ ~Free("worker") /\ call["worker"].kind = "summary"
  /\ worker' = NewWindow
  /\ used' \in {used} \cup Failures("worker")
  /\ used' = used => Succeeds("worker")
  /\ Begin("worker", None)
  /\ UNCHANGED <<healthy, channel, told, fileVars, stopped, maint, ghosts>>

\* Posted or not, the window starts again and the state is saved.
SummaryDone ==
  /\ Up /\ ~Free("worker") /\ call["worker"].kind = "summary"
  /\ worker' = NewWindow
  /\ \E spent \in {used} \cup Failures("worker") :
        /\ spent = used => Succeeds("worker")
        /\ Save(Image(worker'), spent)
  /\ Begin("worker", None)
  /\ UNCHANGED <<healthy, channel, told, stopped, maint, loaded, ghosts>>

\* The checkpoint of every minute.
Checkpoint ==
  /\ Running /\ disk # Image(worker)
  /\ Save(Image(worker), used)
  /\ UNCHANGED <<healthy, channel, told, worker, stopped, maint, loaded, call, ghosts>>

(***************************************************************************)
(* Processes and environment.                                              *)
(***************************************************************************)
\* systemd starts the unit at boot and again whenever it dies.
Start ==
  /\ ~Up /\ ~stopped /\ maint # "booting"
  /\ worker' = Loaded(disk)
  /\ UNCHANGED <<healthy, channel, told, fileVars, stopped, maint, call, ghosts, used>>

\* A request whose loss or repetition leaves a trace in the channel.
Posting == IF Free("worker") THEN FALSE ELSE call["worker"].kind # "edit"

Dies(spent) ==
  /\ worker' = None /\ Begin("worker", None) /\ used' = spent

Kill ==
  /\ Up
  /\ \/ ~Posting /\ Spent("kills", MaxKills) /\ Dies(Spend("kills"))
     \/ Posting /\ Spent("faults", MaxFaults) /\ Dies(Spend("faults"))
  /\ UNCHANGED <<healthy, channel, told, fileVars, stopped, maint, ghosts>>

\* The state file is lost or unreadable: load_state falls back to a fresh one.
FileLost ==
  /\ disk # FreshState /\ Spent("faults", MaxFaults) /\ used' = Spend("faults")
  /\ disk' = FreshState
  /\ UNCHANGED <<healthy, channel, told, worker, stopped, maint, loaded, call, ghosts>>

HealthFlips ==
  /\ Spent("flips", MaxFlips) /\ used' = Spend("flips") /\ healthy' = ~healthy
  /\ UNCHANGED <<channel, told, fileVars, worker, stopped, maint, call, ghosts>>

MessageDeleted ==
  /\ Spent("deleted", MaxDeleted) /\ used' = Spend("deleted")
  /\ \E m \in Messages : /\ channel[m] \notin {"free", "deleted"}
                         /\ channel' = [channel EXCEPT ![m] = "deleted"]
  /\ UNCHANGED <<healthy, told, fileVars, worker, stopped, maint, call, ghosts>>

(***************************************************************************)
(* The weekly maintenance: MaintenanceController.execute_maintenance.      *)
(***************************************************************************)
\* The timer fires; systemctl stop kills the worker wherever it is, if it runs.
StopWorker ==
  /\ maint = "idle" /\ stopped' = TRUE /\ maint' = "publish"
  /\ \/ ~Posting /\ Spent("kills", MaxKills) /\ Dies(Spend("kills"))
     \/ Posting /\ Spent("faults", MaxFaults) /\ Dies(Spend("faults"))
  /\ UNCHANGED <<healthy, channel, told, fileVars, ghosts>>

\* systemctl stop fails; the result of stop_worker is not looked at.
StopFails ==
  /\ maint = "idle" /\ Spent("faults", MaxFaults) /\ used' = Spend("faults")
  /\ maint' = "publish"
  /\ UNCHANGED <<healthy, channel, told, fileVars, worker, stopped, call, ghosts>>

\* systemctl does not answer in time, and nobody catches the TimeoutExpired:
\* the controller ends, with the unit stopped all the same, nothing announced
\* and the host not rebooted.  (Where it is not stopped, nothing has happened.)
StopTimesOut ==
  /\ maint = "idle" /\ Spent("faults", MaxFaults) /\ Dies(Spend("faults"))
  /\ stopped' = TRUE
  /\ UNCHANGED <<healthy, channel, told, fileVars, maint, ghosts>>

\* publish_maintenance_status: without an id nothing is posted.
Publish ==
  /\ maint = "publish"
  /\ IF disk.id = None
     THEN maint' = "reboot" /\ UNCHANGED <<loaded, call>>
     ELSE /\ maint' = "asking" /\ loaded' = disk
          /\ Begin("maint", Request("edit", "MAINTENANCE", 0, disk.id))
  /\ UNCHANGED <<healthy, channel, told, disk, worker, stopped, ghosts, used>>

\* 404: the message is proven gone and one replacement is posted.
Replace ==
  /\ maint = "asking" /\ ~Free("maint") /\ Missing("maint")
  /\ Begin("maint", Request("create", "MAINTENANCE", 0, None))
  /\ UNCHANGED <<healthy, channel, told, fileVars, worker, stopped, maint, ghosts, used>>

Published ==
  /\ maint = "asking" /\ ~Free("maint") /\ Succeeds("maint")
  /\ IF call["maint"].kind = "create"
     THEN Save([loaded EXCEPT !.id = call["maint"].id], used)
     ELSE UNCHANGED <<disk, used>>
  /\ maint' = "reboot" /\ Begin("maint", None) /\ loaded' = FreshState
  /\ UNCHANGED <<healthy, channel, told, worker, stopped, ghosts>>

\* The reboot goes on after a failed announcement.
PublishFails ==
  /\ maint = "asking" /\ ~Free("maint") /\ used' \in Failures("maint")
  /\ maint' = "reboot" /\ Begin("maint", None) /\ loaded' = FreshState
  /\ UNCHANGED <<healthy, channel, told, disk, worker, stopped, ghosts>>

\* systemd ends a controller that takes more than TimeoutStartSec: what it had
\* posted stays, what it would have saved is lost, and the host is not rebooted.
ControllerKilled ==
  /\ maint \in {"publish", "asking"}
  /\ Spent("faults", MaxFaults) /\ used' = Spend("faults")
  /\ maint' = "idle" /\ Begin("maint", None) /\ loaded' = FreshState
  /\ UNCHANGED <<healthy, channel, told, disk, worker, stopped, ghosts>>

\* The host goes down, the worker with it if it still ran.
Reboot ==
  /\ maint = "reboot"
  /\ \/ ~Posting /\ Dies(used)
     \/ Posting /\ Spent("faults", MaxFaults) /\ Dies(Spend("faults"))
  /\ maint' = "booting"
  /\ UNCHANGED <<healthy, channel, told, fileVars, stopped, ghosts>>

\* systemctl reboot fails, or its TimeoutExpired ends the controller before the
\* host goes down: the unit stays stopped.
RebootFails ==
  /\ maint = "reboot" /\ Spent("faults", MaxFaults) /\ used' = Spend("faults")
  /\ maint' = "idle"
  /\ UNCHANGED <<healthy, channel, told, fileVars, worker, stopped, call, ghosts>>

\* The monotonic clock starts again: a saved alert time lies ahead of it.
Boot ==
  /\ maint = "booting" /\ maint' = "idle" /\ stopped' = FALSE
  /\ recent' = (recent \/ disk.last = "DEGRADED")
  /\ UNCHANGED <<healthy, channel, told, fileVars, worker, call, traffic,
                 reported, used>>

Sample == Baseline \/ Unchanged \/ FirstSample \/ Confirm

WorkerNext ==
  \/ Sample \/ AlertDone
  \/ StatusTick \/ Created \/ Edited \/ EditMissing \/ StatusFails
  \/ SummaryTick \/ SummarySkipped \/ SummaryDone \/ Checkpoint

Answered == \E p \in Processes : Store(p)

MaintNext ==
  \/ StopWorker \/ StopFails \/ StopTimesOut
  \/ Publish \/ Replace \/ Published \/ PublishFails \/ ControllerKilled
  \/ Reboot \/ RebootFails \/ Boot

Environment ==
  \/ \E p \in Processes : Retry(p)
  \/ Packet \/ CooldownPasses \/ Start \/ Kill \/ FileLost \/ HealthFlips
  \/ MessageDeleted

Next == WorkerNext \/ Answered \/ MaintNext \/ Environment

Spec == Init /\ [][Next]_vars

\* The loop of run reaches every tick again and again, requests end, systemd
\* restarts the unit and the controller runs to its end.
Fairness ==
  /\ SF_vars(Sample) /\ SF_vars(StatusTick) /\ WF_vars(Answered)
  /\ WF_vars(AlertDone \/ Created \/ Edited \/ EditMissing \/ SummaryDone)
  /\ WF_vars(Start)
  /\ WF_vars(Publish \/ Replace \/ Published) /\ WF_vars(Reboot) /\ WF_vars(Boot)

FairSpec == Spec /\ Fairness

(***************************************************************************)
(* Properties.                                                             *)
(***************************************************************************)
\* Worker, controller, restarts and deletions by hand together keep a single
\* status message: every other one that is visible is owed to a fault of its
\* own, an answer lost after Discord stored the message or a state that never
\* reached the file.
OneStatusMessage ==
  Cardinality({m \in Messages : channel[m] \notin {"free", "deleted"}})
    <= 1 + used.faults

\* Packets of the window in memory, or in the file while the worker is down,
\* that no summary of the channel counts yet.
InWindow ==
  IF ~Up THEN disk.bytes
  ELSE IF Free("worker") THEN worker.bytes
  ELSE IF call["worker"].kind = "summary" /\ call["worker"].stored THEN 0
  ELSE worker.bytes

\* Without such a fault no packet is reported in two summaries, however often
\* the worker is stopped and restarted from its last checkpoint.
CountedOnce == used.faults = 0 => reported + InWindow <= traffic

\* The types of the variables and the packet count.
CountersOK == TypeOK /\ CountedOnce

\* What the last alert in the channel says is the status the worker goes by:
\* unless a request failed, the cooldown keeps back no alert of a transition,
\* however soon the health changes again.
LastAlertTrue ==
  (used.faults + used.refused = 0 /\ Running /\ told # "none")
    => (told = "DEGRADED") = (worker.confirmed = "DEGRADED")

\* When failures, deletions and changes of health come to an end, the message
\* whose id the worker holds shows the health of the server for good, after a
\* maintenance too, unless the unit stays stopped because the reboot failed or
\* the controller ended before it.
StatusShown ==
  <>[]~stopped =>
    <>[](Up /\ (IF ~Up THEN FALSE
                 ELSE IF worker.id = None THEN FALSE
                 ELSE channel[worker.id] = Evaluated))

=============================================================================
