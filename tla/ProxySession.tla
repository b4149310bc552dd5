---------------------------- MODULE ProxySession ----------------------------
(***************************************************************************)
(* The life of a proxy connection in the launcher: the Tk thread, the one  *)
(* worker thread of the `neko-launcher` executor, the AppState they share, *)
(* the reconnect controller and the Core host process.                     *)
(*                                                                         *)
(* AppState is replaced atomically by _update, but every handler reads it  *)
(* before it decides and publishes after; each such gap is a step of its   *)
(* own.  _proxy_operation_lock is held across steps only by the worker,    *)
(* while the gateway starts, so it is free when the worker is elsewhere.   *)
(***************************************************************************)
EXTENDS Reconnect, Sequences, FiniteSets

CONSTANTS Targets,   \* identities of pso2.exe processes
          MaxEvents, \* disturbances: user intents, faults, crashes, expiry
          MaxQueue   \* tasks and answers at which the periodic timers hold back

ASSUME ProxyAssumption == /\ None \notin Targets
                          /\ MaxEvents \in Nat /\ MaxQueue \in Nat

VARIABLES
  state,      \* the controller's AppState
  reconnect,  \* the reconnect controller
  cancelled,  \* attempts whose cancellation event is set
  active,     \* _active_proxy_cancellation, as an attempt
  timers,     \* attempts whose root.after callback has not fired
  tk,         \* the Tk thread: where it stands in a handler
  ui,         \* the window's own flags
  worker,     \* the worker thread: its task and where it stands
  queue,      \* tasks submitted and not begun
  replies,    \* results whose callbacks have not run
  core,       \* the Core host process
  game,       \* the pso2.exe that runs
  permitted,  \* the last start obtained a launch permit
  events

shared == <<state, reconnect, cancelled, active>>
threads == <<tk, worker, queue, replies, timers, ui>>
world == <<core, game, permitted, events>>
vars == <<shared, threads, world>>

Kinds == {"poll", "health", "probe", "start", "reconnect", "heartbeat",
          "signin", "signout"}
Ids == Attempts \cup Sessions \cup {None}
Tasks == [kind: Kinds, id: Ids]
Task(kind, id) == [kind |-> kind, id |-> id]

\* None is no task either.
ASSUME TaskAssumption == None \notin Tasks

Replies == [kind: Kinds, id: Ids, value: {"yes", "no", "unknown", "done",
              "succeeded", "retry", "exhausted", "blocked", "failed"},
            target: Targets \cup {None}]

StartSteps == {"target", "host", "permit", "authorize"}
WorkerSteps == StartSteps \cup
  {"idle", "claim", "beat", "admit", "publish", "register", "lock", "settle",
   "report", "undo", "clear", "complete", "revokeHost", "revokeSession",
   "leave", "signOutHost"}
Fates == {"none", "ok", "safe", "denied", "expelled", "failed"}
TkSteps == {"idle", "observe", "apply", "stopHost", "revokeHost",
            "revokeSession", "resume", "mark", "markBegun", "markFailed",
            "closeHost", "closeSession", "closeQueue", "exit", "closed"}
Telemetry == {"disconnected", "unhealthy", "healthy"}

TypeOK ==
  /\ state \in AppStates /\ reconnect \in Reconnects
  /\ cancelled \subseteq Attempts /\ timers \subseteq Attempts
  /\ active \in Attempts \cup {None}
  /\ tk \in [at: TkSteps, detected: BOOLEAN, keep: BOOLEAN,
             then: {"stopHost", "revokeHost", "resume"},
             attempt: Attempts \cup {None}]
  /\ ui \in [attempted: BOOLEAN, polling: BOOLEAN, probing: BOOLEAN,
             routePending: BOOLEAN, routeDone: BOOLEAN,
             routed: Sessions \cup {None}, bound: Targets \cup {None},
             telemetry: Telemetry]
  /\ worker \in [at: WorkerSteps, task: Tasks \cup {None}, fate: Fates,
                 session: Sessions \cup {None}, target: Targets \cup {None}]
  /\ queue \in Seq(Tasks) /\ replies \in Seq(Replies)
  /\ core \in {"absent", "idle", "running"}
  /\ game \in Targets \cup {None}
  /\ permitted \in BOOLEAN /\ events \in 0..MaxEvents

TkIdle == [at |-> "idle", detected |-> FALSE, keep |-> FALSE,
           then |-> "resume", attempt |-> None]
WorkerIdle == [at |-> "idle", task |-> None, fate |-> "none",
               session |-> None, target |-> None]

Init ==
  /\ state = [signedIn |-> FALSE, session |-> None, entitled |-> FALSE,
              status |-> "stopped", retrySafe |-> FALSE, denied |-> FALSE,
              suppressed |-> FALSE, shuttingDown |-> FALSE, game |-> FALSE]
  /\ reconnect = Unarmed
  /\ cancelled = {} /\ active = None /\ timers = {}
  /\ tk = TkIdle /\ worker = WorkerIdle
  /\ ui = [attempted |-> FALSE, polling |-> FALSE, probing |-> FALSE,
           routePending |-> FALSE, routeDone |-> FALSE, routed |-> None,
           bound |-> None, telemetry |-> "disconnected"]
  /\ queue = <<>> /\ replies = <<>>
  /\ core = "absent" /\ game = None /\ permitted = FALSE /\ events = 0

(***************************************************************************)
(* Shared pieces.                                                          *)
(***************************************************************************)
Disturb == events < MaxEvents /\ events' = events + 1

\* A fault that costs one event, or none.
Calm == UNCHANGED events

Publish(s) == state' = s

LockFree == worker.at \notin StartSteps

CancelActive == cancelled' = cancelled \cup ({active} \ {None})

CancelReconnect ==
  /\ reconnect' = Cancelled(reconnect)
  /\ cancelled' = cancelled \cup ({reconnect.inFlight} \ {None})

HasReply(kind) == replies # <<>> /\ Head(replies).kind = kind
Queued(kind) == \E i \in 1..Len(queue) : queue[i].kind = kind

Submit(task) == queue' = Append(queue, task)

\* The mainloop drains answers far more often than its timers fire.
Room == Len(queue) + Len(replies) < MaxQueue

\* Attempts some callback, task or event still holds.
Held == timers \cup cancelled \cup {reconnect.scheduled, reconnect.inFlight,
          IF worker.task = None THEN None ELSE worker.task.id}
        \cup {queue[i].id : i \in 1..Len(queue)}
        \cup {replies[i].id : i \in 1..Len(replies)}

\* What the dispatch of the sign-in events makes of the state.
SignedIn(s) == [s EXCEPT !.signedIn = TRUE, !.suppressed = FALSE,
                         !.shuttingDown = FALSE]
Claimed(s, session) == [s EXCEPT !.entitled = TRUE, !.session = session]
Unentitled(s) == [s EXCEPT !.entitled = FALSE]
Stopped(s) == [s EXCEPT !.status = "stopped", !.retrySafe = FALSE,
                        !.denied = FALSE]
Revoked(s) == [s EXCEPT !.session = None, !.entitled = FALSE,
                        !.suppressed = TRUE]
SignedOut(s, status) ==
  [s EXCEPT !.signedIn = FALSE, !.session = None, !.entitled = FALSE,
            !.status = status, !.retrySafe = FALSE, !.denied = FALSE,
            !.suppressed = TRUE, !.game = FALSE]

\* _shutdown_proxy_host: a shutdown that fails still ends the process, by
\* the emergency fallback or the lifetime job.
ShutdownHost ==
  /\ LockFree
  /\ core' = "absent"
  /\ \/ /\ core = "absent"
        /\ Publish([state EXCEPT !.status = "stopped"]) /\ Calm
     \/ /\ core # "absent"
        /\ Publish(Stopped(state)) /\ Calm
     \/ /\ core # "absent"
        /\ Publish([state EXCEPT !.status = "failed"]) /\ Disturb

\* orchestrator.stop, from the Core's answers: a runtime that is down stops
\* at once, and without a host the pipe is unavailable.
StopAnswers == {"accepted", "refused"}
StopRuntime(answer) ==
  \/ /\ answer = "accepted" /\ core # "absent" /\ core' = "idle" /\ Calm
  \/ /\ answer = "refused" /\ core = "absent" /\ UNCHANGED <<core, events>>
  \/ /\ answer = "refused" /\ core # "absent" /\ UNCHANGED core /\ Disturb

(***************************************************************************)
(* The worker thread.                                                      *)
(***************************************************************************)
Reply(kind, id, value, target) ==
  replies' = Append(replies, [kind |-> kind, id |-> id, value |-> value,
                              target |-> target])

\* A snapshot of the process table, with the creation time of each process: it
\* is there or, when a time cannot be read or tasklist fails, unknown.
Sights == {"yes", "no", "unknown"}
Snapshot(sight) == IF sight = "unknown" THEN Disturb ELSE Calm
Shown(there) == IF there THEN "yes" ELSE "no"

\* is_any_process_running: whether any PSO2 process runs.
Sees(sight) ==
  /\ sight \in {"unknown", Shown(game # None)}
  /\ Snapshot(sight)

\* is_same_target_still_running: another process of that name, or the same
\* process id used again, is not the bound one.
SeesBound(sight) ==
  /\ sight \in {"unknown", Shown(game = ui.bound)}
  /\ Snapshot(sight)

\* observe_exact_pso2: a process without a visible window is not the game yet,
\* or not at this moment.
SeesWindow(sight) ==
  \/ sight \in {"unknown", Shown(game # None)} /\ Snapshot(sight)
  \/ game # None /\ sight = "no" /\ Disturb

\* _revalidate_bound_game: the bound process if there is one, else the exact
\* process that runs.
SeesTarget(sight) ==
  IF ui.bound # None THEN SeesBound(sight) ELSE SeesWindow(sight)
SightTarget(sight) == CASE sight = "yes"     -> game
                        [] sight = "no"      -> None
                        [] sight = "unknown" -> ui.bound

Begin(task) == [WorkerIdle EXCEPT !.task = task]
WorkerTo(at) == worker' = [worker EXCEPT !.at = at]
WorkerDone == worker' = WorkerIdle

IsReconnect == worker.task.kind = "reconnect"
Attempt == worker.task.id

\* The tasks that only look, and answer in one step.  A poll that fails before
\* it reaches the exact target answers without one.
Look(task) ==
  /\ task.kind \in {"poll", "health", "probe"}
  /\ \E sight \in Sights : \E target \in {None, SightTarget(sight)} :
       /\ IF task.kind = "probe" THEN Sees(sight) ELSE SeesTarget(sight)
       /\ task.kind = "probe" => target = None
       /\ \/ task.kind = "probe" \/ target = SightTarget(sight)
          \/ task.kind = "poll" /\ sight = "unknown"
       /\ Reply(task.kind, task.id, sight, target)
  /\ UNCHANGED worker

Take(task) ==
  /\ task.kind \in {"start", "reconnect", "heartbeat", "signin", "signout"}
  /\ worker' = [Begin(task) EXCEPT
       !.session = state.session,
       !.at = CASE task.kind = "signin"    -> "claim"
                [] task.kind = "signout"   -> "signOutHost"
                [] task.kind = "heartbeat" -> "beat"
                [] OTHER                   -> "admit"]
  /\ UNCHANGED <<replies, events>>

Dequeue ==
  /\ worker.at = "idle" /\ queue # <<>>
  /\ queue' = Tail(queue)
  /\ Look(Head(queue)) \/ Take(Head(queue))
  /\ UNCHANGED <<shared, tk, timers, ui, core, game, permitted>>

\* sign_in: AuthStarted, the claim, then EntitlementLoaded, SessionClaimed
\* and AuthSucceeded; a claim without entitlement signs in all the same.
Claim ==
  /\ worker.at = "claim"
  /\ \/ /\ \E session \in Sessions \ ({state.session, ui.routed} \cup Held) :
             Publish(Claimed(state, session))
        /\ Calm
     \/ Publish(Unentitled(state)) /\ Disturb
  /\ WorkerTo("publish")
  /\ UNCHANGED <<reconnect, cancelled, active, tk, timers, ui, queue,
                 replies, core, game, permitted>>

AuthSucceed ==
  /\ worker.at = "publish" /\ worker.task.kind = "signin"
  /\ Publish(SignedIn(state))
  /\ Reply("signin", None, "done", None)
  /\ WorkerDone
  /\ UNCHANGED <<reconnect, cancelled, active, tk, timers, ui, queue, world>>

\* heartbeat: an answer about a session that is no longer the state's is
\* dropped; only an authoritative denial revokes.
Beat ==
  /\ worker.at = "beat"
  /\ \/ worker.session = None /\ WorkerDone /\ Calm
     \/ WorkerDone /\ Calm
     \/ /\ worker.session # None
        /\ IF state.session = worker.session THEN WorkerTo("revokeHost")
                                             ELSE WorkerDone
        /\ IF state.entitled THEN Disturb ELSE Calm
  /\ UNCHANGED <<shared, tk, timers, ui, queue, replies, core, game,
                 permitted>>

\* Mutant: the session is dropped and its host is left to run.
RevokeLeavesHost ==
  /\ worker.at = "revokeHost"
  /\ WorkerTo("revokeSession")
  /\ UNCHANGED <<shared, tk, timers, ui, queue, replies, world>>

\* invalidate_session, then _force_sign_out_safely(shutdown_core=False).
RevokeHost ==
  /\ worker.at = "revokeHost"
  /\ CancelActive
  /\ ShutdownHost
  /\ WorkerTo("revokeSession")
  /\ UNCHANGED <<reconnect, active, tk, timers, ui, queue, replies, game,
                 permitted>>

RevokeSession ==
  /\ worker.at = "revokeSession"
  /\ Publish(Revoked(state))
  /\ WorkerTo("leave")
  /\ UNCHANGED <<reconnect, cancelled, active, tk, timers, ui, queue,
                 replies, world>>

Leave ==
  /\ worker.at = "leave"
  /\ Publish(SignedOut(state, "stopped"))
  /\ IF IsReconnect THEN WorkerTo("complete") ELSE WorkerDone
  /\ UNCHANGED <<reconnect, cancelled, active, tk, timers, ui, queue,
                 replies, world>>

\* Mutant: signing out leaves the host to run.
SignOutLeavesHost ==
  /\ worker.at = "signOutHost"
  /\ CancelActive
  /\ Publish(SignedOut(state, "stopped"))
  /\ WorkerDone
  /\ UNCHANGED <<reconnect, active, tk, timers, ui, queue, replies, world>>

\* sign_out: the host goes down before the session is dropped.
SignOutHost ==
  /\ worker.at = "signOutHost"
  /\ CancelActive
  /\ \E failed \in BOOLEAN :
       /\ IF failed THEN core # "absent" /\ Disturb ELSE Calm
       /\ Publish(SignedOut(state, IF failed THEN "failed" ELSE "stopped"))
  /\ core' = "absent"
  /\ WorkerDone
  /\ UNCHANGED <<reconnect, active, tk, timers, ui, queue, replies, game,
                 permitted>>

(***************************************************************************)
(* start_proxy, by hand or as a reconnect attempt.                         *)
(***************************************************************************)
Enter(fate) == worker' = [worker EXCEPT !.at = "publish", !.fate = fate]

\* The read that admits a start; start_proxy without automatic_reconnect
\* first clears the suppression latch.
Admit ==
  /\ worker.at = "admit"
  /\ IF IsReconnect
     THEN /\ UNCHANGED state
          /\ IF Attempt \in cancelled \/ ~Eligible(state)
             THEN WorkerTo("complete")
             ELSE Enter("ok")
     ELSE /\ Publish([state EXCEPT !.suppressed = FALSE])
          /\ IF state.shuttingDown THEN WorkerDone
             ELSE Enter(IF Ready(state) /\ state.game THEN "ok" ELSE "failed")
  /\ UNCHANGED <<reconnect, cancelled, active, tk, timers, ui, queue,
                 replies, world>>

PublishStarting ==
  /\ worker.at = "publish" /\ worker.task.kind # "signin"
  /\ IF worker.fate = "failed"
     THEN Publish([state EXCEPT !.status = "failed"]) /\ WorkerDone
     ELSE /\ Publish([state EXCEPT !.denied = FALSE,
               !.status = IF IsReconnect THEN "reconnecting" ELSE "starting"])
          /\ WorkerTo(IF IsReconnect THEN "register" ELSE "lock")
  /\ UNCHANGED <<reconnect, cancelled, active, tk, timers, ui, queue,
                 replies, world>>

Register ==
  /\ worker.at = "register"
  /\ active' = Attempt
  /\ WorkerTo("lock")
  /\ UNCHANGED <<state, reconnect, cancelled, tk, timers, ui, queue, replies,
                 world>>

\* Every failure of the gateway ends here; once the host was asked to start,
\* the orchestrator shuts it down.
Fail(fate) == worker' = [worker EXCEPT !.at = "settle", !.fate = fate]
FailHosted(fate) == Fail(fate) /\ core' = "absent"

\* The operation lock, the runtime reset of a reconnect, and the access
\* context, which reads the state a second time.
Lock ==
  /\ worker.at = "lock"
  /\ permitted' = FALSE
  /\ \E answer \in StopAnswers :
       /\ IF IsReconnect /\ core # "absent"
          THEN StopRuntime(answer)
          ELSE answer = "accepted" /\ UNCHANGED <<core, events>>
       /\ IF answer = "accepted" /\ Ready(state)
          THEN WorkerTo("target") ELSE Fail("failed")
  /\ UNCHANGED <<shared, tk, timers, ui, queue, replies, game>>

CancelSet == IsReconnect /\ Attempt \in cancelled

\* wait_for_exact_pso2: nothing once cancelled; until its deadline a snapshot
\* that cannot be taken is an empty one.
Awaited(found) ==
  \/ CancelSet /\ found = None /\ Calm
  \/ ~CancelSet /\ found = game /\ Calm
  \/ ~CancelSet /\ found = None /\ game # None /\ Disturb

\* What each stage makes of the exceptions of its adapter (_invoke_adapter).
FatesOf == [target |-> {"safe"}, heartbeat |-> {"safe", "denied", "expelled"},
            recheck |-> {"failed"}, host |-> {"safe", "failed"},
            challenge |-> {"safe"}, permit |-> {"failed"},
            start |-> {"failed"}]

Aim(target) == worker' = [worker EXCEPT !.at = "host", !.target = target]

\* The target and the online precondition.
Target ==
  /\ worker.at = "target"
  /\ \/ \E found \in Targets \cup {None} :
          /\ Awaited(found)
          /\ IF CancelSet THEN Fail("failed")
             ELSE IF found # None
             THEN Aim(found)
             ELSE \E fate \in FatesOf.target : Fail(fate)
     \/ /\ ~CancelSet /\ game # None
        /\ \E fate \in FatesOf.heartbeat :
             /\ Fail(fate)
             /\ IF state.entitled \/ fate = "safe" THEN Disturb ELSE Calm
  /\ UNCHANGED <<shared, tk, timers, ui, queue, replies, core, game,
                 permitted>>

\* The cancellation and target rechecks, the host, its control channel and
\* the runtime configuration.
Host ==
  /\ worker.at = "host"
  /\ \/ /\ CancelSet \/ worker.target # game
        /\ \E fate \in FatesOf.recheck : Fail(fate)
        /\ UNCHANGED core /\ Calm
     \/ /\ ~CancelSet /\ worker.target = game
        /\ core' = IF core = "absent" THEN "idle" ELSE core
        /\ WorkerTo("permit") /\ Calm
     \/ /\ ~CancelSet /\ worker.target = game
        /\ \E fate \in FatesOf.host : FailHosted(fate)
        /\ Disturb
  /\ UNCHANGED <<shared, tk, timers, ui, queue, replies, game, permitted>>

\* The challenge, which needs a live host, and the permit.
Permit ==
  /\ worker.at = "permit"
  /\ \/ /\ core = "absent"
        /\ \E fate \in FatesOf.challenge : FailHosted(fate)
        /\ Calm /\ UNCHANGED permitted
     \/ /\ core # "absent" /\ worker.target # game
        /\ \E fate \in FatesOf.recheck : FailHosted(fate)
        /\ Calm /\ UNCHANGED permitted
     \/ /\ core # "absent" /\ worker.target = game
        /\ permitted' = TRUE
        /\ WorkerTo("authorize") /\ Calm /\ UNCHANGED core
     \/ /\ core # "absent" /\ worker.target = game
        /\ \E fate \in FatesOf.permit : FailHosted(fate)
        /\ Disturb /\ UNCHANGED permitted
  /\ UNCHANGED <<shared, tk, timers, ui, queue, replies, game>>

\* The last rechecks and start_authorized; a Core that already runs may
\* answer AlreadyRunning.
Authorize ==
  /\ worker.at = "authorize"
  /\ \/ /\ CancelSet \/ worker.target # game \/ core = "absent"
        /\ FailHosted("failed") /\ Calm
     \/ /\ ~CancelSet /\ worker.target = game /\ core # "absent"
        /\ core' = "running"
        /\ worker' = [worker EXCEPT !.at = "settle", !.fate = "ok"] /\ Calm
     \/ /\ ~CancelSet /\ worker.target = game /\ core # "absent"
        /\ \E fate \in FatesOf.start : FailHosted(fate)
        /\ IF core = "running" THEN Calm ELSE Disturb
  /\ UNCHANGED <<shared, tk, timers, ui, queue, replies, game, permitted>>

\* What a start that succeeded asks of the state before it claims to run.
Superseded(s) ==
  IF IsReconnect THEN ~Eligible(s)
                 ELSE s.shuttingDown \/ s.suppressed \/ ~s.game

\* The lock is released; the state is read once more.
Settle ==
  /\ worker.at = "settle"
  /\ WorkerTo(IF worker.fate = "ok"
              THEN IF Superseded(state) THEN "undo" ELSE "report"
              ELSE IF ~IsReconnect \/ Eligible(state) THEN "report"
                                                       ELSE "clear")
  /\ UNCHANGED <<shared, tk, timers, ui, queue, replies, world>>

Report ==
  /\ worker.at = "report"
  /\ Publish(IF worker.fate = "ok"
             THEN [Stopped(state) EXCEPT !.status = "running"]
             ELSE [state EXCEPT !.status = "failed",
                     !.retrySafe = worker.fate = "safe",
                     !.denied = worker.fate \in {"denied", "expelled"}])
  /\ WorkerTo("clear")
  /\ UNCHANGED <<reconnect, cancelled, active, tk, timers, ui, queue,
                 replies, world>>

\* A superseded start stops the runtime, whatever the Core answers, without
\* the operation lock.
Undo ==
  /\ worker.at = "undo"
  /\ \E answer \in StopAnswers : StopRuntime(answer)
  /\ Publish(Stopped(state))
  /\ WorkerTo("clear")
  /\ UNCHANGED <<reconnect, cancelled, active, tk, timers, ui, queue,
                 replies, game, permitted>>

\* The finally clause; LauncherService then expels a session the online
\* precondition found invalid.
Clear ==
  /\ worker.at = "clear"
  /\ active' = None
  /\ IF IsReconnect
     THEN WorkerTo(IF /\ worker.fate = "expelled" /\ worker.session # None
                      /\ state.session = worker.session
                   THEN "revokeHost" ELSE "complete")
     ELSE WorkerDone
  /\ UNCHANGED <<state, reconnect, cancelled, tk, timers, ui, queue, replies,
                 world>>

\* reconnect_controller.complete, on the state as it is by now.
Complete ==
  /\ worker.at = "complete"
  /\ LET value == IF reconnect.inFlight # Attempt THEN "blocked"
                  ELSE Outcome(reconnect, state)
     IN /\ reconnect' = IF reconnect.inFlight # Attempt THEN reconnect
                        ELSE Completed(reconnect, value)
        /\ Reply("reconnect", None, value, None)
  /\ cancelled' = cancelled \ {Attempt}
  /\ WorkerDone
  /\ UNCHANGED <<state, active, tk, timers, ui, queue, world>>

WorkerNext == Dequeue \/ Claim \/ AuthSucceed \/ Beat \/ RevokeHost
  \/ RevokeSession \/ Leave \/ SignOutHost \/ Admit \/ PublishStarting
  \/ Register \/ Lock \/ Target \/ Host \/ Permit \/ Authorize \/ Settle
  \/ Report \/ Undo \/ Clear \/ Complete

(***************************************************************************)
(* The Tk thread: timers and user intents.                                 *)
(***************************************************************************)
TkTo(at) == tk' = [tk EXCEPT !.at = at]

PollTimer ==
  /\ tk.at = "idle" /\ ~ui.polling /\ Room
  /\ ui' = [ui EXCEPT !.polling = TRUE]
  /\ Submit(Task("poll", None))
  /\ UNCHANGED <<shared, tk, worker, replies, timers, world>>

HeartbeatTimer ==
  /\ tk.at = "idle" /\ state.session # None
  /\ Room /\ ~Queued("heartbeat")
  /\ Submit(Task("heartbeat", None))
  /\ UNCHANGED <<shared, tk, worker, replies, timers, ui, world>>

\* The sign-in button, shown while signed out.
SignIn ==
  /\ tk.at = "idle" /\ ~state.signedIn
  /\ ~Queued("signin") /\ worker.at \notin {"claim", "publish"}
  /\ Disturb
  /\ Submit(Task("signin", None))
  /\ UNCHANGED <<shared, tk, worker, replies, timers, ui, core, game,
                 permitted>>

\* Sign-out cancels, latches the suppression and queues the rest.
SignOut ==
  /\ tk.at = "idle" /\ state.signedIn /\ ~Queued("signout")
  /\ Disturb
  /\ reconnect' = Cancelled(reconnect)
  /\ Publish([state EXCEPT !.suppressed = TRUE, !.retrySafe = FALSE])
  /\ cancelled' = cancelled \cup ({reconnect.inFlight, active} \ {None})
  /\ Submit(Task("signout", None))
  /\ UNCHANGED <<active, tk, worker, replies, timers, ui, core, game,
                 permitted>>

\* The timer of a scheduled attempt: begin(), then the status, then the task.
ReconnectTimer ==
  /\ tk.at = "idle"
  /\ \E attempt \in timers :
       /\ timers' = timers \ {attempt}
       /\ IF reconnect.scheduled # attempt
          THEN UNCHANGED <<reconnect, tk>>
          ELSE IF ~Eligible(state)
          THEN reconnect' = Unscheduled(reconnect) /\ UNCHANGED tk
          ELSE /\ reconnect' = Begun(reconnect, attempt)
               /\ tk' = [TkIdle EXCEPT !.at = "markBegun", !.attempt = attempt]
  /\ UNCHANGED <<state, cancelled, active, worker, queue, replies, ui, world>>

\* The update half of mark_proxy_reconnecting; its read was in the step
\* before, whose guards imply the mark's own.
MarkBegun ==
  /\ tk.at = "markBegun"
  /\ Publish([state EXCEPT !.status = "reconnecting", !.denied = FALSE])
  /\ Submit(Task("reconnect", tk.attempt))
  /\ tk' = TkIdle
  /\ UNCHANGED <<reconnect, cancelled, active, worker, replies, timers, ui,
                 world>>

(***************************************************************************)
(* The Tk thread: detection of the game, which _on_game_detected handles.  *)
(***************************************************************************)
ActiveStatuses == {"starting", "reconnecting", "running"}

\* What the dispatch of GameProcessStateChanged reads before it publishes.
AfterDetection(detected) ==
  tk' = [TkIdle EXCEPT
    !.detected = detected,
    !.at = IF state.game # detected THEN "apply" ELSE "resume",
    !.keep = state.suppressed,
    !.then = CASE detected -> "resume"
               [] ~detected /\ state.session # None /\ ~state.entitled
                  -> "revokeHost"
               [] ~detected /\ (state.session = None \/ state.entitled)
                  /\ state.status \in ActiveStatuses -> "stopHost"
               [] OTHER -> "resume"]

\* While the startup probe is pending it owns the routing.
Detected(sight) ==
  IF ui.routePending \/ sight = "unknown" THEN UNCHANGED tk
                                          ELSE AfterDetection(sight = "yes")

TakeReply(kind) ==
  /\ tk.at = "idle" /\ HasReply(kind)
  /\ replies' = Tail(replies)

PollDone ==
  /\ TakeReply("poll")
  /\ LET r == Head(replies)
     IN /\ ui' = [ui EXCEPT !.polling = FALSE, !.bound = r.target]
        /\ Detected(r.value)
  /\ UNCHANGED <<shared, worker, queue, timers, world>>

\* _runtime_health_revalidated: the game still runs, so a reconnect may be
\* requested, marked and scheduled.
HealthDone ==
  /\ TakeReply("health")
  /\ LET r == Head(replies)
     IN /\ ui' = [ui EXCEPT !.probing = FALSE, !.bound = r.target,
                            !.polling = @ /\ r.value # "no"]
        /\ IF r.value = "yes" /\ CanRequest(reconnect, state)
           THEN \E attempt \in Attempts \ Held :
                  /\ reconnect' = Requested(reconnect, attempt)
                  /\ timers' = timers \cup {attempt}
                  /\ tk' = [TkIdle EXCEPT !.at = "mark"]
           ELSE /\ UNCHANGED <<reconnect, timers>>
                /\ IF r.value = "yes" THEN UNCHANGED tk ELSE Detected(r.value)
  /\ UNCHANGED <<state, cancelled, active, worker, queue, world>>

Mark ==
  /\ tk.at = "mark"
  /\ Publish([state EXCEPT !.status = "reconnecting", !.denied = FALSE])
  /\ tk' = TkIdle
  /\ UNCHANGED <<reconnect, cancelled, active, worker, queue, replies, timers,
                 ui, world>>

\* _route_after_authentication: a new session resets the window's flags, and
\* the game is observed before anything is launched.
SignInDone ==
  /\ TakeReply("signin")
  /\ LET fresh == IF state.session = ui.routed THEN ui
                  ELSE [ui EXCEPT !.routePending = FALSE, !.routeDone = FALSE,
                          !.bound = None, !.attempted = FALSE,
                          !.routed = state.session]
         routes == Ready(state) /\ ~fresh.routeDone /\ ~fresh.routePending
     IN IF routes /\ state.game
        THEN /\ ui' = [fresh EXCEPT !.routeDone = TRUE, !.polling = FALSE]
             /\ TkTo("observe") /\ UNCHANGED queue
        ELSE /\ ui' = [fresh EXCEPT !.routePending = @ \/ routes]
             /\ UNCHANGED tk
             /\ IF routes THEN Submit(Task("probe", state.session))
                          ELSE UNCHANGED queue
  /\ UNCHANGED <<shared, worker, timers, world>>

\* _complete_startup_route; the generation is the routed session.
ProbeDone ==
  /\ TakeReply("probe")
  /\ LET r == Head(replies)
         routes == Ready(state) /\ ~ui.routeDone /\ r.value # "unknown"
     IN IF r.id # ui.routed THEN UNCHANGED <<ui, tk>>
        ELSE /\ ui' = [ui EXCEPT !.routePending = FALSE,
                         !.routeDone = @ \/ routes,
                         !.polling = @ /\ ~(routes /\ r.value = "yes")]
             /\ IF routes /\ r.value = "yes" THEN TkTo("observe")
                                             ELSE UNCHANGED tk
  /\ UNCHANGED <<shared, worker, queue, timers, world>>

\* The synchronous observation of the exact target after a login.
Observe ==
  /\ tk.at = "observe"
  /\ \/ Disturb /\ tk' = TkIdle /\ UNCHANGED ui
     \/ /\ Calm
        /\ LET found == game # None /\ (ui.bound = None \/ ui.bound = game)
           IN /\ ui' = [ui EXCEPT !.bound = IF found THEN game ELSE None]
              /\ AfterDetection(found)
  /\ UNCHANGED <<shared, worker, queue, replies, timers, core, game,
                 permitted>>

\* GameProcessStateChanged, published over what was read before: an exit
\* clears the suppression latch.  Stopping publishes its status at once.
Apply ==
  /\ tk.at = "apply"
  /\ Publish([state EXCEPT !.game = tk.detected,
                !.suppressed = tk.detected /\ tk.keep,
                !.status = IF tk.then = "stopHost" THEN "stopping" ELSE @])
  /\ IF tk.detected THEN UNCHANGED cancelled ELSE CancelActive
  /\ TkTo(tk.then)
  /\ UNCHANGED <<reconnect, active, worker, queue, replies, timers, ui, world>>

StopHost ==
  /\ tk.at = "stopHost" /\ LockFree
  /\ \E answer \in StopAnswers :
       /\ StopRuntime(answer)
       /\ Publish(IF answer = "accepted" THEN Stopped(state)
                  ELSE [state EXCEPT !.status = "failed"])
  /\ TkTo("resume")
  /\ UNCHANGED <<reconnect, cancelled, active, worker, queue, replies, timers,
                 ui, game, permitted>>

\* An exit with a licence that ran out while the game was on.
TkRevokeHost ==
  /\ tk.at = "revokeHost"
  /\ CancelActive
  /\ ShutdownHost
  /\ TkTo("revokeSession")
  /\ UNCHANGED <<reconnect, active, worker, queue, replies, timers, ui, game,
                 permitted>>

TkRevokeSession ==
  /\ tk.at = "revokeSession"
  /\ Publish(Revoked(state))
  /\ TkTo("resume")
  /\ UNCHANGED <<reconnect, cancelled, active, worker, queue, replies, timers,
                 ui, world>>

\* Whether the detected game is to have an automatic start.
Startable == /\ Ready(state)
             /\ state.status \notin ActiveStatuses
             /\ ~OwnsRecovery(reconnect)
             /\ ui.attempted => state.retrySafe

\* The rest of _on_game_detected, on the state as the dispatch left it.
Resume ==
  /\ tk.at = "resume"
  /\ tk' = TkIdle
  /\ LET routed == [ui EXCEPT !.routeDone = @ \/ Ready(state)]
     IN \/ /\ ~tk.detected
           /\ CancelReconnect
           /\ ui' = [routed EXCEPT !.attempted = FALSE] /\ UNCHANGED queue
        \/ /\ tk.detected /\ Startable
           /\ Submit(Task("start", None))
           /\ ui' = [routed EXCEPT !.attempted = TRUE]
           /\ UNCHANGED <<reconnect, cancelled>>
        \/ /\ tk.detected /\ ~Startable
           /\ ui' = routed /\ UNCHANGED <<queue, reconnect, cancelled>>
  /\ UNCHANGED <<state, active, worker, replies, timers, world>>

(***************************************************************************)
(* The Tk thread: telemetry, the end of an attempt, closing.               *)
(***************************************************************************)
\* _observe_runtime_health.
ObserveHealth(telemetry) ==
  \/ /\ telemetry = "healthy"
     /\ reconnect' = IF state.status = "running" THEN ObserveRunning(reconnect)
                                                 ELSE reconnect
     /\ UNCHANGED queue /\ ui' = [ui EXCEPT !.telemetry = telemetry]
  \/ /\ telemetry # "healthy"
     /\ IF ui.probing THEN UNCHANGED queue ELSE Submit(Task("health", None))
     /\ ui' = [ui EXCEPT !.telemetry = telemetry, !.probing = TRUE]
     /\ UNCHANGED reconnect

\* A Core that is gone is published once, when the pipe breaks; a Core that
\* lives is sampled again and again.
Telemeter ==
  /\ tk.at = "idle" /\ Room
  /\ \E telemetry \in {"disconnected", "unhealthy", "healthy"} :
       /\ \/ telemetry = "healthy" /\ core = "running" /\ Calm
          \/ telemetry = "unhealthy" /\ core = "running" /\ Disturb
          \/ telemetry = "unhealthy" /\ core = "idle" /\ Calm
          \/ /\ telemetry = "disconnected" /\ core = "absent"
             /\ ui.telemetry # "disconnected" /\ Calm
       /\ ObserveHealth(telemetry)
  /\ UNCHANGED <<state, cancelled, active, tk, worker, replies, timers, core,
                 game, permitted>>

\* _automatic_reconnect_completed; a retry observes the last telemetry.
ReconnectDone ==
  /\ TakeReply("reconnect")
  /\ LET value == Head(replies).value
     IN \/ /\ value = "retry"
           /\ ObserveHealth(ui.telemetry) /\ UNCHANGED tk
        \/ /\ value \in {"exhausted", "failed"}
           /\ IF Markable(state) /\ state.status \in {"reconnecting", "failed"}
              THEN TkTo("markFailed") ELSE UNCHANGED tk
           /\ UNCHANGED <<reconnect, queue, ui>>
        \/ /\ value \in {"succeeded", "blocked"}
           /\ UNCHANGED <<reconnect, queue, ui, tk>>
  /\ UNCHANGED <<state, cancelled, active, worker, timers, world>>

MarkFailed ==
  /\ tk.at = "markFailed"
  /\ Publish([state EXCEPT !.status = "failed", !.retrySafe = FALSE])
  /\ tk' = TkIdle
  /\ UNCHANGED <<reconnect, cancelled, active, worker, queue, replies, timers,
                 ui, world>>

\* The start button of the debug dialog.
RetryProxy ==
  /\ tk.at = "idle" /\ ~Queued("start")
  /\ ~(worker.task # None /\ worker.task.kind = "start")
  /\ state.status \notin {"starting", "running", "stopping"}
  /\ Disturb
  /\ Submit(Task("start", None))
  /\ UNCHANGED <<shared, tk, worker, replies, timers, ui, core, game,
                 permitted>>

Close ==
  /\ tk.at = "idle"
  /\ Disturb
  /\ reconnect' = Cancelled(reconnect)
  /\ Publish([state EXCEPT !.shuttingDown = TRUE, !.suppressed = TRUE])
  /\ cancelled' = cancelled \cup ({reconnect.inFlight, active} \ {None})
  /\ TkTo("closeHost")
  /\ UNCHANGED <<active, worker, queue, replies, timers, ui, core, game,
                 permitted>>

CloseHost ==
  /\ tk.at = "closeHost"
  /\ ShutdownHost
  /\ TkTo("closeSession")
  /\ UNCHANGED <<reconnect, cancelled, active, worker, queue, replies, timers,
                 ui, game, permitted>>

CloseSession ==
  /\ tk.at = "closeSession"
  /\ Publish(Revoked(state))
  /\ TkTo("closeQueue")
  /\ UNCHANGED <<reconnect, cancelled, active, worker, queue, replies, timers,
                 ui, world>>

\* The executor shuts down without waiting and cancels what is queued.
CloseQueue ==
  /\ tk.at = "closeQueue"
  /\ queue' = <<>> /\ timers' = {}
  /\ TkTo("exit")
  /\ UNCHANGED <<shared, worker, replies, ui, world>>

\* Mutant: a Core without a lifetime job.
ExitLeavesCore ==
  /\ tk.at = "exit"
  /\ TkTo("closed")
  /\ worker' = WorkerIdle /\ replies' = <<>>
  /\ UNCHANGED <<shared, queue, timers, ui, world>>

\* os._exit ends the worker wherever it is, and the Core's lifetime job with
\* its last handle.
Exit ==
  /\ tk.at = "exit"
  /\ TkTo("closed")
  /\ worker' = WorkerIdle /\ core' = "absent" /\ replies' = <<>>
  /\ UNCHANGED <<shared, queue, timers, ui, game, permitted, events>>

Callback == PollDone \/ HealthDone \/ SignInDone \/ ProbeDone \/ ReconnectDone
TkStep == MarkBegun \/ Mark \/ Observe \/ Apply \/ StopHost \/ TkRevokeHost
  \/ TkRevokeSession \/ Resume \/ MarkFailed \/ CloseHost \/ CloseSession
  \/ CloseQueue \/ Exit
Intent == SignIn \/ SignOut \/ RetryProxy \/ Close
TkNext == Callback \/ TkStep \/ Intent \/ PollTimer \/ HeartbeatTimer
  \/ ReconnectTimer \/ Telemeter

(***************************************************************************)
(* The world outside.                                                      *)
(***************************************************************************)
GameStarts ==
  /\ game = None /\ Disturb
  /\ \E target \in Targets \ ({ui.bound, worker.target}
                       \cup {replies[i].target : i \in 1..Len(replies)}) :
       game' = target
  /\ UNCHANGED <<shared, threads, core, permitted>>

GameExits ==
  /\ game # None /\ Disturb
  /\ game' = None
  /\ UNCHANGED <<shared, threads, core, permitted>>

CoreCrashes ==
  /\ core # "absent" /\ Disturb
  /\ core' = "absent"
  /\ UNCHANGED <<shared, threads, game, permitted>>

LicenseExpires ==
  /\ state.entitled /\ Disturb
  /\ Publish([state EXCEPT !.entitled = FALSE])
  /\ UNCHANGED <<reconnect, cancelled, active, threads, core, game, permitted>>

World == GameStarts \/ GameExits \/ CoreCrashes \/ LicenseExpires

Next == WorkerNext \/ TkNext \/ World

Spec == Init /\ [][Next]_vars

(***************************************************************************)
(* The worker thread never waits for the Tk thread, and runs what is       *)
(* queued.  The mainloop finishes a handler, drains the answers and fires  *)
(* every timer that is due, in the order in which they are.                *)
(***************************************************************************)
FairSpec == /\ Spec
            /\ WF_vars(WorkerNext) /\ WF_vars(TkStep) /\ SF_vars(Callback)
            /\ SF_vars(PollTimer) /\ SF_vars(ReconnectTimer)
            /\ SF_vars(Telemeter)

(***************************************************************************)
(* Properties.                                                             *)
(***************************************************************************)
\* Nothing is under way: no handler, no task, no answer.
Quiet == tk.at \in {"idle", "closed"} /\ worker.at = "idle"
         /\ queue = <<>> /\ replies = <<>>

\* Once everything has settled, no Core runs the proxy for a session that is
\* gone or for a user who asked for it to stop, whatever was starting when the
\* session was revoked or the sign-out was latched (_start_proxy re-reads the
\* state after the gateway returns; sign_out and _revoke_session take the host
\* down under the operation lock).
RightGone ==
  Quiet /\ (state.session = None \/ state.suppressed) => core # "running"

\* The reconnect controller never waits for what will not come: a scheduled
\* attempt has its root.after timer, an attempt in flight is about to be
\* submitted, is queued or is being run.
NoOrphan ==
  /\ reconnect.scheduled # None => reconnect.scheduled \in timers
  /\ reconnect.inFlight # None =>
       \/ tk.at = "markBegun" /\ tk.attempt = reconnect.inFlight
       \/ worker.task = Task("reconnect", reconnect.inFlight)
       \/ \E i \in 1..Len(queue) :
            queue[i] = Task("reconnect", reconnect.inFlight)

\* Reconnect attempts are single-flight: of the attempts queued or run by the
\* worker, at most one has not been cancelled.
Attempting == {worker.task} \cup {queue[i] : i \in 1..Len(queue)}
OneAttempt ==
  Cardinality({t \in Attempting \ {None} :
                 t.kind = "reconnect" /\ t.id \notin cancelled}) <= 1

\* The types and the bookkeeping of the reconnect attempts.
AttemptsOK == TypeOK /\ NoOrphan /\ OneAttempt

\* An automatic reconnect, scheduled or in flight, comes to its end.
ReconnectEnds == Pending(reconnect) ~> ~Pending(reconnect)

\* A sign-out that was asked for is carried out behind whatever start or
\* reconnect the worker has in hand, and the host goes down with it.
SignOutEnds ==
  Queued("signout") ~> (~state.signedIn /\ core = "absent") \/ tk.at = "closed"

\* Closing the window ends the launcher, although it waits for the operation
\* lock on the Tk thread.
CloseEnds == tk.at = "closeHost" ~> tk.at = "closed" /\ core = "absent"
=============================================================================
