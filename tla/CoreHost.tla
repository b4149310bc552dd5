------------------------------ MODULE CoreHost ------------------------------
(***************************************************************************)
(* The Core host process the launcher owns: WindowsCoreProcessAdapter,     *)
(* NamedPipeCoreControlChannel and AuthorizedCoreOrchestrator, called by   *)
(* the worker thread (start, reconnect) and by the Tk thread (stop,        *)
(* shutdown) under the controller's _proxy_operation_lock.                 *)
(*                                                                         *)
(* Hosts are numbered in the order they are spawned; host 0 is the Core of *)
(* another launcher, which may hold the pipe when this one comes up.  The  *)
(* Core's side is external: it answers one request at a time, or never.    *)
(* Time is not counted: every wait of the launcher has a deadline, and may *)
(* reach it at any moment.                                                 *)
(***************************************************************************)
EXTENDS Naturals, FiniteSets

CONSTANTS MaxSpawns        \* Core processes the launcher starts

ASSUME SpawnAssumption == MaxSpawns \in Nat \ {0}

Stray == 0
Own == 1..MaxSpawns
Hosts == {Stray} \union Own
NoHost == MaxSpawns + 1
Threads == {"worker", "tk"}

VARIABLES up,        \* the launcher process is there
          life,      \* each Core process, as the system sees it
          runtime,   \* whether the proxy of each Core runs
          process,   \* the adapter's _process
          job,       \* the host in the lifetime job the adapter holds open
          frame,     \* the request on the control pipe
          thread,    \* where each thread stands
          challenge, \* the host whose challenge the permit at hand answers
          reported,  \* the proxy status the controller published last
          stopFailed \* the last stop was refused or not answered

vars == <<up, life, runtime, process, job, frame, thread, challenge,
          reported, stopFailed>>

Live == {"booting", "serving", "exiting"}
Lives == Live \union {"none", "dying", "dead"}
Asks == {"reset", "catalog", "validate", "challenge", "authorize", "stop",
         "tail", "shutdown"}
StartSteps == {"begin", "fresh", "spawn", "create", "adopt", "channel",
               "catalog", "validate", "challenge", "permit", "authorize"}
Steps == Asks \union StartSteps \union
         {"idle", "lock", "owned", "grace", "exit", "kill"}
Wants == {"start", "reconnect", "stop", "shutdown"}

NoFrame == [host |-> NoHost, at |-> "idle", by |-> "tk", answer |-> "none", open |-> FALSE]
Idle == [at |-> "idle", want |-> "start", asking |-> FALSE, hosted |-> FALSE]

\* Popen.poll: a process that is being terminated still runs.
Runs(h) == h # NoHost /\ life[h] \in Live \union {"dying"}

\* owned_process_id, whose other effect, the release of the job of a process
\* that ended, kills nothing.
Owned == IF Runs(process) THEN process ELSE NoHost

\* _proxy_operation_lock; the stop of a superseded start is outside it.
Holds(t) == thread[t].at \notin {"idle", "lock", "tail"}
LockFree == \A t \in Threads : ~Holds(t)

Go(t, step) == thread' = [thread EXCEPT ![t].at = step, ![t].asking = FALSE]

\* The operation is over and its status published.
End(t, status) ==
    /\ thread' = [thread EXCEPT ![t] = Idle]
    /\ reported' = status

\* The handle of the job is closed: whatever runs in it is killed.
JobClosed == [h \in Hosts |->
    IF h = job /\ life[h] \in Live THEN "dying" ELSE life[h]]

Forget == process' = NoHost /\ job' = NoHost

-----------------------------------------------------------------------------
(* Requests over the control pipe.                                         *)

\* What an operation does when its request was refused, was not answered in
\* time, or the pipe closed.
Refused(t) ==
    LET at == thread[t].at IN
    \/ /\ at \in StartSteps /\ thread[t].hosted
       /\ Go(t, "owned")
       /\ UNCHANGED <<reported, stopFailed>>
    \/ /\ at \in StartSteps /\ ~thread[t].hosted
       /\ End(t, "failed")
       /\ UNCHANGED stopFailed
    \/ /\ at \in {"reset", "stop"}
       /\ End(t, "failed")
       /\ stopFailed' = TRUE
    \/ /\ at = "tail"
       /\ End(t, "stopped")
       /\ stopFailed' = TRUE
    \/ /\ at = "shutdown"
       /\ Go(t, "grace")
       /\ UNCHANGED <<reported, stopFailed>>

\* ... and what it does when the answer is the one it asked for.  A start that
\* ran is published, or was superseded meanwhile and is stopped again.
Accepted(t) ==
    LET at == thread[t].at IN
    \/ /\ at \in {"catalog", "validate", "challenge", "reset", "shutdown"}
       /\ Go(t, CASE at = "catalog" -> "validate" [] at = "validate" -> "challenge"
                  [] at = "challenge" -> "permit" [] at = "reset" -> "begin"
                  [] at = "shutdown" -> "exit")
       /\ stopFailed' = (stopFailed /\ at # "reset")
       /\ UNCHANGED reported
    \/ /\ at = "authorize"
       /\ End(t, "running")
       /\ stopFailed' = FALSE
    \/ /\ at = "authorize"
       /\ Go(t, "tail")
       /\ stopFailed' = FALSE
       /\ UNCHANGED reported
    \/ /\ at \in {"stop", "tail"}
       /\ End(t, "stopped")
       /\ stopFailed' = FALSE

\* Mutant: the server of the pipe is not identified before the frame is written.
AskAnyone(t) ==
    /\ thread[t].at \in Asks /\ ~thread[t].asking
    /\ frame = NoFrame
    /\ \E h \in Hosts :
        /\ life[h] = "serving"
        /\ frame' = [host |-> h, at |-> thread[t].at, by |-> t, answer |-> "none", open |-> TRUE]
        /\ thread' = [thread EXCEPT ![t].asking = TRUE]
    /\ UNCHANGED <<up, life, runtime, process, job, challenge, reported, stopFailed>>

\* _send_and_receive: the pipe has one instance.  It is opened, its server must
\* be the owned process, and only then is the frame written.
Ask(t) ==
    /\ thread[t].at \in Asks /\ ~thread[t].asking
    /\ frame = NoFrame
    /\ \E h \in Hosts :
        /\ life[h] = "serving"
        /\ \/ /\ h = Owned
              /\ frame' = [host |-> h, at |-> thread[t].at, by |-> t,
                           answer |-> "none", open |-> TRUE]
              /\ thread' = [thread EXCEPT ![t].asking = TRUE]
              /\ UNCHANGED <<reported, stopFailed>>
           \/ /\ h # Owned
              /\ Refused(t)
              /\ UNCHANGED frame
    /\ UNCHANGED <<up, life, runtime, process, job, challenge>>

Mine(t) == thread[t].asking /\ frame.by = t /\ frame.open

\* Mutant: reading the answer has no deadline.
LateAtTheDoorOnly(t) ==
    /\ thread[t].at \in Asks
    /\ ~thread[t].asking
    /\ Refused(t)
    /\ UNCHANGED <<frame, up, life, runtime, process, job, challenge>>

\* The deadline of the whole exchange: the pipe was never free, or the answer
\* does not come.  A Core that has the frame still works on it.
Late(t) ==
    /\ thread[t].at \in Asks
    /\ frame' = IF Mine(t) /\ frame.answer = "none" THEN [frame EXCEPT !.open = FALSE]
                ELSE IF Mine(t) THEN NoFrame ELSE frame
    /\ Refused(t)
    /\ UNCHANGED <<up, life, runtime, process, job, challenge>>

Receive(t) ==
    /\ Mine(t)
    /\ frame.answer # "none"
    /\ frame' = NoFrame
    /\ IF frame.answer = "ok" THEN Accepted(t) ELSE Refused(t)
    /\ challenge' = IF frame.answer = "ok" /\ frame.at = "challenge" THEN frame.host ELSE challenge
    /\ UNCHANGED <<up, life, runtime, process, job>>

-----------------------------------------------------------------------------
(* Start.                                                                  *)

\* A thread takes an operation and waits for the lock; the status it would
\* start from is not running, and a runtime that runs is reset first.
Want(t) ==
    /\ thread[t].at = "idle"
    /\ \E want \in IF t = "worker" THEN {"start", "reconnect"} ELSE {"stop", "shutdown"} :
        /\ want = "start" => reported # "running"
        /\ thread' = [thread EXCEPT ![t] = [Idle EXCEPT !.at = "lock", !.want = want]]
    /\ UNCHANGED <<up, life, runtime, process, job, frame, challenge, reported, stopFailed>>

\* The lock is there: reconnect stops an owned host first, and a shutdown
\* without one is only a status.
Enter(t) ==
    /\ thread[t].at = "lock"
    /\ LockFree
    /\ \/ thread[t].want = "start" /\ Go(t, "begin") /\ UNCHANGED reported
       \/ /\ thread[t].want = "reconnect"
          /\ Go(t, IF Owned = NoHost THEN "begin" ELSE "reset")
          /\ UNCHANGED reported
       \/ thread[t].want = "stop" /\ Go(t, "stop") /\ UNCHANGED reported
       \/ thread[t].want = "shutdown" /\ Owned # NoHost /\ Go(t, "owned") /\ UNCHANGED reported
       \/ thread[t].want = "shutdown" /\ Owned = NoHost /\ End(t, "stopped")
    /\ UNCHANGED <<up, life, runtime, process, job, frame, challenge, stopFailed>>

\* start() waits for one exact pso2.exe, or for the cancellation.
Begin(t) ==
    /\ thread[t].at = "begin"
    /\ \/ Go(t, "fresh") /\ UNCHANGED <<reported, stopFailed>>
       \/ Refused(t)
    /\ UNCHANGED <<up, life, runtime, process, job, frame, challenge>>

\* require_fresh: a heartbeat of its own for each start; only a session that is
\* alive lets it go on, and from here a failure cleans up after a host.
Fresh(t) ==
    /\ thread[t].at = "fresh"
    /\ \/ /\ thread' = [thread EXCEPT ![t].at = "spawn", ![t].hosted = TRUE]
          /\ UNCHANGED <<reported, stopFailed>>
       \/ Refused(t)
    /\ UNCHANGED <<up, life, runtime, process, job, frame, challenge>>

-----------------------------------------------------------------------------
(* start_host_without_secrets, as the system sees it.                      *)

\* The host that was created last.
Newest == CHOOSE h \in Hosts :
    /\ h = Stray \/ life[h] # "none"
    /\ \A g \in Own : g > h => life[g] = "none"

\* _spawn_lifetime_bound: an exception closes the job that was opened.
Unspawned(t) ==
    /\ life' = JobClosed
    /\ Forget
    /\ Refused(t)

\* A host that still runs is used again.
Reuse(t) ==
    /\ thread[t].at = "spawn"
    /\ Owned # NoHost
    /\ Go(t, "channel")
    /\ UNCHANGED <<up, life, runtime, process, job, frame, challenge, reported, stopFailed>>

\* Otherwise its job and its handles are closed, and the executable is looked
\* for.
Discard(t) ==
    /\ thread[t].at = "spawn"
    /\ Owned = NoHost
    /\ \/ /\ life' = JobClosed
          /\ Forget
          /\ Go(t, "create")
          /\ UNCHANGED <<reported, stopFailed>>
       \/ Unspawned(t)
    /\ UNCHANGED <<up, runtime, frame, challenge>>

\* Mutant: the child is created outside the lifetime job.
CreateUnbound(t) ==
    /\ thread[t].at = "create"
    /\ \E h \in Own :
        /\ h = Newest + 1
        /\ life' = [life EXCEPT ![h] = "booting"]
    /\ Go(t, "adopt")
    /\ UNCHANGED <<up, runtime, process, job, frame, challenge, reported, stopFailed>>

\* CreateProcess with the job in its attribute list: the child is in the job
\* before it runs, and before the adapter knows of it.
Create(t) ==
    /\ thread[t].at = "create"
    /\ \/ /\ \E h \in Own :
              /\ h = Newest + 1
              /\ life' = [life EXCEPT ![h] = "booting"]
              /\ job' = h
          /\ Go(t, "adopt")
          /\ UNCHANGED <<process, reported, stopFailed>>
       \/ Unspawned(t)
    /\ UNCHANGED <<up, runtime, frame, challenge>>

\* IsProcessInJob: the child is the adapter's; one that is not in the job, or
\* cannot be told to be, is terminated, and the job closed.
Adopt(t) ==
    /\ thread[t].at = "adopt"
    /\ \/ /\ process' = Newest
          /\ Go(t, "channel")
          /\ UNCHANGED <<life, job, reported, stopFailed>>
       \/ Unspawned(t)
    /\ UNCHANGED <<up, runtime, frame, challenge>>

\* wait_for_control_channel: any server of the pipe name will do.
Channel(t) ==
    /\ thread[t].at = "channel"
    /\ \/ /\ Owned # NoHost
          /\ \E h \in Hosts : life[h] = "serving"
          /\ Go(t, "catalog")
          /\ UNCHANGED <<reported, stopFailed>>
       \/ Refused(t)
    /\ UNCHANGED <<up, life, runtime, process, job, frame, challenge>>

\* issue_launch_authorization, and the checks around it.
Permit(t) ==
    /\ thread[t].at = "permit"
    /\ \/ Go(t, "authorize") /\ UNCHANGED <<reported, stopFailed>>
       \/ Refused(t)
    /\ UNCHANGED <<up, life, runtime, process, job, frame, challenge>>

-----------------------------------------------------------------------------
(* Shutdown, which also cleans up after a start that failed.               *)

Over(t) == IF thread[t].want \in {"start", "reconnect"} THEN "failed" ELSE "stopped"

\* shutdown(): a host that ended already is an error of its own.
OwnedHost(t) ==
    /\ thread[t].at = "owned"
    /\ IF Owned = NoHost THEN End(t, "failed") ELSE Go(t, "shutdown") /\ UNCHANGED reported
    /\ UNCHANGED <<up, life, runtime, process, job, frame, challenge, stopFailed>>

\* wait_for_owned_process_exit, after an accepted shutdown or, first thing, in
\* _emergency_terminate_exact_child; it ends or times out.
Exit(t) ==
    /\ thread[t].at \in {"exit", "grace"}
    /\ \/ /\ ~Runs(process)
          /\ life' = JobClosed
          /\ Forget
          /\ \E status \in {Over(t), "failed"} : End(t, status)
       \/ /\ Runs(process)
          /\ Go(t, "kill")
          /\ UNCHANGED <<life, process, job, reported>>
    /\ UNCHANGED <<up, runtime, frame, challenge, stopFailed>>

\* Mutant: a kill that fails leaves the job open, and forgets the process.
KillKeepsJob(t) ==
    /\ thread[t].at = "kill"
    /\ life' \in {life, [life EXCEPT ![process] = "dying"]}
    /\ process' = NoHost
    /\ End(t, "failed")
    /\ UNCHANGED <<up, runtime, job, frame, challenge, stopFailed>>

\* terminate_owned_process_after_timeout: the process is killed, or cannot be;
\* either way the adapter lets go of it and closes its job.
Kill(t) ==
    /\ thread[t].at = "kill"
    /\ life' \in {JobClosed, [JobClosed EXCEPT ![process] = IF @ \in Live THEN "dying" ELSE @]}
    /\ Forget
    /\ End(t, "failed")
    /\ UNCHANGED <<up, runtime, frame, challenge, stopFailed>>

-----------------------------------------------------------------------------
(* The Core processes, and the end of the launcher.                        *)

\* A Core opens the pipe when no other process has it.
Serve(h) ==
    /\ life[h] = "booting"
    /\ \A g \in Hosts \ {h} : life[g] \notin {"serving", "exiting", "dying"}
    /\ life' = [life EXCEPT ![h] = "serving"]
    /\ UNCHANGED <<up, runtime, process, job, frame, thread, challenge, reported, stopFailed>>

\* It handles the frame, whether or not its sender still waits.
Handle(h) ==
    /\ life[h] = "serving"
    /\ frame.host = h /\ frame.answer = "none"
    /\ \E ok \in BOOLEAN :
        /\ frame' = IF frame.open THEN [frame EXCEPT !.answer = IF ok THEN "ok" ELSE "failed"]
                    ELSE NoFrame
        /\ runtime' = [runtime EXCEPT ![h] =
             IF ok /\ frame.at = "authorize" THEN TRUE
             ELSE IF ok /\ frame.at \in {"reset", "stop", "tail", "shutdown"} THEN FALSE ELSE @]
        /\ life' = [life EXCEPT ![h] = IF ok /\ frame.at = "shutdown" THEN "exiting" ELSE @]
    /\ UNCHANGED <<up, process, job, thread, challenge, reported, stopFailed>>

\* It exits, crashes, or is gone after a kill; its pipe closes with it.
Die(h) ==
    /\ life[h] \in Live \union {"dying"}
    /\ life' = [life EXCEPT ![h] = "dead"]
    /\ runtime' = [runtime EXCEPT ![h] = FALSE]
    /\ frame' = IF frame.host # h \/ frame.answer # "none" THEN frame
                ELSE IF frame.open THEN [frame EXCEPT !.answer = "closed"] ELSE NoFrame
    /\ UNCHANGED <<up, process, job, thread, challenge, reported, stopFailed>>

\* The launcher ends or is killed at any step: the system closes its job.
LauncherEnds ==
    /\ up
    /\ up' = FALSE
    /\ life' = JobClosed
    /\ Forget
    /\ thread' = [t \in Threads |-> Idle]
    /\ frame' = IF frame.answer = "none" THEN [frame EXCEPT !.open = FALSE] ELSE NoFrame
    /\ UNCHANGED <<runtime, challenge, reported, stopFailed>>

-----------------------------------------------------------------------------
Init ==
    /\ up = TRUE
    /\ \E stray \in {"none", "serving"} :
        life = [h \in Hosts |-> IF h = Stray THEN stray ELSE "none"]
    /\ runtime = [h \in Hosts |-> FALSE]
    /\ process = NoHost /\ job = NoHost
    /\ frame = NoFrame
    /\ thread = [t \in Threads |-> Idle]
    /\ challenge = NoHost
    /\ reported = "stopped" /\ stopFailed = FALSE

Step(t) ==
    /\ up
    /\ \/ Enter(t) \/ Begin(t) \/ Fresh(t) \/ Channel(t) \/ Permit(t)
       \/ Reuse(t) \/ Discard(t) \/ Create(t) \/ Adopt(t)
       \/ Ask(t) \/ Late(t) \/ Receive(t)
       \/ OwnedHost(t) \/ Exit(t) \/ Kill(t)

Next ==
    \/ \E t \in Threads : Step(t) \/ (up /\ Want(t))
    \/ \E h \in Hosts : Serve(h) \/ Handle(h) \/ Die(h)
    \/ LauncherEnds

Spec == Init /\ [][Next]_vars

\* Every wait of a thread has a deadline, and a killed process ends.
FairSpec ==
    /\ Spec
    /\ \A t \in Threads : SF_vars(Step(t))
    /\ WF_vars(\E h \in Own : life[h] = "dying" /\ Die(h))

-----------------------------------------------------------------------------
TypeOK ==
    /\ up \in BOOLEAN
    /\ life \in [Hosts -> Lives]
    /\ runtime \in [Hosts -> BOOLEAN]
    /\ process \in Own \union {NoHost} /\ job \in Own \union {NoHost}
    /\ frame \in [host : Hosts \union {NoHost}, at : Asks \union {"idle"}, by : Threads,
                  answer : {"none", "ok", "failed", "closed"}, open : BOOLEAN]
    /\ thread \in [Threads -> [at : Steps, want : Wants, asking : BOOLEAN, hosted : BOOLEAN]]
    /\ challenge \in Hosts \union {NoHost}
    /\ reported \in {"running", "stopped", "failed"} /\ stopFailed \in BOOLEAN

\* A request is only ever at a Core this launcher created, and a permit only at
\* the Core that made its challenge, whoever holds the pipe name meanwhile
\* (_require_owned_server before the write).
FramesToOwned ==
    /\ frame.host \in Own \union {NoHost}
    /\ frame.at = "authorize" => frame.host = challenge

\* A Core that lives is in the job the adapter holds, and is its process or about
\* to become it: neither a failed kill, nor a new start, nor a launcher that ends
\* between the creation and the adoption leaves one behind.
ForgottenIsDead == \A h \in Own : life[h] \in Live =>
    /\ up /\ job = h
    /\ process = h \/ \E t \in Threads : thread[t].at = "adopt"

\* While no operation is under way, a proxy runs only if its start was reported
\* or its stop was not obeyed: a start that failed on the launcher's side, even
\* after the Core accepted it, ends with the Core (_cleanup_owned_host_safely).
NoUnattendedRuntime ==
    (\A t \in Threads : ~Holds(t)) =>
        \A h \in Own : runtime[h] /\ life[h] \in Live =>
            \/ reported = "running" \/ stopFailed
            \/ \E t \in Threads : thread[t].at = "tail"

\* The types and what is owned of the Cores.
HostOK == TypeOK /\ ForgottenIsDead /\ NoUnattendedRuntime

\* Whatever the Core does or does not answer, every operation ends and gives the
\* lock to the thread that waits for it.
OperationsEnd == \A t \in Threads : thread[t].at # "idle" ~> thread[t].at = "idle"

\* No Core outlives the launcher, at whatever step the launcher ends.
GoneWithLauncher == ~up ~> \A h \in Own : life[h] \notin Live \union {"dying"}
=============================================================================
