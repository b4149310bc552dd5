-------------------------- MODULE ProxySessionProofs --------------------------
(***************************************************************************)
(* What holds of ProxySession under Spec, for any number of attempts,      *)
(* sessions and games, whatever the queue holds.                           *)
(***************************************************************************)
EXTENDS ProxySession, FiniteSetTheorems, TLAPS

(***************************************************************************)
(* The reconnect attempts.                                                 *)
(***************************************************************************)
Doing(kind) == worker.task # None /\ worker.task.kind = kind
Submitting == tk.at = "markBegun"

\* Every attempt is in one place: a timer, the handler that submits it, the
\* queue or the worker.
Placed ==
  /\ \A i \in 1..Len(queue) : queue[i].kind = "reconnect" =>
       /\ queue[i].id \in Attempts \ timers
       /\ Doing("reconnect") => queue[i].id # worker.task.id
       /\ Submitting => queue[i].id # tk.attempt
       /\ \A j \in 1..Len(queue) :
            queue[j].kind = "reconnect" /\ queue[j].id = queue[i].id => i = j
  /\ Doing("reconnect") => /\ worker.task.id \in Attempts \ timers
                           /\ Submitting => worker.task.id # tk.attempt
  /\ Submitting => tk.attempt \in Attempts \ timers

\* The attempts that are not cancelled are the one in flight.
Flying ==
  /\ \A i \in 1..Len(queue) :
       queue[i].kind = "reconnect" /\ queue[i].id \notin cancelled
         => queue[i].id = reconnect.inFlight
  /\ Doing("reconnect") /\ worker.task.id \notin cancelled
       => worker.task.id = reconnect.inFlight
  /\ Submitting => tk.attempt = reconnect.inFlight
  /\ reconnect.scheduled = None \/ reconnect.inFlight = None

\* Closing cancels the attempts, and then the tasks.
Closing == tk.at \in {"closeHost", "closeSession", "closeQueue", "exit", "closed"}
Emptied ==
  /\ Closing => ~Pending(reconnect)
  /\ tk.at \in {"exit", "closed"} => queue = <<>>

AttemptInv == NoOrphan /\ Placed /\ Flying /\ Emptied

(***************************************************************************)
(* The right to run the proxy.                                             *)
(***************************************************************************)
\* Where a task takes the worker.
Places ==
  /\ worker.at = "idle" <=> worker.task = None
  /\ worker.at = "claim" => Doing("signin")
  /\ Doing("signin") => worker.at \in {"claim", "publish"}
  /\ worker.at = "signOutHost" => Doing("signout")
  /\ worker.at = "beat" => Doing("heartbeat")
  /\ worker.at = "publish" =>
       \/ Doing("signin")
       \/ Doing("start") /\ worker.fate \in {"ok", "failed"}
       \/ Doing("reconnect") /\ worker.fate = "ok"
  /\ worker.at \in {"register", "complete"} => Doing("reconnect")
  /\ worker.at \in StartSteps \cup
                     {"admit", "lock", "settle", "report", "undo", "clear"}
       => Doing("start") \/ Doing("reconnect")
  /\ worker.at \in {"revokeHost", "revokeSession", "leave"}
       => Doing("heartbeat") \/ Doing("reconnect")

\* One sign-in at a time, and none beside a session.
SigningInv ==
  /\ \A i, j \in 1..Len(queue) :
       queue[i].kind = "signin" /\ queue[j].kind = "signin" => i = j
  /\ Doing("signin") => ~Queued("signin")
  /\ Queued("signin") \/ Doing("signin") => ~state.signedIn
  /\ ~state.signedIn /\ state.session # None /\ tk.at # "closed"
       => Doing("signin") /\ worker.at = "publish"

\* What the steps that revoke a session rely on, from when they read the state.
Revoking == \/ tk.at \in {"revokeHost", "revokeSession"}
            \/ tk.at = "apply" /\ tk.then = "revokeHost"
RevokeInv ==
  /\ tk.at = "apply" /\ tk.detected => ~state.game /\ tk.then = "resume"
  /\ Revoking => /\ ~tk.detected /\ ~state.entitled
                 /\ worker.at # "claim" /\ ~Queued("signin")
  /\ tk.at = "revokeSession" => core # "running" /\ worker.at \notin StartSteps
  /\ worker.at \in {"revokeSession", "leave"} => core # "running"
  /\ tk.at = "closed" => core # "running" /\ worker.at = "idle"

\* A Core that runs the proxy, or is about to.
Going == core = "running" \/ worker.at \in StartSteps
Admitted == /\ Doing("start") \/ Doing("reconnect")
            /\ \/ worker.at \in {"register", "lock"}
               \/ worker.at = "publish" /\ worker.fate = "ok"
Wanted == Going \/ (Admitted /\ state.session # None)
SignOutPending == Queued("signout") \/ worker.at = "signOutHost"

\* It has a session, and is suppressed only while a sign-out is under way, or
\* by a handler that wrote what it read before.
RunInv ==
  /\ Going /\ ~Closing => state.session # None
  /\ Wanted /\ state.suppressed /\ ~Closing => SignOutPending
  /\ Wanted /\ tk.at = "apply" /\ tk.detected /\ tk.keep => SignOutPending

RightInv == Places /\ SigningInv /\ RevokeInv /\ RunInv

SessionInv == TypeOK /\ AttemptInv /\ RightInv

(***************************************************************************)
(* The queue.                                                              *)
(***************************************************************************)
LEMMA TaskFields ==
  ASSUME NEW t \in Tasks
  PROVE  t.kind \in Kinds /\ t.id \in Ids /\ t # None
BY TaskAssumption DEF Tasks

LEMMA Added ==
  ASSUME NEW t \in Tasks, queue \in Seq(Tasks), Submit(t)
  PROVE  /\ queue' \in Seq(Tasks)
         /\ Len(queue) \in Nat /\ Len(queue') = Len(queue) + 1
         /\ \A i \in 1..Len(queue) : queue'[i] = queue[i] /\ queue[i] \in Tasks
         /\ queue'[Len(queue) + 1] = t
         /\ \A kind : Queued(kind)' <=> (Queued(kind) \/ t.kind = kind)
<1>1. /\ queue' \in Seq(Tasks)
      /\ Len(queue) \in Nat /\ Len(queue') = Len(queue) + 1
      /\ \A i \in 1..Len(queue) : queue'[i] = queue[i] /\ queue[i] \in Tasks
      /\ queue'[Len(queue) + 1] = t
  BY DEF Submit
<1>2. ASSUME NEW kind PROVE Queued(kind)' <=> (Queued(kind) \/ t.kind = kind)
  <2>1. ASSUME Queued(kind)' PROVE Queued(kind) \/ t.kind = kind
    <3>1. PICK i \in 1..Len(queue') : queue'[i].kind = kind
      BY <2>1 DEF Queued
    <3>2. i \in 1..Len(queue) \/ i = Len(queue) + 1
      BY <1>1
    <3> QED BY <3>1, <3>2, <1>1 DEF Queued
  <2>2. ASSUME Queued(kind) PROVE Queued(kind)'
    <3>1. PICK i \in 1..Len(queue) : queue[i].kind = kind
      BY <2>2 DEF Queued
    <3>2. i \in 1..Len(queue') /\ queue'[i].kind = kind
      BY <3>1, <1>1
    <3> QED BY <3>2 DEF Queued
  <2>3. ASSUME t.kind = kind PROVE Queued(kind)'
    <3>1. Len(queue) + 1 \in 1..Len(queue')
      BY <1>1
    <3> QED BY <3>1, <2>3, <1>1 DEF Queued
  <2> QED BY <2>1, <2>2, <2>3
<1> QED BY <1>1, <1>2

LEMMA Removed ==
  ASSUME queue \in Seq(Tasks), queue # <<>>, queue' = Tail(queue)
  PROVE  /\ queue' \in Seq(Tasks) /\ Head(queue) \in Tasks
         /\ Len(queue) \in Nat \ {0} /\ Len(queue') = Len(queue) - 1
         /\ Head(queue) = queue[1]
         /\ \A i \in 1..Len(queue') :
              i + 1 \in 2..Len(queue) /\ queue'[i] = queue[i + 1] /\ queue'[i] \in Tasks
         /\ \A kind : Queued(kind)' => Queued(kind)
         /\ \A kind : Queued(kind) => Queued(kind)' \/ Head(queue).kind = kind
         /\ Queued(Head(queue).kind)
<1>1. /\ queue' \in Seq(Tasks) /\ Head(queue) \in Tasks
      /\ Len(queue) \in Nat \ {0} /\ Len(queue') = Len(queue) - 1
      /\ Head(queue) = queue[1]
      /\ \A i \in 1..Len(queue') :
           i + 1 \in 2..Len(queue) /\ queue'[i] = queue[i + 1] /\ queue'[i] \in Tasks
  OBVIOUS
<1>2. ASSUME NEW kind, Queued(kind)' PROVE Queued(kind)
  <2>1. PICK i \in 1..Len(queue') : queue'[i].kind = kind
    BY <1>2 DEF Queued
  <2>2. i + 1 \in 1..Len(queue) /\ queue[i + 1].kind = kind
    BY <1>1, <2>1
  <2> QED BY <2>2 DEF Queued
<1>3. ASSUME NEW kind, Queued(kind) PROVE Queued(kind)' \/ Head(queue).kind = kind
  <2>1. PICK i \in 1..Len(queue) : queue[i].kind = kind
    BY <1>3 DEF Queued
  <2>2. CASE i = 1
    BY <1>1, <2>1, <2>2
  <2>3. CASE i # 1
    <3>1. i - 1 \in 1..Len(queue') /\ queue'[i - 1].kind = kind
      BY <1>1, <2>1, <2>3
    <3> QED BY <3>1 DEF Queued
  <2> QED BY <2>2, <2>3
<1>4. Queued(Head(queue).kind)
  BY <1>1 DEF Queued
<1> QED BY <1>1, <1>2, <1>3, <1>4

LEMMA QueueSame ==
  ASSUME UNCHANGED queue, NEW kind
  PROVE  Queued(kind)' = Queued(kind)
BY DEF Queued


(***************************************************************************)
(* Types.                                                                  *)
(***************************************************************************)
Handler == [at: TkSteps, detected: BOOLEAN, keep: BOOLEAN,
            then: {"stopHost", "revokeHost", "resume"},
            attempt: Attempts \cup {None}]
Window == [attempted: BOOLEAN, polling: BOOLEAN, probing: BOOLEAN,
           routePending: BOOLEAN, routeDone: BOOLEAN,
           routed: Sessions \cup {None}, bound: Targets \cup {None},
           telemetry: Telemetry]
Work == [at: WorkerSteps, task: Tasks \cup {None}, fate: Fates,
         session: Sessions \cup {None}, target: Targets \cup {None}]
Books == /\ reconnect \in Reconnects /\ cancelled \subseteq Attempts
         /\ active \in Attempts \cup {None} /\ timers \subseteq Attempts
Lists == queue \in Seq(Tasks) /\ replies \in Seq(Replies)
Outside == /\ core \in {"absent", "idle", "running"}
           /\ game \in Targets \cup {None}
           /\ permitted \in BOOLEAN /\ events \in 0..MaxEvents

LEMMA TypeParts ==
  TypeOK <=> /\ state \in AppStates /\ tk \in Handler /\ ui \in Window
             /\ worker \in Work /\ Books /\ Lists /\ Outside
BY DEF TypeOK, Handler, Window, Work, Books, Lists, Outside

LEMMA TypePartsNext ==
  ASSUME state' \in AppStates, tk' \in Handler, ui' \in Window,
         worker' \in Work, Books', Lists', Outside'
  PROVE  TypeOK'
BY DEF TypeOK, Handler, Window, Work, Books, Lists, Outside

\* What the operations on AppState make of the rights in it.
Same(s, t) == /\ t.signedIn = s.signedIn /\ t.session = s.session
              /\ t.entitled = s.entitled /\ t.game = s.game

Rights(s) == /\ s.session \in Sessions \cup {None}
             /\ s.signedIn \in BOOLEAN /\ s.entitled \in BOOLEAN
             /\ s.suppressed \in BOOLEAN /\ s.game \in BOOLEAN

LEMMA States ==
  ASSUME NEW s \in AppStates
  PROVE  /\ Rights(s)
         /\ Stopped(s) \in AppStates /\ Same(s, Stopped(s))
         /\ Stopped(s).suppressed = s.suppressed
<1>1. Rights(s)
  BY DEF AppStates, Rights
<1>2. /\ Stopped(s) \in AppStates /\ Same(s, Stopped(s))
      /\ Stopped(s).suppressed = s.suppressed
  BY DEF AppStates, Same, Stopped, Statuses
<1> QED BY <1>1, <1>2

LEMMA SignIns ==
  ASSUME NEW s \in AppStates
  PROVE  /\ \A c \in Sessions :
              /\ Claimed(s, c) \in AppStates /\ Claimed(s, c).session = c
              /\ Claimed(s, c).entitled /\ Claimed(s, c).signedIn = s.signedIn
              /\ Claimed(s, c).game = s.game
              /\ Claimed(s, c).suppressed = s.suppressed
         /\ Unentitled(s) \in AppStates /\ Unentitled(s).session = s.session
         /\ ~Unentitled(s).entitled /\ Unentitled(s).signedIn = s.signedIn
         /\ Unentitled(s).game = s.game
         /\ Unentitled(s).suppressed = s.suppressed
         /\ SignedIn(s) \in AppStates /\ SignedIn(s).session = s.session
         /\ SignedIn(s).entitled = s.entitled /\ SignedIn(s).signedIn
         /\ SignedIn(s).game = s.game /\ ~SignedIn(s).suppressed
<1>1. ASSUME NEW c \in Sessions
      PROVE  /\ Claimed(s, c) \in AppStates /\ Claimed(s, c).session = c
             /\ Claimed(s, c).entitled /\ Claimed(s, c).signedIn = s.signedIn
             /\ Claimed(s, c).game = s.game
             /\ Claimed(s, c).suppressed = s.suppressed
  BY DEF AppStates, Claimed
<1>2. /\ Unentitled(s) \in AppStates /\ Unentitled(s).session = s.session
      /\ ~Unentitled(s).entitled /\ Unentitled(s).signedIn = s.signedIn
      /\ Unentitled(s).game = s.game
      /\ Unentitled(s).suppressed = s.suppressed
  BY DEF AppStates, Unentitled
<1>3. /\ SignedIn(s) \in AppStates /\ SignedIn(s).session = s.session
      /\ SignedIn(s).entitled = s.entitled /\ SignedIn(s).signedIn
      /\ SignedIn(s).game = s.game /\ ~SignedIn(s).suppressed
  BY DEF AppStates, SignedIn
<1> QED BY <1>1, <1>2, <1>3

LEMMA SignOuts ==
  ASSUME NEW s \in AppStates
  PROVE  /\ Revoked(s) \in AppStates /\ Revoked(s).session = None
         /\ ~Revoked(s).entitled /\ Revoked(s).signedIn = s.signedIn
         /\ Revoked(s).game = s.game /\ Revoked(s).suppressed
         /\ \A st \in Statuses :
              /\ SignedOut(s, st) \in AppStates /\ SignedOut(s, st).session = None
              /\ ~SignedOut(s, st).entitled /\ ~SignedOut(s, st).signedIn
              /\ ~SignedOut(s, st).game /\ SignedOut(s, st).suppressed
<1>1. /\ Revoked(s) \in AppStates /\ Revoked(s).session = None
      /\ ~Revoked(s).entitled /\ Revoked(s).signedIn = s.signedIn
      /\ Revoked(s).game = s.game /\ Revoked(s).suppressed
  BY DEF AppStates, Revoked
<1>2. ASSUME NEW st \in Statuses
      PROVE  /\ SignedOut(s, st) \in AppStates /\ SignedOut(s, st).session = None
             /\ ~SignedOut(s, st).entitled /\ ~SignedOut(s, st).signedIn
             /\ ~SignedOut(s, st).game /\ SignedOut(s, st).suppressed
  BY DEF AppStates, SignedOut
<1> QED BY <1>1, <1>2

\* The steps of the two threads.
LEMMA WorkMoves ==
  ASSUME worker \in Work
  PROVE  /\ worker.at \in WorkerSteps /\ worker.task \in Tasks \cup {None}
         /\ worker.fate \in Fates
         /\ \A at \in WorkerSteps :
              WorkerTo(at) => /\ worker' \in Work /\ worker'.at = at
                              /\ worker'.task = worker.task
                              /\ worker'.fate = worker.fate
         /\ WorkerDone => /\ worker' \in Work /\ worker'.at = "idle"
                          /\ worker'.task = None
         /\ \A fate \in Fates :
              Fail(fate) => /\ worker' \in Work /\ worker'.at = "settle"
                            /\ worker'.task = worker.task
                            /\ worker'.fate = fate
         /\ \A fate \in Fates :
              Enter(fate) => /\ worker' \in Work /\ worker'.at = "publish"
                             /\ worker'.task = worker.task
                             /\ worker'.fate = fate
         /\ \A target \in Targets :
              Aim(target) => /\ worker' \in Work /\ worker'.at = "host"
                             /\ worker'.task = worker.task
<1>1. /\ worker.at \in WorkerSteps /\ worker.task \in Tasks \cup {None}
      /\ worker.fate \in Fates
  BY DEF Work
<1>2. ASSUME NEW at \in WorkerSteps, WorkerTo(at)
      PROVE  /\ worker' \in Work /\ worker'.at = at
             /\ worker'.task = worker.task /\ worker'.fate = worker.fate
  BY <1>2 DEF Work, WorkerTo
<1>3. ASSUME WorkerDone
      PROVE  worker' \in Work /\ worker'.at = "idle" /\ worker'.task = None
  BY <1>3 DEF Work, WorkerDone, WorkerIdle, WorkerSteps, Fates
<1>4. ASSUME NEW fate \in Fates, Fail(fate)
      PROVE  /\ worker' \in Work /\ worker'.at = "settle"
             /\ worker'.task = worker.task /\ worker'.fate = fate
  BY <1>4 DEF Work, Fail, WorkerSteps
<1>5. ASSUME NEW fate \in Fates, Enter(fate)
      PROVE  /\ worker' \in Work /\ worker'.at = "publish"
             /\ worker'.task = worker.task /\ worker'.fate = fate
  BY <1>5 DEF Work, Enter, WorkerSteps
<1>6. ASSUME NEW target \in Targets, Aim(target)
      PROVE  /\ worker' \in Work /\ worker'.at = "host"
             /\ worker'.task = worker.task
  BY <1>6 DEF Work, Aim, WorkerSteps, StartSteps
<1> QED BY <1>1, <1>2, <1>3, <1>4, <1>5, <1>6

LEMMA HandlerMoves ==
  ASSUME tk \in Handler
  PROVE  /\ tk.at \in TkSteps
         /\ tk.then \in {"stopHost", "revokeHost", "resume"}
         /\ \A at \in TkSteps :
              TkTo(at) => /\ tk' \in Handler /\ tk'.at = at
                          /\ tk'.detected = tk.detected /\ tk'.keep = tk.keep
                          /\ tk'.then = tk.then /\ tk'.attempt = tk.attempt
         /\ TkIdle \in Handler /\ TkIdle.at = "idle" /\ ~TkIdle.detected
         /\ TkIdle.then = "resume" /\ TkIdle.attempt = None
<1>1. tk.at \in TkSteps /\ tk.then \in {"stopHost", "revokeHost", "resume"}
  BY DEF Handler
<1>2. ASSUME NEW at \in TkSteps, TkTo(at)
      PROVE  /\ tk' \in Handler /\ tk'.at = at
             /\ tk'.detected = tk.detected /\ tk'.keep = tk.keep
             /\ tk'.then = tk.then /\ tk'.attempt = tk.attempt
  BY <1>2 DEF Handler, TkTo
<1>3. /\ TkIdle \in Handler /\ TkIdle.at = "idle" /\ ~TkIdle.detected
      /\ TkIdle.then = "resume" /\ TkIdle.attempt = None
  BY DEF Handler, TkIdle, TkSteps
<1> QED BY <1>1, <1>2, <1>3

(***************************************************************************)
(* The steps that neither make an attempt nor move one.                    *)
(***************************************************************************)
\* The controller forgets its attempts only when it cancels them.
Forgets == /\ reconnect'.scheduled = None /\ reconnect'.inFlight = None
           /\ reconnect.inFlight # None => reconnect.inFlight \in cancelled'
           /\ ~Submitting
Remembers == /\ reconnect'.scheduled = reconnect.scheduled
             /\ reconnect'.inFlight = reconnect.inFlight
Elsewhere ==
  /\ Forgets \/ Remembers
  /\ cancelled \subseteq cancelled' /\ timers' = timers
  /\ tk' = tk \/ (~Submitting /\ ~Submitting')
  /\ Closing' /\ ~Closing => Forgets
  /\ tk'.at \in {"exit", "closed"} => tk' = tk
  /\ \/ UNCHANGED queue
     \/ /\ \E t \in Tasks : t.kind # "reconnect" /\ Submit(t)
        /\ tk.at \notin {"exit", "closed"}
  /\ \/ worker'.task = worker.task
     \/ ~Doing("reconnect") /\ worker'.task = None

\* What is queued of the attempts stays where it is.
LEMMA QueuedSame ==
  ASSUME TypeOK, Elsewhere
  PROVE  /\ Len(queue) \in Nat
         /\ \A i \in 1..Len(queue) : i \in 1..Len(queue') /\ queue'[i] = queue[i]
         /\ \A i \in 1..Len(queue') : queue'[i].kind = "reconnect" => i \in 1..Len(queue)
<1>0. queue \in Seq(Tasks)
  BY DEF TypeOK
<1>1. CASE UNCHANGED queue
  BY <1>0, <1>1
<1>2. CASE \E t \in Tasks : t.kind # "reconnect" /\ Submit(t)
  <2>1. PICK t \in Tasks : t.kind # "reconnect" /\ Submit(t)
    BY <1>2
  <2>2. /\ Len(queue) \in Nat /\ Len(queue') = Len(queue) + 1
        /\ \A i \in 1..Len(queue) : queue'[i] = queue[i]
        /\ queue'[Len(queue) + 1] = t
    BY <1>0, <2>1, Added
  <2>3. ASSUME NEW i \in 1..Len(queue'), queue'[i].kind = "reconnect"
        PROVE  i \in 1..Len(queue)
    <3>1. i # Len(queue) + 1
      BY <2>1, <2>2, <2>3
    <3> QED BY <2>2, <2>3, <3>1
  <2>4. \A i \in 1..Len(queue) : i \in 1..Len(queue')
    BY <2>2
  <2> QED BY <2>2, <2>3, <2>4
<1> QED BY <1>1, <1>2 DEF Elsewhere

LEMMA AttemptsKept ==
  ASSUME TypeOK, AttemptInv, Elsewhere
  PROVE  AttemptInv'
<1>1. /\ \A i \in 1..Len(queue) : i \in 1..Len(queue') /\ queue'[i] = queue[i]
      /\ \A i \in 1..Len(queue') : queue'[i].kind = "reconnect" => i \in 1..Len(queue)
  BY QueuedSame
<1>2. Doing("reconnect")' => Doing("reconnect") /\ worker'.task = worker.task
  BY DEF Elsewhere, Doing
<1>3. Doing("reconnect") => worker'.task = worker.task
  BY DEF Elsewhere
<1>4. /\ Submitting' => Submitting /\ tk' = tk
      /\ Submitting => tk' = tk
  BY DEF Elsewhere, Submitting
<1>5. NoOrphan'
  <2>1. ASSUME reconnect'.scheduled # None PROVE reconnect'.scheduled \in timers'
    BY <2>1 DEF Elsewhere, Forgets, Remembers, AttemptInv, NoOrphan
  <2>2. ASSUME reconnect'.inFlight # None
        PROVE  \/ tk'.at = "markBegun" /\ tk'.attempt = reconnect'.inFlight
               \/ worker'.task = Task("reconnect", reconnect'.inFlight)
               \/ \E i \in 1..Len(queue') :
                    queue'[i] = Task("reconnect", reconnect'.inFlight)
    <3>1. reconnect'.inFlight = reconnect.inFlight
      BY <2>2 DEF Elsewhere, Forgets, Remembers
    <3>2. CASE tk.at = "markBegun" /\ tk.attempt = reconnect.inFlight
      BY <3>1, <3>2, <1>4 DEF Submitting
    <3>3. CASE worker.task = Task("reconnect", reconnect.inFlight)
      <4>1. reconnect.inFlight \in Attempts
        BY <2>2, <3>1 DEF TypeOK, Reconnects
      <4>2. Doing("reconnect")
        BY <3>3, <4>1, TaskAssumption DEF Doing, Task, Tasks, Kinds, Ids
      <4> QED BY <3>1, <3>3, <4>2, <1>3
    <3>4. CASE \E i \in 1..Len(queue) : queue[i] = Task("reconnect", reconnect.inFlight)
      BY <3>1, <3>4, <1>1
    <3> QED BY <2>2, <3>1, <3>2, <3>3, <3>4 DEF AttemptInv, NoOrphan
  <2> QED BY <2>1, <2>2 DEF NoOrphan
<1>6. Placed'
  <2>0. timers' = timers
    BY DEF Elsewhere
  <2>1. ASSUME NEW i \in 1..Len(queue'), queue'[i].kind = "reconnect"
        PROVE  /\ queue'[i].id \in Attempts \ timers'
               /\ Doing("reconnect")' => queue'[i].id # worker'.task.id
               /\ Submitting' => queue'[i].id # tk'.attempt
               /\ \A j \in 1..Len(queue') :
                    queue'[j].kind = "reconnect" /\ queue'[j].id = queue'[i].id => i = j
    <3>1. i \in 1..Len(queue) /\ queue'[i] = queue[i] /\ queue[i].kind = "reconnect"
      BY <2>1, <1>1
    <3>2. ASSUME NEW j \in 1..Len(queue'),
                 queue'[j].kind = "reconnect", queue'[j].id = queue'[i].id
          PROVE  i = j
      <4>1. j \in 1..Len(queue) /\ queue'[j] = queue[j]
        BY <3>2, <1>1
      <4> QED BY <4>1, <3>1, <3>2 DEF AttemptInv, Placed
    <3>3. queue[i].id \in Attempts \ timers
      BY <3>1 DEF AttemptInv, Placed
    <3>4. Doing("reconnect") => queue[i].id # worker.task.id
      BY <3>1 DEF AttemptInv, Placed
    <3>5. Submitting => queue[i].id # tk.attempt
      BY <3>1 DEF AttemptInv, Placed
    <3> QED BY <3>1, <3>2, <3>3, <3>4, <3>5, <2>0, <1>2, <1>4
  <2>2. Doing("reconnect")' => /\ worker'.task.id \in Attempts \ timers'
                               /\ Submitting' => worker'.task.id # tk'.attempt
    BY <2>0, <1>2, <1>4 DEF AttemptInv, Placed
  <2>3. Submitting' => tk'.attempt \in Attempts \ timers'
    BY <2>0, <1>4 DEF AttemptInv, Placed
  <2> QED BY <2>1, <2>2, <2>3 DEF Placed
<1>7. Flying'
  <2>1. ASSUME NEW i \in 1..Len(queue'), queue'[i].kind = "reconnect",
               queue'[i].id \notin cancelled'
        PROVE  queue'[i].id = reconnect'.inFlight
    <3>1. i \in 1..Len(queue) /\ queue'[i] = queue[i] /\ queue[i].kind = "reconnect"
      BY <2>1, <1>1
    <3>2. queue[i].id = reconnect.inFlight
      BY <3>1, <2>1 DEF AttemptInv, Flying, Elsewhere
    <3>3. queue[i].id # None
      BY <3>1, ReconnectAssumption DEF AttemptInv, Placed
    <3> QED BY <2>1, <3>1, <3>2, <3>3 DEF Elsewhere, Forgets, Remembers
  <2>2. ASSUME Doing("reconnect")', worker'.task.id \notin cancelled'
        PROVE  worker'.task.id = reconnect'.inFlight
    <3>1. Doing("reconnect") /\ worker'.task = worker.task
      BY <2>2, <1>2
    <3>2. worker.task.id = reconnect.inFlight
      BY <3>1, <2>2 DEF AttemptInv, Flying, Elsewhere
    <3>3. worker.task.id # None
      BY <3>1, ReconnectAssumption DEF AttemptInv, Placed
    <3> QED BY <2>2, <3>1, <3>2, <3>3 DEF Elsewhere, Forgets, Remembers
  <2>3. Submitting' => tk'.attempt = reconnect'.inFlight
    BY <1>4 DEF AttemptInv, Flying, Elsewhere, Forgets, Remembers
  <2>4. reconnect'.scheduled = None \/ reconnect'.inFlight = None
    BY DEF AttemptInv, Flying, Elsewhere, Forgets, Remembers
  <2> QED BY <2>1, <2>2, <2>3, <2>4 DEF Flying
<1>8. Emptied'
  <2>1. Closing' => ~Pending(reconnect')
    BY DEF AttemptInv, Emptied, Elsewhere, Forgets, Remembers, Pending
  <2>2. ASSUME tk'.at \in {"exit", "closed"} PROVE queue' = <<>>
    BY <2>2 DEF AttemptInv, Emptied, Elsewhere
  <2> QED BY <2>1, <2>2 DEF Emptied
<1> QED BY <1>5, <1>6, <1>7, <1>8 DEF AttemptInv

(***************************************************************************)
(* The worker thread.  The handler of the Tk thread, the queue and the     *)
(* reconnect controller stay as they are.                                  *)
(***************************************************************************)
WorkerStep ==
  /\ UNCHANGED <<reconnect, timers, tk, ui, queue, game>>
  /\ cancelled \subseteq cancelled' /\ cancelled' \subseteq Attempts
  /\ active' \in Attempts \cup {None}
  /\ state' \in AppStates /\ worker' \in Work /\ replies' \in Seq(Replies)
  /\ Outside'
  /\ \/ worker'.task = worker.task
     \/ ~Doing("reconnect") /\ worker'.task = None

LEMMA WorkerKeeps ==
  ASSUME SessionInv, WorkerStep, RightInv'
  PROVE  SessionInv'
<1>1. TypeOK'
  BY TypeParts, TypePartsNext DEF SessionInv, WorkerStep, Books, Lists
<1>2. Elsewhere
  BY DEF WorkerStep, Elsewhere, Remembers, Closing, Submitting
<1>3. AttemptInv'
  BY <1>2, AttemptsKept DEF SessionInv
<1> QED BY <1>1, <1>3 DEF SessionInv

\* What is known before a step.
Here ==
  /\ state \in AppStates /\ Rights(state)
  /\ worker \in Work /\ worker.at \in WorkerSteps
  /\ worker.task \in Tasks \cup {None} /\ worker.fate \in Fates
  /\ tk \in Handler /\ tk.at \in TkSteps
  /\ ui \in Window /\ Books /\ Lists /\ Outside
  /\ Places /\ SigningInv /\ RevokeInv /\ RunInv

LEMMA Before == ASSUME SessionInv PROVE Here
BY TypeParts, States, WorkMoves, HandlerMoves DEF Here, SessionInv, RightInv

LEMMA ClaimKeeps ==
  ASSUME SessionInv, Claim
  PROVE  SessionInv'
<1>0. Here
  BY Before
<1>1. /\ state' \in AppStates
      /\ state'.signedIn = state.signedIn /\ state'.game = state.game
      /\ state'.suppressed = state.suppressed
      /\ state'.session # None \/ (state'.session = state.session /\ ~state'.entitled)
  BY <1>0, SignIns, ReconnectAssumption DEF Here, Claim, Publish
<1>2. /\ worker' \in Work /\ worker.at = "claim" /\ worker'.at = "publish"
      /\ worker'.task = worker.task
  BY <1>0, WorkMoves DEF Here, Claim, WorkerSteps, StartSteps
<1>3. /\ replies' \in Seq(Replies) /\ Outside' /\ core' = core
      /\ active' \in Attempts \cup {None}
      /\ cancelled' = cancelled /\ cancelled \subseteq Attempts
  BY <1>0, ProxyAssumption
     DEF Here, Claim, Outside, Books, Lists, Calm, Disturb, shared, world
<1>4. WorkerStep
  BY <1>0, <1>1, <1>2, <1>3
     DEF Here, WorkerStep, Books, Places, Doing, Claim, shared, world
<1>5. UNCHANGED <<tk, queue>>
  BY <1>4 DEF WorkerStep
<1>6. Places'
  BY <1>0, <1>1, <1>2, <1>3, <1>5, TaskAssumption
     DEF Here, Places, Doing, StartSteps, Rights, Same, Outside
<1>7. SigningInv'
  BY <1>0, <1>1, <1>2, <1>3, <1>5, TaskAssumption
     DEF Here, SigningInv, Queued, Places, Doing, Rights, Same, Outside
<1>8. RevokeInv'
  BY <1>0, <1>1, <1>2, <1>3, <1>5, TaskAssumption
     DEF Here, RevokeInv, Revoking, Queued, StartSteps, Places, Doing, Rights,
         Same, Outside
<1>9. RunInv'
  BY <1>0, <1>1, <1>2, <1>3, <1>5, TaskAssumption
     DEF Here, RunInv, RevokeInv, Going, Wanted, Admitted, Closing,
         SignOutPending, Queued, StartSteps, Places, Doing, Rights, Same,
         Outside
<1> QED BY <1>4, <1>6, <1>7, <1>8, <1>9, WorkerKeeps DEF RightInv

LEMMA AuthSucceedKeeps ==
  ASSUME SessionInv, AuthSucceed
  PROVE  SessionInv'
<1>0. Here
  BY Before
<1>1. /\ state' \in AppStates
      /\ state'.signedIn /\ state'.game = state.game /\ ~state'.suppressed
      /\ state'.session = state.session /\ state'.entitled = state.entitled
  BY <1>0, SignIns DEF Here, AuthSucceed, Publish
<1>2. /\ worker' \in Work /\ worker.at = "publish" /\ worker'.at = "idle"
      /\ worker.task.kind = "signin" /\ worker'.task = None
  BY <1>0, WorkMoves DEF Here, AuthSucceed, WorkerSteps, StartSteps
<1>3. /\ replies' \in Seq(Replies) /\ Outside' /\ core' = core
      /\ active' \in Attempts \cup {None}
      /\ cancelled' = cancelled /\ cancelled \subseteq Attempts
  BY <1>0, ProxyAssumption
     DEF Here, AuthSucceed, Outside, Books, Lists, Calm, Disturb, shared,
         world, Reply, Replies, Kinds, Ids
<1>4. WorkerStep
  BY <1>0, <1>1, <1>2, <1>3
     DEF Here, WorkerStep, Books, Places, Doing, AuthSucceed, shared, world
<1>5. UNCHANGED <<tk, queue>>
  BY <1>4 DEF WorkerStep
<1>6. Places'
  BY <1>0, <1>1, <1>2, <1>3, <1>5, TaskAssumption
     DEF Here, Places, Doing, StartSteps, Rights, Same, Outside
<1>7. SigningInv'
  BY <1>0, <1>1, <1>2, <1>3, <1>5, TaskAssumption
     DEF Here, SigningInv, Queued, Places, Doing, Rights, Same, Outside
<1>8. RevokeInv'
  BY <1>0, <1>1, <1>2, <1>3, <1>5, TaskAssumption
     DEF Here, RevokeInv, Revoking, Queued, StartSteps, Places, Doing, Rights,
         Same, Outside
<1>9. RunInv'
  BY <1>0, <1>1, <1>2, <1>3, <1>5, TaskAssumption
     DEF Here, RunInv, RevokeInv, Going, Wanted, Admitted, Closing,
         SignOutPending, Queued, StartSteps, Places, Doing, Rights, Same,
         Outside
<1> QED BY <1>4, <1>6, <1>7, <1>8, <1>9, WorkerKeeps DEF RightInv

LEMMA BeatKeeps ==
  ASSUME SessionInv, Beat
  PROVE  SessionInv'
<1>0. Here
  BY Before
<1>1. state' = state
  BY <1>0 DEF Here, Beat, Publish, shared
<1>2. /\ worker' \in Work /\ worker.at = "beat"
      /\ \/ worker'.at = "idle" /\ worker'.task = None
         \/ worker'.at = "revokeHost" /\ worker'.task = worker.task
  BY <1>0, WorkMoves DEF Here, Beat, WorkerSteps, StartSteps
<1>3. /\ replies' \in Seq(Replies) /\ Outside' /\ core' = core
      /\ active' \in Attempts \cup {None}
      /\ cancelled' = cancelled /\ cancelled \subseteq Attempts
  BY <1>0, ProxyAssumption
     DEF Here, Beat, Outside, Books, Lists, Calm, Disturb, shared, world
<1>4. WorkerStep
  BY <1>0, <1>1, <1>2, <1>3
     DEF Here, WorkerStep, Books, Places, Doing, Beat, shared, world
<1>5. UNCHANGED <<tk, queue>>
  BY <1>4 DEF WorkerStep
<1>6. Places'
  BY <1>0, <1>1, <1>2, <1>3, <1>5, TaskAssumption
     DEF Here, Places, Doing, StartSteps, Rights, Same, Outside
<1>7. SigningInv'
  BY <1>0, <1>1, <1>2, <1>3, <1>5, TaskAssumption
     DEF Here, SigningInv, Queued, Places, Doing, Rights, Same, Outside
<1>8. RevokeInv'
  BY <1>0, <1>1, <1>2, <1>3, <1>5, TaskAssumption
     DEF Here, RevokeInv, Revoking, Queued, StartSteps, Places, Doing, Rights,
         Same, Outside
<1>9. RunInv'
  BY <1>0, <1>1, <1>2, <1>3, <1>5, TaskAssumption
     DEF Here, RunInv, RevokeInv, Going, Wanted, Admitted, Closing,
         SignOutPending, Queued, StartSteps, Places, Doing, Rights, Same,
         Outside
<1> QED BY <1>4, <1>6, <1>7, <1>8, <1>9, WorkerKeeps DEF RightInv

LEMMA RevokeHostKeeps ==
  ASSUME SessionInv, RevokeHost
  PROVE  SessionInv'
<1>0. Here
  BY Before
<1>1. /\ state' \in AppStates /\ Same(state, state')
      /\ state'.suppressed = state.suppressed
  BY <1>0
     DEF Here, RevokeHost, Publish, ShutdownHost, AppStates, Same, Statuses,
         Stopped
<1>2. /\ worker' \in Work /\ worker.at = "revokeHost" /\ worker'.at = "revokeSession"
      /\ worker'.task = worker.task
  BY <1>0, WorkMoves DEF Here, RevokeHost, WorkerSteps, StartSteps
<1>3. /\ replies' \in Seq(Replies) /\ Outside' /\ core' = "absent"
      /\ active' \in Attempts \cup {None}
      /\ cancelled \subseteq cancelled' /\ cancelled' \subseteq Attempts
  BY <1>0, ProxyAssumption
     DEF Here, RevokeHost, Outside, Books, Lists, Calm, Disturb, shared,
         world, ShutdownHost, CancelActive
<1>4. WorkerStep
  BY <1>0, <1>1, <1>2, <1>3
     DEF Here, WorkerStep, Books, Places, Doing, RevokeHost, shared, world
<1>5. UNCHANGED <<tk, queue>>
  BY <1>4 DEF WorkerStep
<1>6. Places'
  BY <1>0, <1>1, <1>2, <1>3, <1>5, TaskAssumption
     DEF Here, Places, Doing, StartSteps, Rights, Same, Outside
<1>7. SigningInv'
  BY <1>0, <1>1, <1>2, <1>3, <1>5, TaskAssumption
     DEF Here, SigningInv, Queued, Places, Doing, Rights, Same, Outside
<1>8. RevokeInv'
  BY <1>0, <1>1, <1>2, <1>3, <1>5, TaskAssumption
     DEF Here, RevokeInv, Revoking, Queued, StartSteps, Places, Doing, Rights,
         Same, Outside
<1>9. RunInv'
  BY <1>0, <1>1, <1>2, <1>3, <1>5, TaskAssumption
     DEF Here, RunInv, RevokeInv, Going, Wanted, Admitted, Closing,
         SignOutPending, Queued, StartSteps, Places, Doing, Rights, Same,
         Outside
<1> QED BY <1>4, <1>6, <1>7, <1>8, <1>9, WorkerKeeps DEF RightInv

LEMMA RevokeSessionKeeps ==
  ASSUME SessionInv, RevokeSession
  PROVE  SessionInv'
<1>0. Here
  BY Before
<1>1. /\ state' \in AppStates
      /\ state'.session = None /\ ~state'.entitled
      /\ state'.signedIn = state.signedIn /\ state'.game = state.game
  BY <1>0, SignOuts DEF Here, RevokeSession, Publish
<1>2. /\ worker' \in Work /\ worker.at = "revokeSession" /\ worker'.at = "leave"
      /\ worker'.task = worker.task
  BY <1>0, WorkMoves DEF Here, RevokeSession, WorkerSteps, StartSteps
<1>3. /\ replies' \in Seq(Replies) /\ Outside' /\ core' = core
      /\ active' \in Attempts \cup {None}
      /\ cancelled' = cancelled /\ cancelled \subseteq Attempts
  BY <1>0, ProxyAssumption
     DEF Here, RevokeSession, Outside, Books, Lists, Calm, Disturb, shared,
         world
<1>4. WorkerStep
  BY <1>0, <1>1, <1>2, <1>3
     DEF Here, WorkerStep, Books, Places, Doing, RevokeSession, shared, world
<1>5. UNCHANGED <<tk, queue>>
  BY <1>4 DEF WorkerStep
<1>6. Places'
  BY <1>0, <1>1, <1>2, <1>3, <1>5, TaskAssumption
     DEF Here, Places, Doing, StartSteps, Rights, Same, Outside
<1>7. SigningInv'
  BY <1>0, <1>1, <1>2, <1>3, <1>5, TaskAssumption
     DEF Here, SigningInv, Queued, Places, Doing, Rights, Same, Outside
<1>8. RevokeInv'
  BY <1>0, <1>1, <1>2, <1>3, <1>5, TaskAssumption
     DEF Here, RevokeInv, Revoking, Queued, StartSteps, Places, Doing, Rights,
         Same, Outside
<1>9. RunInv'
  BY <1>0, <1>1, <1>2, <1>3, <1>5, TaskAssumption
     DEF Here, RunInv, RevokeInv, Going, Wanted, Admitted, Closing,
         SignOutPending, Queued, StartSteps, Places, Doing, Rights, Same,
         Outside
<1> QED BY <1>4, <1>6, <1>7, <1>8, <1>9, WorkerKeeps DEF RightInv

LEMMA LeaveKeeps ==
  ASSUME SessionInv, Leave
  PROVE  SessionInv'
<1>0. Here
  BY Before
<1>1. /\ state' \in AppStates
      /\ state'.session = None /\ ~state'.entitled /\ ~state'.signedIn /\ ~state'.game
  BY <1>0, SignOuts DEF Here, Leave, Publish, Statuses
<1>2. /\ worker' \in Work /\ worker.at = "leave"
      /\ \/ Doing("reconnect") /\ worker'.at = "complete" /\ worker'.task = worker.task
         \/ ~Doing("reconnect") /\ worker'.at = "idle" /\ worker'.task = None
  BY <1>0, WorkMoves
     DEF Here, Leave, WorkerSteps, StartSteps, IsReconnect, Doing, Places
<1>3. /\ replies' \in Seq(Replies) /\ Outside' /\ core' = core
      /\ active' \in Attempts \cup {None}
      /\ cancelled' = cancelled /\ cancelled \subseteq Attempts
  BY <1>0, ProxyAssumption
     DEF Here, Leave, Outside, Books, Lists, Calm, Disturb, shared, world
<1>4. WorkerStep
  BY <1>0, <1>1, <1>2, <1>3
     DEF Here, WorkerStep, Books, Places, Doing, Leave, shared, world
<1>5. UNCHANGED <<tk, queue>>
  BY <1>4 DEF WorkerStep
<1>6. Places'
  BY <1>0, <1>1, <1>2, <1>3, <1>5, TaskAssumption
     DEF Here, Places, Doing, StartSteps, Rights, Same, Outside
<1>7. SigningInv'
  BY <1>0, <1>1, <1>2, <1>3, <1>5, TaskAssumption
     DEF Here, SigningInv, Queued, Places, Doing, Rights, Same, Outside
<1>8. RevokeInv'
  BY <1>0, <1>1, <1>2, <1>3, <1>5, TaskAssumption
     DEF Here, RevokeInv, Revoking, Queued, StartSteps, Places, Doing, Rights,
         Same, Outside
<1>9. RunInv'
  BY <1>0, <1>1, <1>2, <1>3, <1>5, TaskAssumption
     DEF Here, RunInv, RevokeInv, Going, Wanted, Admitted, Closing,
         SignOutPending, Queued, StartSteps, Places, Doing, Rights, Same,
         Outside
<1> QED BY <1>4, <1>6, <1>7, <1>8, <1>9, WorkerKeeps DEF RightInv

LEMMA SignOutHostKeeps ==
  ASSUME SessionInv, SignOutHost
  PROVE  SessionInv'
<1>0. Here
  BY Before
<1>1. /\ state' \in AppStates
      /\ state'.session = None /\ ~state'.entitled /\ ~state'.signedIn /\ ~state'.game
  BY <1>0, SignOuts DEF Here, SignOutHost, Publish, Statuses
<1>2. /\ worker' \in Work /\ worker.at = "signOutHost"
      /\ worker'.at = "idle" /\ worker'.task = None
  BY <1>0, WorkMoves DEF Here, SignOutHost, WorkerSteps, StartSteps
<1>3. /\ replies' \in Seq(Replies) /\ Outside' /\ core' = "absent"
      /\ active' \in Attempts \cup {None}
      /\ cancelled \subseteq cancelled' /\ cancelled' \subseteq Attempts
  BY <1>0, ProxyAssumption
     DEF Here, SignOutHost, Outside, Books, Lists, Calm, Disturb, shared,
         world, CancelActive
<1>4. WorkerStep
  BY <1>0, <1>1, <1>2, <1>3
     DEF Here, WorkerStep, Books, Places, Doing, SignOutHost, shared, world
<1>5. UNCHANGED <<tk, queue>>
  BY <1>4 DEF WorkerStep
<1>6. Places'
  BY <1>0, <1>1, <1>2, <1>3, <1>5, TaskAssumption
     DEF Here, Places, Doing, StartSteps, Rights, Same, Outside
<1>7. SigningInv'
  BY <1>0, <1>1, <1>2, <1>3, <1>5, TaskAssumption
     DEF Here, SigningInv, Queued, Places, Doing, Rights, Same, Outside
<1>8. RevokeInv'
  BY <1>0, <1>1, <1>2, <1>3, <1>5, TaskAssumption
     DEF Here, RevokeInv, Revoking, Queued, StartSteps, Places, Doing, Rights,
         Same, Outside
<1>9. RunInv'
  BY <1>0, <1>1, <1>2, <1>3, <1>5, TaskAssumption
     DEF Here, RunInv, RevokeInv, Going, Wanted, Admitted, Closing,
         SignOutPending, Queued, StartSteps, Places, Doing, Rights, Same,
         Outside
<1> QED BY <1>4, <1>6, <1>7, <1>8, <1>9, WorkerKeeps DEF RightInv

LEMMA AdmitKeeps ==
  ASSUME SessionInv, Admit
  PROVE  SessionInv'
<1>0. Here
  BY Before
<1>1. /\ state' \in AppStates /\ Same(state, state')
      /\ state'.suppressed = state.suppressed \/ ~state'.suppressed
  BY <1>0 DEF Here, Admit, Publish, AppStates, Same
<1>2. /\ worker' \in Work /\ worker.at = "admit"
      /\ \/ /\ Doing("reconnect") /\ worker'.at = "complete"
            /\ worker'.task = worker.task
         \/ ~Doing("reconnect") /\ worker'.at = "idle" /\ worker'.task = None
         \/ /\ worker'.at = "publish" /\ worker'.task = worker.task
            /\ \/ worker'.fate = "failed" /\ ~Doing("reconnect")
               \/ /\ worker'.fate = "ok" /\ state.game
                  /\ ~state.suppressed \/ ~state'.suppressed
  BY <1>0, WorkMoves
     DEF Here, Admit, WorkerSteps, StartSteps, IsReconnect, Doing, Places,
         Fates, Eligible, Ready, Publish, AppStates
<1>3. /\ replies' \in Seq(Replies) /\ Outside' /\ core' = core
      /\ active' \in Attempts \cup {None}
      /\ cancelled' = cancelled /\ cancelled \subseteq Attempts
  BY <1>0, ProxyAssumption
     DEF Here, Admit, Outside, Books, Lists, Calm, Disturb, shared, world
<1>4. WorkerStep
  BY <1>0, <1>1, <1>2, <1>3
     DEF Here, WorkerStep, Books, Places, Doing, Admit, shared, world
<1>5. UNCHANGED <<tk, queue>>
  BY <1>4 DEF WorkerStep
<1>6. Places'
  BY <1>0, <1>1, <1>2, <1>3, <1>5, TaskAssumption
     DEF Here, Places, Doing, StartSteps, Rights, Same, Outside
<1>7. SigningInv'
  BY <1>0, <1>1, <1>2, <1>3, <1>5, TaskAssumption
     DEF Here, SigningInv, Queued, Places, Doing, Rights, Same, Outside
<1>8. RevokeInv'
  BY <1>0, <1>1, <1>2, <1>3, <1>5, TaskAssumption
     DEF Here, RevokeInv, Revoking, Queued, StartSteps, Places, Doing, Rights,
         Same, Outside
<1>9. RunInv'
  BY <1>0, <1>1, <1>2, <1>3, <1>5, TaskAssumption
     DEF Here, RunInv, RevokeInv, Going, Wanted, Admitted, Closing,
         SignOutPending, Queued, StartSteps, Places, Doing, Rights, Same,
         Outside
<1> QED BY <1>4, <1>6, <1>7, <1>8, <1>9, WorkerKeeps DEF RightInv

LEMMA PublishStartingKeeps ==
  ASSUME SessionInv, PublishStarting
  PROVE  SessionInv'
<1>0. Here
  BY Before
<1>1. /\ state' \in AppStates /\ Same(state, state')
      /\ state'.suppressed = state.suppressed
  BY <1>0 DEF Here, PublishStarting, Publish, AppStates, Same, Statuses
<1>2. /\ worker' \in Work /\ worker.at = "publish"
      /\ ~Doing("signin")
      /\ \/ worker'.at = "idle" /\ worker'.task = None /\ ~Doing("reconnect")
         \/ /\ worker.fate = "ok" /\ worker'.task = worker.task
            /\ worker'.fate = "ok"
            /\ \/ Doing("reconnect") /\ worker'.at = "register"
               \/ Doing("start") /\ worker'.at = "lock"
  <2>1. worker.at = "publish" /\ ~Doing("signin") /\ worker.task # None
    BY <1>0 DEF Here, PublishStarting, Doing, Places
  <2>2. CASE worker.fate = "failed"
    <3>1. WorkerDone
      BY <2>2 DEF PublishStarting
    <3>2. worker' \in Work /\ worker'.at = "idle" /\ worker'.task = None
      BY <1>0, <3>1, WorkMoves DEF Here
    <3>3. ~Doing("reconnect")
      BY <1>0, <2>1, <2>2 DEF Here, Doing, Places
    <3> QED BY <2>1, <3>2, <3>3
  <2>3. CASE worker.fate # "failed"
    <3>1. worker.fate = "ok" /\ (Doing("reconnect") \/ Doing("start"))
      BY <1>0, <2>1, <2>3 DEF Here, Doing, Places
    <3>2. CASE IsReconnect
      <4>1. WorkerTo("register") /\ Doing("reconnect")
        BY <2>1, <2>3, <3>2 DEF PublishStarting, IsReconnect, Doing
      <4> QED BY <1>0, <2>1, <3>1, <4>1, WorkMoves DEF Here, WorkerSteps
    <3>3. CASE ~IsReconnect
      <4>1. WorkerTo("lock") /\ Doing("start")
        BY <2>1, <2>3, <3>1, <3>3 DEF PublishStarting, IsReconnect, Doing
      <4> QED BY <1>0, <2>1, <3>1, <4>1, WorkMoves DEF Here, WorkerSteps
    <3> QED BY <3>2, <3>3
  <2> QED BY <2>2, <2>3
<1>3. /\ replies' \in Seq(Replies) /\ Outside' /\ core' = core
      /\ active' \in Attempts \cup {None}
      /\ cancelled' = cancelled /\ cancelled \subseteq Attempts
  BY <1>0, ProxyAssumption
     DEF Here, PublishStarting, Outside, Books, Lists, Calm, Disturb, shared,
         world
<1>4. WorkerStep
  BY <1>0, <1>1, <1>2, <1>3
     DEF Here, WorkerStep, Books, Places, Doing, PublishStarting, shared,
         world
<1>5. UNCHANGED <<tk, queue>>
  BY <1>4 DEF WorkerStep
<1>6. Places'
  BY <1>0, <1>1, <1>2, <1>3, <1>5, TaskAssumption
     DEF Here, Places, Doing, StartSteps, Rights, Same, Outside
<1>7. SigningInv'
  BY <1>0, <1>1, <1>2, <1>3, <1>5, TaskAssumption
     DEF Here, SigningInv, Queued, Places, Doing, Rights, Same, Outside
<1>8. RevokeInv'
  BY <1>0, <1>1, <1>2, <1>3, <1>5, TaskAssumption
     DEF Here, RevokeInv, Revoking, Queued, StartSteps, Places, Doing, Rights,
         Same, Outside
<1>9. RunInv'
  BY <1>0, <1>1, <1>2, <1>3, <1>5, TaskAssumption
     DEF Here, RunInv, RevokeInv, Going, Wanted, Admitted, Closing,
         SignOutPending, Queued, StartSteps, Places, Doing, Rights, Same,
         Outside
<1> QED BY <1>4, <1>6, <1>7, <1>8, <1>9, WorkerKeeps DEF RightInv

LEMMA RegisterKeeps ==
  ASSUME SessionInv, Register
  PROVE  SessionInv'
<1>0. Here
  BY Before
<1>1. state' = state
  BY <1>0 DEF Here, Register, Publish
<1>2. /\ worker' \in Work /\ worker.at = "register" /\ worker'.at = "lock"
      /\ worker'.task = worker.task
  BY <1>0, WorkMoves DEF Here, Register, WorkerSteps, StartSteps
<1>3. /\ replies' \in Seq(Replies) /\ Outside' /\ core' = core
      /\ active' \in Attempts \cup {None}
      /\ cancelled' = cancelled /\ cancelled \subseteq Attempts
  BY <1>0, ProxyAssumption
     DEF Here, Register, Outside, Books, Lists, Calm, Disturb, shared, world,
         Attempt, Places, Doing, AttemptInv, Placed, SessionInv
<1>4. WorkerStep
  BY <1>0, <1>1, <1>2, <1>3
     DEF Here, WorkerStep, Books, Places, Doing, Register, shared, world
<1>5. UNCHANGED <<tk, queue>>
  BY <1>4 DEF WorkerStep
<1>6. Places'
  BY <1>0, <1>1, <1>2, <1>3, <1>5, TaskAssumption
     DEF Here, Places, Doing, StartSteps, Rights, Same, Outside
<1>7. SigningInv'
  BY <1>0, <1>1, <1>2, <1>3, <1>5, TaskAssumption
     DEF Here, SigningInv, Queued, Places, Doing, Rights, Same, Outside
<1>8. RevokeInv'
  BY <1>0, <1>1, <1>2, <1>3, <1>5, TaskAssumption
     DEF Here, RevokeInv, Revoking, Queued, StartSteps, Places, Doing, Rights,
         Same, Outside
<1>9. RunInv'
  BY <1>0, <1>1, <1>2, <1>3, <1>5, TaskAssumption
     DEF Here, RunInv, RevokeInv, Going, Wanted, Admitted, Closing,
         SignOutPending, Queued, StartSteps, Places, Doing, Rights, Same,
         Outside
<1> QED BY <1>4, <1>6, <1>7, <1>8, <1>9, WorkerKeeps DEF RightInv

LEMMA LockKeeps ==
  ASSUME SessionInv, Lock
  PROVE  SessionInv'
<1>0. Here
  BY Before
<1>1. state' = state
  BY <1>0 DEF Here, Lock, Publish, shared
<1>2. /\ worker' \in Work /\ worker.at = "lock" /\ worker'.task = worker.task
      /\ \/ worker'.at = "target" /\ state.session # None /\ state.entitled
         \/ worker'.at = "settle"
  BY <1>0, WorkMoves DEF Here, Lock, WorkerSteps, StartSteps, Fates, Ready
<1>3. /\ replies' \in Seq(Replies) /\ Outside'
      /\ core' = "running" => core = "running"
      /\ active' \in Attempts \cup {None}
      /\ cancelled' = cancelled /\ cancelled \subseteq Attempts
  <2>1. core' \in {"absent", "idle", core} /\ game' = game
    BY DEF Lock, StopRuntime, StopAnswers
  <2>2. permitted' \in BOOLEAN
    BY <1>0 DEF Here, Lock, Outside
  <2>3. events' \in 0..MaxEvents
    BY <1>0, ProxyAssumption
       DEF Here, Lock, Outside, Calm, Disturb, StopRuntime, StopAnswers
  <2>4. UNCHANGED <<replies, active, cancelled>>
    BY DEF Lock, shared
  <2> QED BY <1>0, <2>1, <2>2, <2>3, <2>4 DEF Here, Outside, Books, Lists
<1>4. WorkerStep
  BY <1>0, <1>1, <1>2, <1>3
     DEF Here, WorkerStep, Books, Places, Doing, Lock, shared, world
<1>5. UNCHANGED <<tk, queue>>
  BY <1>4 DEF WorkerStep
<1>6. Places'
  BY <1>0, <1>1, <1>2, <1>3, <1>5, TaskAssumption
     DEF Here, Places, Doing, StartSteps, Rights, Same, Outside
<1>7. SigningInv'
  BY <1>0, <1>1, <1>2, <1>3, <1>5, TaskAssumption
     DEF Here, SigningInv, Queued, Places, Doing, Rights, Same, Outside
<1>8. RevokeInv'
  BY <1>0, <1>1, <1>2, <1>3, <1>5, TaskAssumption
     DEF Here, RevokeInv, Revoking, Queued, StartSteps, Places, Doing, Rights,
         Same, Outside
<1>9. RunInv'
  BY <1>0, <1>1, <1>2, <1>3, <1>5, TaskAssumption
     DEF Here, RunInv, RevokeInv, Going, Wanted, Admitted, Closing,
         SignOutPending, Queued, StartSteps, Places, Doing, Rights, Same,
         Outside
<1> QED BY <1>4, <1>6, <1>7, <1>8, <1>9, WorkerKeeps DEF RightInv

LEMMA TargetKeeps ==
  ASSUME SessionInv, Target
  PROVE  SessionInv'
<1>0. Here
  BY Before
<1>1. state' = state
  BY <1>0 DEF Here, Target, Publish, shared
<1>2. /\ worker' \in Work /\ worker.at = "target" /\ worker'.task = worker.task
      /\ worker'.at \in {"host", "settle"}
  BY <1>0, WorkMoves
     DEF Here, Target, WorkerSteps, StartSteps, FailHosted, FatesOf, Fates,
         Awaited, Outside
<1>3. /\ replies' \in Seq(Replies) /\ Outside'
      /\ core' = "running" => core = "running"
      /\ active' \in Attempts \cup {None}
      /\ cancelled' = cancelled /\ cancelled \subseteq Attempts
  BY <1>0, ProxyAssumption
     DEF Here, Target, Outside, Books, Lists, Calm, Disturb, shared, world,
         FailHosted, Awaited, FatesOf
<1>4. WorkerStep
  BY <1>0, <1>1, <1>2, <1>3
     DEF Here, WorkerStep, Books, Places, Doing, Target, shared, world
<1>5. UNCHANGED <<tk, queue>>
  BY <1>4 DEF WorkerStep
<1>6. Places'
  BY <1>0, <1>1, <1>2, <1>3, <1>5, TaskAssumption
     DEF Here, Places, Doing, StartSteps, Rights, Same, Outside
<1>7. SigningInv'
  BY <1>0, <1>1, <1>2, <1>3, <1>5, TaskAssumption
     DEF Here, SigningInv, Queued, Places, Doing, Rights, Same, Outside
<1>8. RevokeInv'
  BY <1>0, <1>1, <1>2, <1>3, <1>5, TaskAssumption
     DEF Here, RevokeInv, Revoking, Queued, StartSteps, Places, Doing, Rights,
         Same, Outside
<1>9. RunInv'
  BY <1>0, <1>1, <1>2, <1>3, <1>5, TaskAssumption
     DEF Here, RunInv, RevokeInv, Going, Wanted, Admitted, Closing,
         SignOutPending, Queued, StartSteps, Places, Doing, Rights, Same,
         Outside
<1> QED BY <1>4, <1>6, <1>7, <1>8, <1>9, WorkerKeeps DEF RightInv

LEMMA HostKeeps ==
  ASSUME SessionInv, Host
  PROVE  SessionInv'
<1>0. Here
  BY Before
<1>1. state' = state
  BY <1>0 DEF Here, Host, Publish, shared
<1>2. /\ worker' \in Work /\ worker.at = "host" /\ worker'.task = worker.task
      /\ worker'.at \in {"permit", "settle"}
  BY <1>0, WorkMoves
     DEF Here, Host, WorkerSteps, StartSteps, FailHosted, FatesOf, Fates
<1>3. /\ replies' \in Seq(Replies) /\ Outside'
      /\ core' = "running" => core = "running"
      /\ active' \in Attempts \cup {None}
      /\ cancelled' = cancelled /\ cancelled \subseteq Attempts
  BY <1>0, ProxyAssumption
     DEF Here, Host, Outside, Books, Lists, Calm, Disturb, shared, world,
         FailHosted, FatesOf
<1>4. WorkerStep
  BY <1>0, <1>1, <1>2, <1>3
     DEF Here, WorkerStep, Books, Places, Doing, Host, shared, world
<1>5. UNCHANGED <<tk, queue>>
  BY <1>4 DEF WorkerStep
<1>6. Places'
  BY <1>0, <1>1, <1>2, <1>3, <1>5, TaskAssumption
     DEF Here, Places, Doing, StartSteps, Rights, Same, Outside
<1>7. SigningInv'
  BY <1>0, <1>1, <1>2, <1>3, <1>5, TaskAssumption
     DEF Here, SigningInv, Queued, Places, Doing, Rights, Same, Outside
<1>8. RevokeInv'
  BY <1>0, <1>1, <1>2, <1>3, <1>5, TaskAssumption
     DEF Here, RevokeInv, Revoking, Queued, StartSteps, Places, Doing, Rights,
         Same, Outside
<1>9. RunInv'
  BY <1>0, <1>1, <1>2, <1>3, <1>5, TaskAssumption
     DEF Here, RunInv, RevokeInv, Going, Wanted, Admitted, Closing,
         SignOutPending, Queued, StartSteps, Places, Doing, Rights, Same,
         Outside
<1> QED BY <1>4, <1>6, <1>7, <1>8, <1>9, WorkerKeeps DEF RightInv

LEMMA PermitKeeps ==
  ASSUME SessionInv, Permit
  PROVE  SessionInv'
<1>0. Here
  BY Before
<1>1. state' = state
  BY <1>0 DEF Here, Permit, Publish, shared
<1>2. /\ worker' \in Work /\ worker.at = "permit" /\ worker'.task = worker.task
      /\ worker'.at \in {"authorize", "settle"}
  BY <1>0, WorkMoves
     DEF Here, Permit, WorkerSteps, StartSteps, FailHosted, FatesOf, Fates
<1>3. /\ replies' \in Seq(Replies) /\ Outside'
      /\ core' = "running" => core = "running"
      /\ active' \in Attempts \cup {None}
      /\ cancelled' = cancelled /\ cancelled \subseteq Attempts
  <2>1. core' \in {"absent", "idle", core} /\ game' = game
    BY DEF Permit, FailHosted, FatesOf
  <2>2. permitted' \in BOOLEAN
    BY <1>0 DEF Here, Permit, Outside
  <2>3. events' \in 0..MaxEvents
    BY <1>0, ProxyAssumption
       DEF Here, Permit, Outside, Calm, Disturb, FailHosted, FatesOf
  <2>4. UNCHANGED <<replies, active, cancelled>>
    BY DEF Permit, shared
  <2> QED BY <1>0, <2>1, <2>2, <2>3, <2>4 DEF Here, Outside, Books, Lists
<1>4. WorkerStep
  BY <1>0, <1>1, <1>2, <1>3
     DEF Here, WorkerStep, Books, Places, Doing, Permit, shared, world
<1>5. UNCHANGED <<tk, queue>>
  BY <1>4 DEF WorkerStep
<1>6. Places'
  BY <1>0, <1>1, <1>2, <1>3, <1>5, TaskAssumption
     DEF Here, Places, Doing, StartSteps, Rights, Same, Outside
<1>7. SigningInv'
  BY <1>0, <1>1, <1>2, <1>3, <1>5, TaskAssumption
     DEF Here, SigningInv, Queued, Places, Doing, Rights, Same, Outside
<1>8. RevokeInv'
  BY <1>0, <1>1, <1>2, <1>3, <1>5, TaskAssumption
     DEF Here, RevokeInv, Revoking, Queued, StartSteps, Places, Doing, Rights,
         Same, Outside
<1>9. RunInv'
  BY <1>0, <1>1, <1>2, <1>3, <1>5, TaskAssumption
     DEF Here, RunInv, RevokeInv, Going, Wanted, Admitted, Closing,
         SignOutPending, Queued, StartSteps, Places, Doing, Rights, Same,
         Outside
<1> QED BY <1>4, <1>6, <1>7, <1>8, <1>9, WorkerKeeps DEF RightInv

LEMMA AuthorizeKeeps ==
  ASSUME SessionInv, Authorize
  PROVE  SessionInv'
<1>0. Here
  BY Before
<1>1. state' = state
  BY <1>0 DEF Here, Authorize, Publish, shared
<1>2. /\ worker' \in Work /\ worker.at = "authorize" /\ worker'.task = worker.task
      /\ worker'.at = "settle"
  BY <1>0, WorkMoves
     DEF Here, Authorize, WorkerSteps, StartSteps, FailHosted, FatesOf, Fates,
         Work
<1>3. /\ replies' \in Seq(Replies) /\ Outside'
      /\ core' \in {"running", "absent"}
      /\ active' \in Attempts \cup {None}
      /\ cancelled' = cancelled /\ cancelled \subseteq Attempts
  BY <1>0, ProxyAssumption
     DEF Here, Authorize, Outside, Books, Lists, Calm, Disturb, shared, world,
         FailHosted
<1>4. WorkerStep
  BY <1>0, <1>1, <1>2, <1>3
     DEF Here, WorkerStep, Books, Places, Doing, Authorize, shared, world
<1>5. UNCHANGED <<tk, queue>>
  BY <1>4 DEF WorkerStep
<1>6. Places'
  BY <1>0, <1>1, <1>2, <1>3, <1>5, TaskAssumption
     DEF Here, Places, Doing, StartSteps, Rights, Same, Outside
<1>7. SigningInv'
  BY <1>0, <1>1, <1>2, <1>3, <1>5, TaskAssumption
     DEF Here, SigningInv, Queued, Places, Doing, Rights, Same, Outside
<1>8. RevokeInv'
  BY <1>0, <1>1, <1>2, <1>3, <1>5, TaskAssumption
     DEF Here, RevokeInv, Revoking, Queued, StartSteps, Places, Doing, Rights,
         Same, Outside
<1>9. RunInv'
  BY <1>0, <1>1, <1>2, <1>3, <1>5, TaskAssumption
     DEF Here, RunInv, RevokeInv, Going, Wanted, Admitted, Closing,
         SignOutPending, Queued, StartSteps, Places, Doing, Rights, Same,
         Outside
<1> QED BY <1>4, <1>6, <1>7, <1>8, <1>9, WorkerKeeps DEF RightInv

LEMMA SettleKeeps ==
  ASSUME SessionInv, Settle
  PROVE  SessionInv'
<1>0. Here
  BY Before
<1>1. state' = state
  BY <1>0 DEF Here, Settle, Publish, shared
<1>2. /\ worker' \in Work /\ worker.at = "settle" /\ worker'.task = worker.task
      /\ worker'.at \in {"undo", "report", "clear"}
  BY <1>0, WorkMoves DEF Here, Settle, WorkerSteps, StartSteps
<1>3. /\ replies' \in Seq(Replies) /\ Outside' /\ core' = core
      /\ active' \in Attempts \cup {None}
      /\ cancelled' = cancelled /\ cancelled \subseteq Attempts
  BY <1>0, ProxyAssumption
     DEF Here, Settle, Outside, Books, Lists, Calm, Disturb, shared, world
<1>4. WorkerStep
  BY <1>0, <1>1, <1>2, <1>3
     DEF Here, WorkerStep, Books, Places, Doing, Settle, shared, world
<1>5. UNCHANGED <<tk, queue>>
  BY <1>4 DEF WorkerStep
<1>6. Places'
  BY <1>0, <1>1, <1>2, <1>3, <1>5, TaskAssumption
     DEF Here, Places, Doing, StartSteps, Rights, Same, Outside
<1>7. SigningInv'
  BY <1>0, <1>1, <1>2, <1>3, <1>5, TaskAssumption
     DEF Here, SigningInv, Queued, Places, Doing, Rights, Same, Outside
<1>8. RevokeInv'
  BY <1>0, <1>1, <1>2, <1>3, <1>5, TaskAssumption
     DEF Here, RevokeInv, Revoking, Queued, StartSteps, Places, Doing, Rights,
         Same, Outside
<1>9. RunInv'
  BY <1>0, <1>1, <1>2, <1>3, <1>5, TaskAssumption
     DEF Here, RunInv, RevokeInv, Going, Wanted, Admitted, Closing,
         SignOutPending, Queued, StartSteps, Places, Doing, Rights, Same,
         Outside
<1> QED BY <1>4, <1>6, <1>7, <1>8, <1>9, WorkerKeeps DEF RightInv

LEMMA ReportKeeps ==
  ASSUME SessionInv, Report
  PROVE  SessionInv'
<1>0. Here
  BY Before
<1>1. /\ state' \in AppStates /\ Same(state, state')
      /\ state'.suppressed = state.suppressed
  <2>1. CASE worker.fate = "ok"
    <3>1. Stopped(state) \in AppStates /\ Same(state, Stopped(state))
          /\ Stopped(state).suppressed = state.suppressed
      BY <1>0, States DEF Here
    <3>2. state' = [Stopped(state) EXCEPT !.status = "running"]
      BY <2>1 DEF Report, Publish
    <3> QED BY <3>1, <3>2 DEF AppStates, Same, Statuses
  <2>2. CASE worker.fate # "ok"
    <3>1. state' = [state EXCEPT !.status = "failed",
                     !.retrySafe = worker.fate = "safe",
                     !.denied = worker.fate \in {"denied", "expelled"}]
      BY <2>2 DEF Report, Publish
    <3>2. /\ (worker.fate = "safe") \in BOOLEAN
          /\ (worker.fate \in {"denied", "expelled"}) \in BOOLEAN
      OBVIOUS
    <3> QED BY <1>0, <3>1, <3>2 DEF Here, AppStates, Same, Statuses
  <2> QED BY <2>1, <2>2
<1>2. /\ worker' \in Work /\ worker.at = "report" /\ worker'.task = worker.task
      /\ worker'.at = "clear"
  BY <1>0, WorkMoves DEF Here, Report, WorkerSteps, StartSteps
<1>3. /\ replies' \in Seq(Replies) /\ Outside' /\ core' = core
      /\ active' \in Attempts \cup {None}
      /\ cancelled' = cancelled /\ cancelled \subseteq Attempts
  BY <1>0, ProxyAssumption
     DEF Here, Report, Outside, Books, Lists, Calm, Disturb, shared, world
<1>4. WorkerStep
  BY <1>0, <1>1, <1>2, <1>3
     DEF Here, WorkerStep, Books, Places, Doing, Report, shared, world
<1>5. UNCHANGED <<tk, queue>>
  BY <1>4 DEF WorkerStep
<1>6. Places'
  BY <1>0, <1>1, <1>2, <1>3, <1>5, TaskAssumption
     DEF Here, Places, Doing, StartSteps, Rights, Same, Outside
<1>7. SigningInv'
  BY <1>0, <1>1, <1>2, <1>3, <1>5, TaskAssumption
     DEF Here, SigningInv, Queued, Places, Doing, Rights, Same, Outside
<1>8. RevokeInv'
  BY <1>0, <1>1, <1>2, <1>3, <1>5, TaskAssumption
     DEF Here, RevokeInv, Revoking, Queued, StartSteps, Places, Doing, Rights,
         Same, Outside
<1>9. RunInv'
  BY <1>0, <1>1, <1>2, <1>3, <1>5, TaskAssumption
     DEF Here, RunInv, RevokeInv, Going, Wanted, Admitted, Closing,
         SignOutPending, Queued, StartSteps, Places, Doing, Rights, Same,
         Outside
<1> QED BY <1>4, <1>6, <1>7, <1>8, <1>9, WorkerKeeps DEF RightInv

LEMMA UndoKeeps ==
  ASSUME SessionInv, Undo
  PROVE  SessionInv'
<1>0. Here
  BY Before
<1>1. /\ state' \in AppStates /\ Same(state, state')
      /\ state'.suppressed = state.suppressed
  BY <1>0, States DEF Here, Undo, Publish
<1>2. /\ worker' \in Work /\ worker.at = "undo" /\ worker'.task = worker.task
      /\ worker'.at = "clear"
  BY <1>0, WorkMoves DEF Here, Undo, WorkerSteps, StartSteps
<1>3. /\ replies' \in Seq(Replies) /\ Outside'
      /\ core' = "running" => core = "running"
      /\ active' \in Attempts \cup {None}
      /\ cancelled' = cancelled /\ cancelled \subseteq Attempts
  BY <1>0, ProxyAssumption
     DEF Here, Undo, Outside, Books, Lists, Calm, Disturb, shared, world,
         StopRuntime, StopAnswers
<1>4. WorkerStep
  BY <1>0, <1>1, <1>2, <1>3
     DEF Here, WorkerStep, Books, Places, Doing, Undo, shared, world
<1>5. UNCHANGED <<tk, queue>>
  BY <1>4 DEF WorkerStep
<1>6. Places'
  BY <1>0, <1>1, <1>2, <1>3, <1>5, TaskAssumption
     DEF Here, Places, Doing, StartSteps, Rights, Same, Outside
<1>7. SigningInv'
  BY <1>0, <1>1, <1>2, <1>3, <1>5, TaskAssumption
     DEF Here, SigningInv, Queued, Places, Doing, Rights, Same, Outside
<1>8. RevokeInv'
  BY <1>0, <1>1, <1>2, <1>3, <1>5, TaskAssumption
     DEF Here, RevokeInv, Revoking, Queued, StartSteps, Places, Doing, Rights,
         Same, Outside
<1>9. RunInv'
  BY <1>0, <1>1, <1>2, <1>3, <1>5, TaskAssumption
     DEF Here, RunInv, RevokeInv, Going, Wanted, Admitted, Closing,
         SignOutPending, Queued, StartSteps, Places, Doing, Rights, Same,
         Outside
<1> QED BY <1>4, <1>6, <1>7, <1>8, <1>9, WorkerKeeps DEF RightInv

LEMMA ClearKeeps ==
  ASSUME SessionInv, Clear
  PROVE  SessionInv'
<1>0. Here
  BY Before
<1>1. state' = state
  BY <1>0 DEF Here, Clear, Publish
<1>2. /\ worker' \in Work /\ worker.at = "clear"
      /\ \/ /\ Doing("reconnect") /\ worker'.at \in {"revokeHost", "complete"}
            /\ worker'.task = worker.task
         \/ ~Doing("reconnect") /\ worker'.at = "idle" /\ worker'.task = None
  BY <1>0, WorkMoves
     DEF Here, Clear, WorkerSteps, StartSteps, IsReconnect, Places, Doing
<1>3. /\ replies' \in Seq(Replies) /\ Outside' /\ core' = core
      /\ active' \in Attempts \cup {None}
      /\ cancelled' = cancelled /\ cancelled \subseteq Attempts
  BY <1>0, ProxyAssumption
     DEF Here, Clear, Outside, Books, Lists, Calm, Disturb, shared, world
<1>4. WorkerStep
  BY <1>0, <1>1, <1>2, <1>3
     DEF Here, WorkerStep, Books, Places, Doing, Clear, shared, world
<1>5. UNCHANGED <<tk, queue>>
  BY <1>4 DEF WorkerStep
<1>6. Places'
  BY <1>0, <1>1, <1>2, <1>3, <1>5, TaskAssumption
     DEF Here, Places, Doing, StartSteps, Rights, Same, Outside
<1>7. SigningInv'
  BY <1>0, <1>1, <1>2, <1>3, <1>5, TaskAssumption
     DEF Here, SigningInv, Queued, Places, Doing, Rights, Same, Outside
<1>8. RevokeInv'
  BY <1>0, <1>1, <1>2, <1>3, <1>5, TaskAssumption
     DEF Here, RevokeInv, Revoking, Queued, StartSteps, Places, Doing, Rights,
         Same, Outside
<1>9. RunInv'
  BY <1>0, <1>1, <1>2, <1>3, <1>5, TaskAssumption
     DEF Here, RunInv, RevokeInv, Going, Wanted, Admitted, Closing,
         SignOutPending, Queued, StartSteps, Places, Doing, Rights, Same,
         Outside
<1> QED BY <1>4, <1>6, <1>7, <1>8, <1>9, WorkerKeeps DEF RightInv

LEMMA Completing ==
  ASSUME NEW r \in Reconnects, NEW s \in AppStates
  PROVE  /\ Outcome(r, s) \in {"succeeded", "blocked", "retry", "exhausted", "failed"}
         /\ \A value : /\ Completed(r, value) \in Reconnects
                       /\ Completed(r, value).inFlight = None
                       /\ Completed(r, value).scheduled \in {None, r.scheduled}
<1>1. Outcome(r, s) \in {"succeeded", "blocked", "retry", "exhausted", "failed"}
  BY ReconnectAssumption DEF Outcome, Reconnects, AppStates
<1>2. ASSUME NEW value
      PROVE  /\ Completed(r, value) \in Reconnects
             /\ Completed(r, value).inFlight = None
             /\ Completed(r, value).scheduled \in {None, r.scheduled}
  <2>1. CASE value = "succeeded"
    BY <2>1, ReconnectAssumption DEF Completed, Reconnects, Unarmed
  <2>2. CASE value = "retry"
    BY <2>2 DEF Completed, Reconnects
  <2>3. CASE value \notin {"succeeded", "retry"}
    BY <2>3 DEF Completed, Reconnects
  <2> QED BY <2>1, <2>2, <2>3
<1> QED BY <1>1, <1>2

LEMMA CompleteKeeps ==
  ASSUME SessionInv, Complete
  PROVE  SessionInv'
<1>0. Here
  BY Before
<1> DEFINE a == worker.task.id
<1>1. /\ worker.at = "complete" /\ Doing("reconnect")
      /\ worker' \in Work /\ worker'.at = "idle" /\ worker'.task = None
  BY <1>0, WorkMoves DEF Here, Complete, Places
<1>2. /\ UNCHANGED <<state, active, tk, timers, ui, queue, world>>
      /\ cancelled' = cancelled \ {a}
  BY DEF Complete, Attempt
<1>3. /\ reconnect' \in Reconnects
      /\ \/ reconnect' = reconnect /\ reconnect.inFlight # a
         \/ /\ reconnect.inFlight = a /\ reconnect'.inFlight = None
            /\ reconnect'.scheduled \in {None, reconnect.scheduled}
  BY <1>0, Completing DEF Here, Complete, Attempt, Books
<1>4. replies' \in Seq(Replies)
  <2> DEFINE value == IF reconnect.inFlight # Attempt THEN "blocked"
                      ELSE Outcome(reconnect, state)
  <2>1. value \in {"succeeded", "blocked", "retry", "exhausted", "failed"}
    BY <1>0, Completing DEF Here, Books
  <2>2. Reply("reconnect", None, value, None)
    BY DEF Complete
  <2> HIDE DEF value
  <2>3. [kind |-> "reconnect", id |-> None, value |-> value, target |-> None] \in Replies
    BY <2>1 DEF Replies, Kinds, Ids
  <2> QED BY <1>0, <2>2, <2>3 DEF Here, Reply, Lists
<1>5. TypeOK'
  <2>1. Books' /\ Lists' /\ Outside' /\ ui' \in Window
    BY <1>0, <1>2, <1>3, <1>4, TypeParts
       DEF Here, Books, Lists, Outside, world, SessionInv
  <2> QED BY <1>0, <1>1, <1>2, <2>1, TypePartsNext DEF Here
<1>6. a \in Attempts \ timers /\ (Submitting => a # tk.attempt)
  BY <1>1 DEF SessionInv, AttemptInv, Placed
<1> HIDE DEF a
<1>7. ~Doing("reconnect")' /\ (Submitting' <=> Submitting) /\ (Closing' <=> Closing)
  BY <1>1, <1>2 DEF Doing, Submitting, Closing
<1>8. NoOrphan'
  <2>1. ASSUME reconnect'.scheduled # None PROVE reconnect'.scheduled \in timers'
    BY <2>1, <1>2, <1>3 DEF SessionInv, AttemptInv, NoOrphan
  <2>2. ASSUME reconnect'.inFlight # None
        PROVE  \/ tk.at = "markBegun" /\ tk.attempt = reconnect'.inFlight
               \/ \E i \in 1..Len(queue) :
                    queue[i] = Task("reconnect", reconnect'.inFlight)
    <3>1. reconnect' = reconnect /\ reconnect.inFlight # a
      BY <2>2, <1>3
    <3>2. worker.task # Task("reconnect", reconnect.inFlight)
      BY <3>1 DEF Task, a
    <3> QED BY <2>2, <3>1, <3>2 DEF SessionInv, AttemptInv, NoOrphan
  <2> QED BY <2>1, <2>2, <1>2 DEF NoOrphan
<1>9. Placed'
  BY <1>2, <1>7 DEF SessionInv, AttemptInv, Placed
<1>10. Flying'
  <2>1. ASSUME NEW i \in 1..Len(queue), queue[i].kind = "reconnect",
               queue[i].id \notin cancelled'
        PROVE  queue[i].id = reconnect'.inFlight
    <3>1. queue[i].id # a
      BY <2>1, <1>1 DEF SessionInv, AttemptInv, Placed, a
    <3>2. queue[i].id = reconnect.inFlight
      BY <2>1, <3>1, <1>2 DEF SessionInv, AttemptInv, Flying
    <3> QED BY <3>1, <3>2, <1>3
  <2>2. Submitting => tk.attempt = reconnect'.inFlight
    BY <1>3, <1>6 DEF SessionInv, AttemptInv, Flying
  <2>3. reconnect'.scheduled = None \/ reconnect'.inFlight = None
    BY <1>3 DEF SessionInv, AttemptInv, Flying
  <2> QED BY <2>1, <2>2, <2>3, <1>2, <1>7 DEF Flying
<1>11. Emptied'
  <2>1. ASSUME Closing PROVE reconnect' = reconnect
    BY <2>1, <1>3, <1>6, ReconnectAssumption
       DEF SessionInv, AttemptInv, Emptied, Pending
  <2> QED BY <2>1, <1>2, <1>7 DEF SessionInv, AttemptInv, Emptied
<1>12. AttemptInv'
  BY <1>8, <1>9, <1>10, <1>11 DEF AttemptInv
<1>13. UNCHANGED <<state, tk, queue, core>>
  BY <1>2 DEF world
<1>14. Places'
  BY <1>1 DEF Places, Doing, StartSteps
<1>15. SigningInv'
  BY <1>0, <1>1, <1>13 DEF Here, SigningInv, Queued, Doing
<1>16. RevokeInv'
  BY <1>0, <1>1, <1>13 DEF Here, RevokeInv, Revoking, Queued, StartSteps
<1>17. RunInv'
  BY <1>0, <1>1, <1>13 DEF Here, RunInv, Going, Wanted, Admitted, Closing,
       SignOutPending, Queued, StartSteps
<1> QED BY <1>5, <1>12, <1>14, <1>15, <1>16, <1>17 DEF SessionInv, RightInv

\* What the worker takes from the queue.
Looks == {"poll", "health", "probe"}
Works == {"start", "reconnect", "heartbeat", "signin", "signout"}

LEMMA DequeueMoves ==
  ASSUME SessionInv, Dequeue
  PROVE  /\ worker.at = "idle" /\ worker.task = None /\ queue # <<>>
         /\ queue' = Tail(queue) /\ tk.at \notin {"exit", "closed"}
         /\ UNCHANGED <<shared, tk, timers, ui, core, game, permitted>>
         /\ \/ /\ Head(queue).kind \in Looks /\ UNCHANGED worker
            \/ /\ Head(queue).kind \in Works
               /\ worker'.task = Head(queue)
               /\ worker'.at = CASE Head(queue).kind = "signin"    -> "claim"
                                 [] Head(queue).kind = "signout"   -> "signOutHost"
                                 [] Head(queue).kind = "heartbeat" -> "beat"
                                 [] OTHER                          -> "admit"
         /\ TypeOK'
<1>0. /\ state \in AppStates /\ worker \in Work /\ Books /\ Lists /\ Outside
      /\ Rights(state) /\ Places /\ ui \in Window /\ tk \in Handler
  BY Before DEF Here
<1>1. /\ worker.at = "idle" /\ worker.task = None /\ queue # <<>>
      /\ queue' = Tail(queue) /\ tk.at \notin {"exit", "closed"}
      /\ UNCHANGED <<shared, tk, timers, ui, core, game, permitted>>
  BY <1>0 DEF Dequeue, Places, SessionInv, AttemptInv, Emptied
<1>2. queue' \in Seq(Tasks) /\ Head(queue) \in Tasks
  BY <1>0, <1>1, Removed DEF Lists
<1>3. ASSUME Look(Head(queue))
      PROVE  /\ Head(queue).kind \in Looks /\ UNCHANGED worker
             /\ replies' \in Seq(Replies) /\ events' \in 0..MaxEvents
  <2>1. Head(queue).kind \in Looks /\ UNCHANGED worker
    BY <1>3 DEF Look, Looks
  <2>0. PICK sight \in Sights : \E target \in {None, SightTarget(sight)} :
          /\ IF Head(queue).kind = "probe" THEN Sees(sight) ELSE SeesTarget(sight)
          /\ Reply(Head(queue).kind, Head(queue).id, sight, target)
    BY <1>3 DEF Look
  <2>2. PICK target \in {None, SightTarget(sight)} :
          /\ IF Head(queue).kind = "probe" THEN Sees(sight) ELSE SeesTarget(sight)
          /\ Reply(Head(queue).kind, Head(queue).id, sight, target)
    BY <2>0
  <2>3. target \in Targets \cup {None}
    BY <1>0, <2>2 DEF SightTarget, Sights, Outside, Window
  <2>4. [kind |-> Head(queue).kind, id |-> Head(queue).id, value |-> sight,
         target |-> target] \in Replies
    BY <1>2, <2>2, <2>3, TaskFields DEF Replies, Sights
  <2>5. replies' \in Seq(Replies)
    BY <1>0, <2>2, <2>4 DEF Reply, Lists
  <2>6. events' \in 0..MaxEvents
    BY <1>0, <2>2, ProxyAssumption
       DEF Sees, SeesTarget, SeesBound, SeesWindow, Snapshot, Calm, Disturb, Outside
  <2> QED BY <2>1, <2>5, <2>6
<1>4. ASSUME Take(Head(queue))
      PROVE  /\ Head(queue).kind \in Works
             /\ worker'.task = Head(queue)
             /\ worker'.at = CASE Head(queue).kind = "signin"    -> "claim"
                               [] Head(queue).kind = "signout"   -> "signOutHost"
                               [] Head(queue).kind = "heartbeat" -> "beat"
                               [] OTHER                          -> "admit"
             /\ worker' \in Work
             /\ replies' \in Seq(Replies) /\ events' \in 0..MaxEvents
  <2> DEFINE at == CASE Head(queue).kind = "signin"    -> "claim"
                     [] Head(queue).kind = "signout"   -> "signOutHost"
                     [] Head(queue).kind = "heartbeat" -> "beat"
                     [] OTHER                          -> "admit"
  <2>1. /\ Head(queue).kind \in Works /\ UNCHANGED <<replies, events>>
        /\ worker' = [Begin(Head(queue)) EXCEPT !.session = state.session, !.at = at]
    BY <1>4 DEF Take, Works
  <2>2. at \in WorkerSteps
    BY DEF WorkerSteps
  <2> HIDE DEF at
  <2>3. worker' \in Work /\ worker'.task = Head(queue) /\ worker'.at = at
    BY <1>0, <1>2, <2>1, <2>2 DEF Begin, WorkerIdle, Work, Rights, Fates
  <2> QED BY <1>0, <2>1, <2>3 DEF at, Lists, Outside
<1>5. TypeOK'
  <2>1. Look(Head(queue)) \/ Take(Head(queue))
    BY DEF Dequeue
  <2>2. /\ worker' \in Work /\ replies' \in Seq(Replies) /\ events' \in 0..MaxEvents
    BY <1>0, <1>3, <1>4, <2>1
  <2>3. Books' /\ Lists' /\ Outside'
    BY <1>0, <1>1, <1>2, <2>2 DEF Books, Lists, Outside, shared
  <2> QED BY <1>0, <1>1, <2>2, <2>3, TypePartsNext DEF shared
<1> QED BY <1>1, <1>3, <1>4, <1>5 DEF Dequeue

LEMMA DequeueAttempts ==
  ASSUME SessionInv, Dequeue
  PROVE  AttemptInv'
<1>1. /\ worker.task = None /\ tk.at \notin {"exit", "closed"}
      /\ UNCHANGED <<reconnect, cancelled, timers, tk>>
      /\ \/ worker'.task = Head(queue)
         \/ Head(queue).kind # "reconnect" /\ UNCHANGED worker
  BY DequeueMoves DEF shared, Looks
<1>2. /\ Len(queue) \in Nat \ {0} /\ Len(queue') = Len(queue) - 1
      /\ Head(queue) = queue[1] /\ Head(queue) \in Tasks
      /\ \A i \in 1..Len(queue') : i + 1 \in 2..Len(queue) /\ queue'[i] = queue[i + 1]
  BY DequeueMoves, Removed DEF SessionInv, TypeOK
<1>3. Doing("reconnect")' => worker'.task = queue[1] /\ queue[1].kind = "reconnect"
  BY <1>1, <1>2 DEF Doing
<1>4. (Submitting' <=> Submitting) /\ (Closing' <=> Closing)
  BY <1>1 DEF Submitting, Closing
<1>5. AttemptInv /\ 1 \in 1..Len(queue)
  BY <1>2 DEF SessionInv
<1>6. NoOrphan'
  <2>1. ASSUME reconnect.inFlight # None,
               NEW i \in 1..Len(queue), queue[i] = Task("reconnect", reconnect.inFlight)
        PROVE  \/ worker'.task = Task("reconnect", reconnect.inFlight)
               \/ \E j \in 1..Len(queue') :
                    queue'[j] = Task("reconnect", reconnect.inFlight)
    <3>1. CASE i = 1
      <4>1. Head(queue).kind = "reconnect"
        BY <1>2, <2>1, <3>1 DEF Task
      <4> QED BY <1>1, <1>2, <2>1, <3>1, <4>1
    <3>2. CASE i # 1
      <4>1. i - 1 \in 1..Len(queue') /\ queue'[i - 1] = queue[i]
        BY <1>2, <2>1, <3>2
      <4> QED BY <2>1, <4>1
    <3> QED BY <3>1, <3>2
  <2>2. reconnect.inFlight # None => worker.task # Task("reconnect", reconnect.inFlight)
    <3>1. ASSUME reconnect.inFlight # None
          PROVE  Task("reconnect", reconnect.inFlight) \in Tasks
      BY <3>1 DEF SessionInv, TypeOK, Reconnects, Task, Tasks, Kinds, Ids
    <3> QED BY <1>1, <3>1, TaskAssumption
  <2> QED BY <1>1, <1>5, <2>1, <2>2 DEF AttemptInv, NoOrphan
<1>7. Placed'
  <2>1. ASSUME NEW i \in 1..Len(queue'), queue'[i].kind = "reconnect"
        PROVE  /\ queue'[i].id \in Attempts \ timers
               /\ Doing("reconnect")' => queue'[i].id # worker'.task.id
               /\ Submitting => queue'[i].id # tk.attempt
               /\ \A j \in 1..Len(queue') :
                    queue'[j].kind = "reconnect" /\ queue'[j].id = queue'[i].id => i = j
    <3>1. i + 1 \in 1..Len(queue) /\ queue'[i] = queue[i + 1] /\ i + 1 # 1
      BY <1>2
    <3>2. queue'[i].id \in Attempts \ timers /\ (Submitting => queue'[i].id # tk.attempt)
      BY <1>5, <2>1, <3>1 DEF AttemptInv, Placed
    <3>3. Doing("reconnect")' => queue'[i].id # worker'.task.id
      BY <1>3, <1>5, <2>1, <3>1 DEF AttemptInv, Placed
    <3>4. ASSUME NEW j \in 1..Len(queue'),
                 queue'[j].kind = "reconnect", queue'[j].id = queue'[i].id
          PROVE  i = j
      <4>1. j + 1 \in 1..Len(queue) /\ queue'[j] = queue[j + 1]
        BY <1>2
      <4>2. i + 1 = j + 1
        BY <1>5, <2>1, <3>1, <3>4, <4>1 DEF AttemptInv, Placed
      <4> QED BY <4>2, <1>2
    <3> QED BY <3>2, <3>3, <3>4
  <2>2. Doing("reconnect")' => /\ worker'.task.id \in Attempts \ timers
                               /\ Submitting => worker'.task.id # tk.attempt
    BY <1>3, <1>5 DEF AttemptInv, Placed
  <2>3. Submitting => tk.attempt \in Attempts \ timers
    BY <1>5 DEF AttemptInv, Placed
  <2> QED BY <1>1, <1>4, <2>1, <2>2, <2>3 DEF Placed
<1>8. Flying'
  <2>1. ASSUME NEW i \in 1..Len(queue'), queue'[i].kind = "reconnect",
               queue'[i].id \notin cancelled
        PROVE  queue'[i].id = reconnect.inFlight
    <3>1. i + 1 \in 1..Len(queue) /\ queue'[i] = queue[i + 1]
      BY <1>2
    <3> QED BY <1>5, <2>1, <3>1 DEF AttemptInv, Flying
  <2>2. Doing("reconnect")' /\ worker'.task.id \notin cancelled
          => worker'.task.id = reconnect.inFlight
    BY <1>3, <1>5 DEF AttemptInv, Flying
  <2> QED BY <1>1, <1>4, <1>5, <2>1, <2>2 DEF AttemptInv, Flying
<1>9. Emptied'
  BY <1>1, <1>4, <1>5 DEF AttemptInv, Emptied
<1> QED BY <1>6, <1>7, <1>8, <1>9 DEF AttemptInv

LEMMA DequeueKeeps ==
  ASSUME SessionInv, Dequeue
  PROVE  SessionInv'
<1>0. Places /\ SigningInv /\ RevokeInv /\ RunInv
  BY Before DEF Here
<1>1. /\ worker.at = "idle" /\ worker.task = None /\ queue # <<>>
      /\ queue' = Tail(queue) /\ tk.at \notin {"exit", "closed"}
      /\ UNCHANGED <<state, tk, core>>
      /\ TypeOK'
  BY DequeueMoves DEF shared
<1>2. /\ Len(queue) \in Nat \ {0} /\ Len(queue') = Len(queue) - 1
      /\ Head(queue) = queue[1] /\ Head(queue) \in Tasks /\ Head(queue) # None
      /\ \A i \in 1..Len(queue') : i + 1 \in 2..Len(queue) /\ queue'[i] = queue[i + 1]
      /\ \A kind : Queued(kind)' => Queued(kind)
      /\ \A kind : Queued(kind) => Queued(kind)' \/ Head(queue).kind = kind
      /\ Queued(Head(queue).kind)
  BY <1>1, Removed, TaskFields DEF SessionInv, TypeOK
<1>3. \/ /\ Head(queue).kind \in Looks /\ UNCHANGED worker
      \/ /\ worker'.task = Head(queue) /\ Head(queue).kind \in Works
         /\ \/ Head(queue).kind = "signin" /\ worker'.at = "claim"
            \/ Head(queue).kind = "signout" /\ worker'.at = "signOutHost"
            \/ Head(queue).kind = "heartbeat" /\ worker'.at = "beat"
            \/ Head(queue).kind \in {"start", "reconnect"} /\ worker'.at = "admit"
  BY DequeueMoves DEF Works
<1>4. Places'
  BY <1>1, <1>2, <1>3 DEF Places, Doing, StartSteps
<1>5. SigningInv'
  <2>1. ASSUME NEW i \in 1..Len(queue'), NEW j \in 1..Len(queue'),
               queue'[i].kind = "signin", queue'[j].kind = "signin"
        PROVE  i = j
    <3>1. /\ i + 1 \in 1..Len(queue) /\ queue[i + 1].kind = "signin"
          /\ j + 1 \in 1..Len(queue) /\ queue[j + 1].kind = "signin"
      BY <1>2, <2>1
    <3>2. i + 1 = j + 1
      BY <1>0, <3>1 DEF SigningInv
    <3> QED BY <1>2, <3>2
  <2>2. Head(queue).kind = "signin" => ~Queued("signin")'
    <3>1. ASSUME Head(queue).kind = "signin",
                 NEW i \in 1..Len(queue'), queue'[i].kind = "signin"
          PROVE  FALSE
      <4>1. /\ i + 1 \in 1..Len(queue) /\ queue[i + 1].kind = "signin" /\ i + 1 # 1
            /\ 1 \in 1..Len(queue) /\ queue[1].kind = "signin"
        BY <1>2, <3>1
      <4> QED BY <1>0, <4>1 DEF SigningInv
    <3> QED BY <3>1 DEF Queued
  <2>3. Doing("signin")' => Head(queue).kind = "signin"
    BY <1>1, <1>3 DEF Doing
  <2>4. Queued("signin")' \/ Doing("signin")' => Queued("signin")
    BY <1>2, <2>3
  <2>5. state.signedIn \/ state.session = None
    BY <1>0, <1>1 DEF SigningInv, Doing
  <2> QED BY <1>0, <1>1, <2>1, <2>2, <2>3, <2>4, <2>5 DEF SigningInv
<1>6. RevokeInv'
  BY <1>0, <1>1, <1>2, <1>3 DEF RevokeInv, Revoking, StartSteps
<1>7. RunInv'
  BY <1>0, <1>1, <1>2, <1>3
     DEF RunInv, Going, Wanted, Admitted, Closing, SignOutPending, StartSteps, Looks
<1> QED BY <1>1, <1>4, <1>5, <1>6, <1>7, DequeueAttempts DEF SessionInv, RightInv

(***************************************************************************)
(* The Tk thread.  The worker stays where it is.                           *)
(***************************************************************************)
\* A handler submits at most one task.
Submits == \/ UNCHANGED queue
           \/ /\ \E t \in Tasks : t.kind \notin {"reconnect", "signin"} /\ Submit(t)
              /\ tk.at \notin {"exit", "closed"}

HandlerStep ==
  /\ state' \in AppStates /\ tk' \in Handler /\ ui' \in Window
  /\ worker' = worker /\ Books' /\ Outside' /\ Submits
  /\ replies' \in Seq(Replies)
  /\ Forgets \/ Remembers
  /\ cancelled \subseteq cancelled' /\ timers' = timers
  /\ tk' = tk \/ (~Submitting /\ ~Submitting')
  /\ Closing' /\ ~Closing => Forgets
  /\ tk.at = "closed" \/ tk'.at \in {"exit", "closed"} => tk' = tk

LEMMA SubmitsKeeps ==
  ASSUME TypeOK, Submits
  PROVE  /\ queue' \in Seq(Tasks)
         /\ Queued("signin")' => Queued("signin")
         /\ Queued("signout") => Queued("signout")'
         /\ \A i, j \in 1..Len(queue') :
              queue'[i].kind = "signin" /\ queue'[j].kind = "signin" =>
                /\ i \in 1..Len(queue) /\ queue[i].kind = "signin"
                /\ j \in 1..Len(queue) /\ queue[j].kind = "signin"
<1>1. CASE UNCHANGED queue
  BY <1>1 DEF TypeOK, Queued
<1>2. CASE \E t \in Tasks : t.kind \notin {"reconnect", "signin"} /\ Submit(t)
  <2>1. PICK t \in Tasks : t.kind \notin {"reconnect", "signin"} /\ Submit(t)
    BY <1>2
  <2>2. /\ queue' \in Seq(Tasks)
        /\ Len(queue) \in Nat /\ Len(queue') = Len(queue) + 1
        /\ \A i \in 1..Len(queue) : queue'[i] = queue[i]
        /\ queue'[Len(queue) + 1] = t
        /\ \A kind : Queued(kind)' <=> (Queued(kind) \/ t.kind = kind)
    BY <2>1, Added DEF TypeOK
  <2>3. ASSUME NEW i \in 1..Len(queue'), queue'[i].kind = "signin"
        PROVE  i \in 1..Len(queue) /\ queue[i].kind = "signin"
    <3>1. i # Len(queue) + 1
      BY <2>1, <2>2, <2>3
    <3>2. i \in 1..Len(queue)
      BY <2>2, <2>3, <3>1
    <3> QED BY <2>2, <2>3, <3>2
  <2> QED BY <2>1, <2>2, <2>3
<1> QED BY <1>1, <1>2 DEF Submits

LEMMA HandlerKeeps ==
  ASSUME SessionInv, HandlerStep,
         state'.signedIn = state.signedIn,
         state'.session = state.session \/ state'.session = None,
         RevokeInv', RunInv'
  PROVE  SessionInv'
<1>1. Elsewhere
  BY DEF Elsewhere, HandlerStep, Submits
<1>2. AttemptInv'
  BY <1>1, AttemptsKept DEF SessionInv
<1>3. TypeOK'
  BY TypePartsNext, TypeParts, SubmitsKeeps DEF HandlerStep, SessionInv, Lists
<1>4. Places'
  BY DEF HandlerStep, SessionInv, RightInv, Places, Doing
<1>5. SigningInv'
  <2>1. /\ Queued("signin")' => Queued("signin")
        /\ \A i, j \in 1..Len(queue') :
             queue'[i].kind = "signin" /\ queue'[j].kind = "signin" =>
               /\ i \in 1..Len(queue) /\ queue[i].kind = "signin"
               /\ j \in 1..Len(queue) /\ queue[j].kind = "signin"
    BY SubmitsKeeps DEF SessionInv, HandlerStep
  <2>2. worker' = worker /\ (Doing("signin")' <=> Doing("signin"))
    BY DEF HandlerStep, Doing
  <2>3. tk'.at # "closed" => tk.at # "closed"
    BY DEF HandlerStep
  <2>4. SigningInv
    BY DEF SessionInv, RightInv
  <2>5. \A i, j \in 1..Len(queue') :
          queue'[i].kind = "signin" /\ queue'[j].kind = "signin" => i = j
    BY <2>1, <2>4 DEF SigningInv
  <2> QED BY <2>1, <2>2, <2>3, <2>4, <2>5 DEF SigningInv
<1> QED BY <1>2, <1>3, <1>4, <1>5 DEF SessionInv, RightInv

LEMMA MarkKeeps ==
  ASSUME SessionInv, Mark
  PROVE  SessionInv'
<1>0. Here
  BY Before
<1>1. /\ state' \in AppStates /\ Same(state, state')
      /\ state'.suppressed = state.suppressed
  BY <1>0 DEF Here, Mark, Publish, shared, AppStates, Same, Statuses
<1>2. /\ tk.at = "mark" /\ tk' \in Handler /\ tk'.at = "idle"
  BY <1>0, HandlerMoves DEF Here, Mark, TkSteps
<1>3. UNCHANGED <<queue, replies, worker, timers>>
  BY DEF Mark, shared, world
<1>4. /\ Books' /\ Outside' /\ ui' \in Window
      /\ core' = core
  BY <1>0, ReconnectAssumption, ProxyAssumption
     DEF Here, Mark, Books, Outside, Calm, Disturb, shared, world
<1>5. /\ Forgets \/ Remembers
      /\ Closing' /\ ~Closing => Forgets
      /\ cancelled \subseteq cancelled'
  BY <1>0, <1>2 DEF Here, Mark, Forgets, Remembers, Closing, Submitting, shared
<1>6. HandlerStep
  BY <1>0, <1>1, <1>2, <1>3, <1>4, <1>5
     DEF Here, HandlerStep, Submits, Lists, Submitting
<1>7. RevokeInv'
  BY <1>0, <1>1, <1>2, <1>3, <1>4
     DEF Here, RevokeInv, Revoking, Same, Queued, StartSteps, Outside, Rights
<1>8. RunInv'
  BY <1>0, <1>1, <1>2, <1>3, <1>4
     DEF Here, RunInv, RevokeInv, Going, Wanted, Admitted, Closing, SignOutPending,
         Same, Queued,
         StartSteps, Doing, Outside, Rights
<1> QED BY <1>1, <1>6, <1>7, <1>8, HandlerKeeps DEF Same

LEMMA MarkFailedKeeps ==
  ASSUME SessionInv, MarkFailed
  PROVE  SessionInv'
<1>0. Here
  BY Before
<1>1. /\ state' \in AppStates /\ Same(state, state')
      /\ state'.suppressed = state.suppressed
  BY <1>0 DEF Here, MarkFailed, Publish, shared, AppStates, Same, Statuses
<1>2. /\ tk.at = "markFailed" /\ tk' \in Handler /\ tk'.at = "idle"
  BY <1>0, HandlerMoves DEF Here, MarkFailed, TkSteps
<1>3. UNCHANGED <<queue, replies, worker, timers>>
  BY DEF MarkFailed, shared, world
<1>4. /\ Books' /\ Outside' /\ ui' \in Window
      /\ core' = core
  BY <1>0, ReconnectAssumption, ProxyAssumption
     DEF Here, MarkFailed, Books, Outside, Calm, Disturb, shared, world
<1>5. /\ Forgets \/ Remembers
      /\ Closing' /\ ~Closing => Forgets
      /\ cancelled \subseteq cancelled'
  BY <1>0, <1>2
     DEF Here, MarkFailed, Forgets, Remembers, Closing, Submitting, shared
<1>6. HandlerStep
  BY <1>0, <1>1, <1>2, <1>3, <1>4, <1>5
     DEF Here, HandlerStep, Submits, Lists, Submitting
<1>7. RevokeInv'
  BY <1>0, <1>1, <1>2, <1>3, <1>4
     DEF Here, RevokeInv, Revoking, Same, Queued, StartSteps, Outside, Rights
<1>8. RunInv'
  BY <1>0, <1>1, <1>2, <1>3, <1>4
     DEF Here, RunInv, RevokeInv, Going, Wanted, Admitted, Closing, SignOutPending,
         Same, Queued,
         StartSteps, Doing, Outside, Rights
<1> QED BY <1>1, <1>6, <1>7, <1>8, HandlerKeeps DEF Same

LEMMA ApplyKeeps ==
  ASSUME SessionInv, Apply
  PROVE  SessionInv'
<1>0. Here
  BY Before
<1>1. /\ state' \in AppStates /\ state'.game = tk.detected
      /\ state'.signedIn = state.signedIn /\ state'.session = state.session
      /\ state'.entitled = state.entitled
      /\ state'.suppressed => tk.detected /\ tk.keep
  BY <1>0 DEF Here, Apply, Publish, shared, AppStates, Statuses, Handler
<1>2. /\ tk.at = "apply" /\ tk' \in Handler /\ tk'.at = tk.then
      /\ tk'.then = tk.then /\ tk'.detected = tk.detected
      /\ tk.then \in {"stopHost", "revokeHost", "resume"}
  BY <1>0, HandlerMoves DEF Here, Apply, TkSteps
<1>3. UNCHANGED <<queue, replies, worker, timers>>
  BY DEF Apply, shared, world
<1>4. /\ Books' /\ Outside' /\ ui' \in Window
      /\ core' = core
  BY <1>0, ReconnectAssumption, ProxyAssumption
     DEF Here, Apply, Books, Outside, Calm, Disturb, shared, world,
         CancelActive
<1>5. /\ Forgets \/ Remembers
      /\ Closing' /\ ~Closing => Forgets
      /\ cancelled \subseteq cancelled'
  BY <1>0, <1>2
     DEF Here, Apply, Forgets, Remembers, Closing, Submitting, shared,
         CancelActive
<1>6. HandlerStep
  BY <1>0, <1>1, <1>2, <1>3, <1>4, <1>5
     DEF Here, HandlerStep, Submits, Lists, Submitting
<1>7. RevokeInv'
  BY <1>0, <1>1, <1>2, <1>3, <1>4
     DEF Here, RevokeInv, Revoking, Same, Queued, StartSteps, Outside, Rights
<1>8. RunInv'
  BY <1>0, <1>1, <1>2, <1>3, <1>4
     DEF Here, RunInv, RevokeInv, Going, Wanted, Admitted, Closing, SignOutPending,
         Same, Queued,
         StartSteps, Doing, Outside, Rights
<1> QED BY <1>1, <1>6, <1>7, <1>8, HandlerKeeps DEF Same

LEMMA StopHostKeeps ==
  ASSUME SessionInv, StopHost
  PROVE  SessionInv'
<1>0. Here
  BY Before
<1>1. /\ state' \in AppStates /\ Same(state, state')
      /\ state'.suppressed = state.suppressed
  BY <1>0, States DEF Here, StopHost, Publish, shared, AppStates, Same, Statuses
<1>2. /\ tk.at = "stopHost" /\ tk' \in Handler /\ tk'.at = "resume"
  BY <1>0, HandlerMoves DEF Here, StopHost, TkSteps
<1>3. UNCHANGED <<queue, replies, worker, timers>>
  BY DEF StopHost, shared, world
<1>4. /\ Books' /\ Outside' /\ ui' \in Window
      /\ core' = "running" => core = "running"
  BY <1>0, ReconnectAssumption, ProxyAssumption
     DEF Here, StopHost, Books, Outside, Calm, Disturb, shared, world,
         StopRuntime, StopAnswers
<1>5. /\ Forgets \/ Remembers
      /\ Closing' /\ ~Closing => Forgets
      /\ cancelled \subseteq cancelled'
  BY <1>0, <1>2 DEF Here, StopHost, Forgets, Remembers, Closing, Submitting, shared
<1>6. HandlerStep
  BY <1>0, <1>1, <1>2, <1>3, <1>4, <1>5
     DEF Here, HandlerStep, Submits, Lists, Submitting
<1>7. RevokeInv'
  BY <1>0, <1>1, <1>2, <1>3, <1>4
     DEF Here, RevokeInv, Revoking, Same, Queued, StartSteps, Outside, Rights
<1>8. RunInv'
  BY <1>0, <1>1, <1>2, <1>3, <1>4
     DEF Here, RunInv, RevokeInv, Going, Wanted, Admitted, Closing, SignOutPending,
         Same, Queued,
         StartSteps, Doing, Outside, Rights
<1> QED BY <1>1, <1>6, <1>7, <1>8, HandlerKeeps DEF Same

LEMMA TkRevokeHostKeeps ==
  ASSUME SessionInv, TkRevokeHost
  PROVE  SessionInv'
<1>0. Here
  BY Before
<1>1. /\ state' \in AppStates /\ Same(state, state')
      /\ state'.suppressed = state.suppressed
  BY <1>0, States
     DEF Here, TkRevokeHost, Publish, shared, ShutdownHost, AppStates, Same,
         Statuses
<1>2. /\ tk.at = "revokeHost" /\ tk' \in Handler /\ tk'.at = "revokeSession"
      /\ tk'.detected = tk.detected
  BY <1>0, HandlerMoves DEF Here, TkRevokeHost, TkSteps
<1>3. UNCHANGED <<queue, replies, worker, timers>>
  BY DEF TkRevokeHost, shared, world
<1>4. /\ Books' /\ Outside' /\ ui' \in Window
      /\ core' = "absent" /\ worker.at \notin StartSteps
  BY <1>0, ReconnectAssumption, ProxyAssumption
     DEF Here, TkRevokeHost, Books, Outside, Calm, Disturb, shared, world,
         CancelActive, ShutdownHost, LockFree
<1>5. /\ Forgets \/ Remembers
      /\ Closing' /\ ~Closing => Forgets
      /\ cancelled \subseteq cancelled'
  BY <1>0, <1>2
     DEF Here, TkRevokeHost, Forgets, Remembers, Closing, Submitting, shared,
         CancelActive
<1>6. HandlerStep
  BY <1>0, <1>1, <1>2, <1>3, <1>4, <1>5
     DEF Here, HandlerStep, Submits, Lists, Submitting
<1>7. RevokeInv'
  BY <1>0, <1>1, <1>2, <1>3, <1>4
     DEF Here, RevokeInv, Revoking, Same, Queued, StartSteps, Outside, Rights
<1>8. RunInv'
  BY <1>0, <1>1, <1>2, <1>3, <1>4
     DEF Here, RunInv, RevokeInv, Going, Wanted, Admitted, Closing, SignOutPending,
         Same, Queued,
         StartSteps, Doing, Outside, Rights
<1> QED BY <1>1, <1>6, <1>7, <1>8, HandlerKeeps DEF Same

LEMMA TkRevokeSessionKeeps ==
  ASSUME SessionInv, TkRevokeSession
  PROVE  SessionInv'
<1>0. Here
  BY Before
<1>1. /\ state' \in AppStates /\ state'.session = None /\ ~state'.entitled
      /\ state'.signedIn = state.signedIn /\ state'.game = state.game
  BY <1>0, SignOuts DEF Here, TkRevokeSession, Publish, shared
<1>2. /\ tk.at = "revokeSession" /\ tk' \in Handler /\ tk'.at = "resume"
  BY <1>0, HandlerMoves DEF Here, TkRevokeSession, TkSteps
<1>3. UNCHANGED <<queue, replies, worker, timers>>
  BY DEF TkRevokeSession, shared, world
<1>4. /\ Books' /\ Outside' /\ ui' \in Window
      /\ core' = core
  BY <1>0, ReconnectAssumption, ProxyAssumption
     DEF Here, TkRevokeSession, Books, Outside, Calm, Disturb, shared, world
<1>5. /\ Forgets \/ Remembers
      /\ Closing' /\ ~Closing => Forgets
      /\ cancelled \subseteq cancelled'
  BY <1>0, <1>2
     DEF Here, TkRevokeSession, Forgets, Remembers, Closing, Submitting,
         shared
<1>6. HandlerStep
  BY <1>0, <1>1, <1>2, <1>3, <1>4, <1>5
     DEF Here, HandlerStep, Submits, Lists, Submitting
<1>7. RevokeInv'
  BY <1>0, <1>1, <1>2, <1>3, <1>4
     DEF Here, RevokeInv, Revoking, Same, Queued, StartSteps, Outside, Rights
<1>8. RunInv'
  BY <1>0, <1>1, <1>2, <1>3, <1>4
     DEF Here, RunInv, RevokeInv, Going, Wanted, Admitted, Closing, SignOutPending,
         Same, Queued,
         StartSteps, Doing, Outside, Rights
<1> QED BY <1>1, <1>6, <1>7, <1>8, HandlerKeeps DEF Same

LEMMA CloseKeeps ==
  ASSUME SessionInv, Close
  PROVE  SessionInv'
<1>0. Here
  BY Before
<1>1. /\ state' \in AppStates /\ Same(state, state')
  BY <1>0 DEF Here, Close, Publish, shared, AppStates, Same
<1>2. /\ tk.at = "idle" /\ tk' \in Handler /\ tk'.at = "closeHost"
  BY <1>0, HandlerMoves DEF Here, Close, TkSteps
<1>3. UNCHANGED <<queue, replies, worker, timers>>
  BY DEF Close, shared, world
<1>4. /\ Books' /\ Outside' /\ ui' \in Window
      /\ core' = core
  BY <1>0, ReconnectAssumption, ProxyAssumption
     DEF Here, Close, Books, Outside, Calm, Disturb, shared, world, Cancelled,
         Unarmed, Reconnects
<1>5. /\ Forgets \/ Remembers
      /\ Closing' /\ ~Closing => Forgets
      /\ cancelled \subseteq cancelled'
  BY <1>0, <1>2
     DEF Here, Close, Forgets, Remembers, Closing, Submitting, shared,
         Cancelled, Unarmed
<1>6. HandlerStep
  BY <1>0, <1>1, <1>2, <1>3, <1>4, <1>5
     DEF Here, HandlerStep, Submits, Lists, Submitting
<1>7. RevokeInv'
  BY <1>0, <1>1, <1>2, <1>3, <1>4
     DEF Here, RevokeInv, Revoking, Same, Queued, StartSteps, Outside, Rights
<1>8. RunInv'
  BY <1>0, <1>1, <1>2, <1>3, <1>4
     DEF Here, RunInv, RevokeInv, Going, Wanted, Admitted, Closing, SignOutPending,
         Same, Queued,
         StartSteps, Doing, Outside, Rights
<1> QED BY <1>1, <1>6, <1>7, <1>8, HandlerKeeps DEF Same

LEMMA CloseHostKeeps ==
  ASSUME SessionInv, CloseHost
  PROVE  SessionInv'
<1>0. Here
  BY Before
<1>1. /\ state' \in AppStates /\ Same(state, state')
      /\ state'.suppressed = state.suppressed
  BY <1>0, States
     DEF Here, CloseHost, Publish, shared, ShutdownHost, AppStates, Same,
         Statuses
<1>2. /\ tk.at = "closeHost" /\ tk' \in Handler /\ tk'.at = "closeSession"
  BY <1>0, HandlerMoves DEF Here, CloseHost, TkSteps
<1>3. UNCHANGED <<queue, replies, worker, timers>>
  BY DEF CloseHost, shared, world
<1>4. /\ Books' /\ Outside' /\ ui' \in Window
      /\ core' = "absent"
  BY <1>0, ReconnectAssumption, ProxyAssumption
     DEF Here, CloseHost, Books, Outside, Calm, Disturb, shared, world,
         ShutdownHost
<1>5. /\ Forgets \/ Remembers
      /\ Closing' /\ ~Closing => Forgets
      /\ cancelled \subseteq cancelled'
  BY <1>0, <1>2 DEF Here, CloseHost, Forgets, Remembers, Closing, Submitting, shared
<1>6. HandlerStep
  BY <1>0, <1>1, <1>2, <1>3, <1>4, <1>5
     DEF Here, HandlerStep, Submits, Lists, Submitting
<1>7. RevokeInv'
  BY <1>0, <1>1, <1>2, <1>3, <1>4
     DEF Here, RevokeInv, Revoking, Same, Queued, StartSteps, Outside, Rights
<1>8. RunInv'
  BY <1>0, <1>1, <1>2, <1>3, <1>4
     DEF Here, RunInv, RevokeInv, Going, Wanted, Admitted, Closing, SignOutPending,
         Same, Queued,
         StartSteps, Doing, Outside, Rights
<1> QED BY <1>1, <1>6, <1>7, <1>8, HandlerKeeps DEF Same

LEMMA CloseSessionKeeps ==
  ASSUME SessionInv, CloseSession
  PROVE  SessionInv'
<1>0. Here
  BY Before
<1>1. /\ state' \in AppStates /\ state'.session = None /\ ~state'.entitled
      /\ state'.signedIn = state.signedIn /\ state'.game = state.game
  BY <1>0, SignOuts DEF Here, CloseSession, Publish, shared
<1>2. /\ tk.at = "closeSession" /\ tk' \in Handler /\ tk'.at = "closeQueue"
  BY <1>0, HandlerMoves DEF Here, CloseSession, TkSteps
<1>3. UNCHANGED <<queue, replies, worker, timers>>
  BY DEF CloseSession, shared, world
<1>4. /\ Books' /\ Outside' /\ ui' \in Window
      /\ core' = core
  BY <1>0, ReconnectAssumption, ProxyAssumption
     DEF Here, CloseSession, Books, Outside, Calm, Disturb, shared, world
<1>5. /\ Forgets \/ Remembers
      /\ Closing' /\ ~Closing => Forgets
      /\ cancelled \subseteq cancelled'
  BY <1>0, <1>2
     DEF Here, CloseSession, Forgets, Remembers, Closing, Submitting, shared
<1>6. HandlerStep
  BY <1>0, <1>1, <1>2, <1>3, <1>4, <1>5
     DEF Here, HandlerStep, Submits, Lists, Submitting
<1>7. RevokeInv'
  BY <1>0, <1>1, <1>2, <1>3, <1>4
     DEF Here, RevokeInv, Revoking, Same, Queued, StartSteps, Outside, Rights
<1>8. RunInv'
  BY <1>0, <1>1, <1>2, <1>3, <1>4
     DEF Here, RunInv, RevokeInv, Going, Wanted, Admitted, Closing, SignOutPending,
         Same, Queued,
         StartSteps, Doing, Outside, Rights
<1> QED BY <1>1, <1>6, <1>7, <1>8, HandlerKeeps DEF Same

LEMMA TaskIn ==
  ASSUME NEW kind \in Kinds, NEW id \in Ids
  PROVE  Task(kind, id) \in Tasks /\ Task(kind, id).kind = kind /\ Task(kind, id).id = id
BY DEF Task, Tasks

\* A handler that begins, or that ends, and what it has read of the state.
Begins ==
  /\ tk.at \in {"idle", "observe", "resume"} /\ tk' \in Handler
  /\ tk'.at \in {"idle", "observe", "apply", "resume", "mark", "markBegun", "markFailed"}
  /\ tk'.at = "apply" =>
       /\ tk'.detected => ~state.game /\ tk'.then = "resume"
       /\ tk'.then = "revokeHost" =>
            ~tk'.detected /\ ~state.entitled /\ state.session # None
       /\ tk'.keep => state.suppressed

LEMMA BeginsKeeps ==
  ASSUME SessionInv, Begins, UNCHANGED <<state, worker, core>>,
         Queued("signin")' => Queued("signin"),
         Queued("signout") => Queued("signout")'
  PROVE  RevokeInv' /\ RunInv'
<1>0. Here
  BY Before
<1>1. /\ tk.at \in {"idle", "observe", "resume"}
      /\ tk'.at \in {"idle", "observe", "apply", "resume", "mark", "markBegun", "markFailed"}
      /\ tk'.at = "apply" =>
           /\ tk'.detected => ~state.game /\ tk'.then = "resume"
           /\ tk'.then = "revokeHost" =>
                ~tk'.detected /\ ~state.entitled /\ state.session # None
           /\ tk'.keep => state.suppressed
  BY DEF Begins
<1>2. state.session # None => worker.at # "claim" /\ ~Queued("signin")
  BY <1>0, <1>1 DEF Here, SigningInv, Places
<1>3. RevokeInv'
  BY <1>0, <1>1, <1>2 DEF Here, RevokeInv, Revoking
<1>4. RunInv'
  BY <1>0, <1>1
     DEF Here, RunInv, Going, Wanted, Admitted, Closing, SignOutPending, Doing
<1> QED BY <1>3, <1>4

LEMMA Detection ==
  ASSUME SessionInv, NEW detected \in BOOLEAN, AfterDetection(detected),
         tk.at \in {"idle", "observe"}
  PROVE  Begins /\ ~Submitting /\ ~Submitting' /\ ~Closing' /\ ~Closing
<1>1. state \in AppStates /\ Rights(state)
  BY Before DEF Here
<1> DEFINE then == CASE detected -> "resume"
                     [] ~detected /\ state.session # None /\ ~state.entitled
                        -> "revokeHost"
                     [] ~detected /\ (state.session = None \/ state.entitled)
                        /\ state.status \in ActiveStatuses -> "stopHost"
                     [] OTHER -> "resume"
<1>2. /\ tk' = [TkIdle EXCEPT !.detected = detected,
                  !.at = IF state.game # detected THEN "apply" ELSE "resume",
                  !.keep = state.suppressed, !.then = then]
  BY DEF AfterDetection
<1>3. /\ then \in {"stopHost", "revokeHost", "resume"}
      /\ detected => then = "resume"
      /\ then = "revokeHost" => ~detected /\ ~state.entitled /\ state.session # None
  OBVIOUS
<1> HIDE DEF then
<1>4. /\ tk' \in Handler /\ tk'.detected = detected /\ tk'.then = then
      /\ tk'.keep = state.suppressed
      /\ tk'.at = IF state.game # detected THEN "apply" ELSE "resume"
  BY <1>1, <1>2, <1>3 DEF TkIdle, Handler, Rights, TkSteps
<1>5. tk'.at = "apply" /\ detected => ~state.game
  BY <1>1, <1>4 DEF Rights
<1> QED BY <1>1, <1>3, <1>4, <1>5 DEF Begins, Submitting, Closing, Rights

LEMMA IdleKeeps ==
  ASSUME SessionInv, Begins, HandlerStep, UNCHANGED <<state, core>>
  PROVE  SessionInv'
<1>1. /\ Queued("signin")' => Queued("signin")
      /\ Queued("signout") => Queued("signout")'
  BY SubmitsKeeps DEF HandlerStep, SessionInv
<1>2. RevokeInv' /\ RunInv'
  BY <1>1, BeginsKeeps DEF HandlerStep
<1> QED BY <1>2, HandlerKeeps

\* The timers and the button that only submit a task.
LEMMA SubmitKeeps ==
  ASSUME SessionInv, PollTimer \/ HeartbeatTimer \/ RetryProxy
  PROVE  SessionInv'
<1>0. Here
  BY Before
<1>1. /\ tk.at = "idle" /\ worker' = worker
      /\ UNCHANGED <<shared, tk, replies, timers, core, game, permitted>>
      /\ events' \in 0..MaxEvents
  BY <1>0, ProxyAssumption
     DEF Here, PollTimer, HeartbeatTimer, RetryProxy, world, Disturb, Outside
<1>2. ui' \in Window
  BY <1>0 DEF Here, PollTimer, HeartbeatTimer, RetryProxy, Window
<1>3. PICK kind \in {"poll", "heartbeat", "start"} : Submit(Task(kind, None))
  BY DEF PollTimer, HeartbeatTimer, RetryProxy
<1>4. Submits
  BY <1>1, <1>3, TaskIn DEF Submits, Kinds, Ids
<1>5. HandlerStep
  BY <1>0, <1>1, <1>2, <1>4
     DEF Here, HandlerStep, Books, Lists, Outside, Remembers, Closing, shared
<1>6. Begins
  BY <1>0, <1>1 DEF Here, Begins
<1> QED BY <1>1, <1>5, <1>6, IdleKeeps DEF shared

LEMMA ReplyTaken ==
  ASSUME SessionInv, NEW kind, TakeReply(kind)
  PROVE  /\ tk.at = "idle" /\ Head(replies) \in Replies /\ Head(replies).kind = kind
         /\ replies' \in Seq(Replies)
BY DEF TakeReply, HasReply, SessionInv, TypeOK

LEMMA PollDoneKeeps ==
  ASSUME SessionInv, PollDone
  PROVE  SessionInv'
<1>0. Here
  BY Before
<1> DEFINE r == Head(replies)
<1>1. tk.at = "idle" /\ r \in Replies /\ replies' \in Seq(Replies)
  BY ReplyTaken DEF PollDone
<1>2. /\ UNCHANGED <<shared, worker, queue, timers, world>>
      /\ ui' = [ui EXCEPT !.polling = FALSE, !.bound = r.target]
      /\ Detected(r.value)
  BY DEF PollDone
<1>3. ui' \in Window
  BY <1>0, <1>1, <1>2 DEF Here, Window, Replies
<1>4. Begins /\ (tk' = tk \/ (~Submitting /\ ~Submitting')) /\ ~Closing' /\ ~Closing
  <2>1. CASE tk' = tk
    BY <1>0, <1>1, <2>1 DEF Here, Begins, Submitting, Closing
  <2>2. CASE AfterDetection(r.value = "yes")
    BY <1>1, <2>2, Detection
  <2> QED BY <1>2, <2>1, <2>2 DEF Detected
<1>5. HandlerStep
  BY <1>0, <1>1, <1>2, <1>3, <1>4
     DEF Here, HandlerStep, Books, Lists, Outside, Remembers, Submits, Closing, Begins,
         shared, world
<1> QED BY <1>2, <1>4, <1>5, IdleKeeps DEF shared, world

LEMMA ProbeDoneKeeps ==
  ASSUME SessionInv, ProbeDone
  PROVE  SessionInv'
<1>0. Here
  BY Before
<1> DEFINE r == Head(replies)
           routes == Ready(state) /\ ~ui.routeDone /\ r.value # "unknown"
<1>1. tk.at = "idle" /\ replies' \in Seq(Replies)
  BY ReplyTaken DEF ProbeDone
<1>2. /\ UNCHANGED <<shared, worker, queue, timers, world>>
      /\ \/ UNCHANGED <<ui, tk>>
         \/ /\ ui' = [ui EXCEPT !.routePending = FALSE,
                        !.routeDone = ui.routeDone \/ routes,
                        !.polling = ui.polling /\ ~(routes /\ r.value = "yes")]
            /\ TkTo("observe") \/ UNCHANGED tk
  BY DEF ProbeDone
<1>3. ui' \in Window
  <2>1. /\ (ui.routeDone \/ routes) \in BOOLEAN
        /\ (ui.polling /\ ~(routes /\ r.value = "yes")) \in BOOLEAN
    OBVIOUS
  <2> HIDE DEF routes, r
  <2> QED BY <1>0, <1>2, <2>1 DEF Here, Window
<1>4. tk' \in Handler /\ tk'.at \in {"idle", "observe"} /\ (tk'.at = "idle" => tk' = tk)
  BY <1>0, <1>1, <1>2, HandlerMoves DEF Here, TkSteps
<1>5. Begins
  BY <1>1, <1>4 DEF Begins
<1>6. HandlerStep
  BY <1>0, <1>1, <1>2, <1>3, <1>4
     DEF Here, HandlerStep, Books, Lists, Outside, Remembers, Submits, Closing,
         Submitting,
         shared, world
<1> QED BY <1>2, <1>5, <1>6, IdleKeeps DEF shared, world

LEMMA SignInDoneKeeps ==
  ASSUME SessionInv, SignInDone
  PROVE  SessionInv'
<1>0. Here
  BY Before
<1> DEFINE fresh == IF state.session = ui.routed THEN ui
                    ELSE [ui EXCEPT !.routePending = FALSE, !.routeDone = FALSE,
                            !.bound = None, !.attempted = FALSE,
                            !.routed = state.session]
           routes == Ready(state) /\ ~fresh.routeDone /\ ~fresh.routePending
<1>1. tk.at = "idle" /\ replies' \in Seq(Replies)
  BY ReplyTaken DEF SignInDone
<1>2. /\ UNCHANGED <<shared, worker, timers, world>>
      /\ \/ /\ ui' = [fresh EXCEPT !.routeDone = TRUE, !.polling = FALSE]
            /\ TkTo("observe") /\ UNCHANGED queue
         \/ /\ ui' = [fresh EXCEPT !.routePending = fresh.routePending \/ routes]
            /\ UNCHANGED tk
            /\ Submit(Task("probe", state.session)) \/ UNCHANGED queue
  BY DEF SignInDone
<1>3. fresh \in Window
  BY <1>0 DEF Here, Window, Rights
<1>4. ui' \in Window
  <2>1. (fresh.routePending \/ routes) \in BOOLEAN
    OBVIOUS
  <2> HIDE DEF routes, fresh
  <2> QED BY <1>2, <1>3, <2>1 DEF Window
<1>5. tk' \in Handler /\ tk'.at \in {"idle", "observe"} /\ (tk'.at = "idle" => tk' = tk)
  BY <1>0, <1>1, <1>2, HandlerMoves DEF Here, TkSteps
<1>6. Submits
  <2>1. state.session \in Ids
    BY <1>0 DEF Here, Rights, Ids
  <2>2. CASE Submit(Task("probe", state.session))
    BY <1>1, <2>1, <2>2, TaskIn DEF Submits, Kinds
  <2>3. CASE UNCHANGED queue
    BY <2>3 DEF Submits
  <2> QED BY <1>2, <2>2, <2>3
<1>7. Begins
  BY <1>1, <1>5 DEF Begins
<1>8. HandlerStep
  BY <1>0, <1>1, <1>2, <1>4, <1>5, <1>6
     DEF Here, HandlerStep, Books, Lists, Outside, Remembers, Closing, Submitting,
         shared, world
<1> QED BY <1>2, <1>7, <1>8, IdleKeeps DEF shared, world

LEMMA ObserveKeeps ==
  ASSUME SessionInv, Observe
  PROVE  SessionInv'
<1>0. Here
  BY Before
<1> DEFINE found == game # None /\ (ui.bound = None \/ ui.bound = game)
<1>1. /\ tk.at = "observe"
      /\ UNCHANGED <<shared, worker, queue, replies, timers, core, game, permitted>>
      /\ events' \in 0..MaxEvents
  BY <1>0, ProxyAssumption DEF Here, Observe, Disturb, Calm, Outside
<1>2. \/ tk' = TkIdle /\ UNCHANGED ui
      \/ /\ ui' = [ui EXCEPT !.bound = IF found THEN game ELSE None]
         /\ AfterDetection(found)
  BY DEF Observe
<1>3. ui' \in Window
  BY <1>0, <1>2 DEF Here, Window, Outside
<1>4. Begins /\ ~Submitting /\ ~Submitting' /\ ~Closing' /\ ~Closing
  <2>1. CASE tk' = TkIdle
    BY <1>0, <1>1, <2>1, HandlerMoves DEF Here, Begins, Submitting, Closing
  <2>2. CASE AfterDetection(found)
    BY <1>1, <2>2, Detection
  <2> QED BY <1>2, <2>1, <2>2
<1>5. HandlerStep
  BY <1>0, <1>1, <1>3, <1>4
     DEF Here, HandlerStep, Books, Lists, Outside, Remembers, Submits, Closing,
         Begins, shared
<1> QED BY <1>1, <1>4, <1>5, IdleKeeps DEF shared

LEMMA HealthObserved ==
  ASSUME SessionInv, tk.at = "idle", NEW telemetry \in Telemetry,
         ObserveHealth(telemetry)
  PROVE  ui' \in Window /\ Submits /\ Remembers /\ reconnect' \in Reconnects
<1>0. Here
  BY Before
<1>1. ui' \in Window
  BY <1>0 DEF Here, ObserveHealth, Window
<1>2. Submits
  <2>1. CASE UNCHANGED queue
    BY <2>1 DEF Submits
  <2>2. CASE Submit(Task("health", None))
    BY <2>2, TaskIn DEF Submits, Kinds, Ids
  <2> QED BY <2>1, <2>2 DEF ObserveHealth
<1>3. Remembers /\ reconnect' \in Reconnects
  <2>1. CASE reconnect' = reconnect
    BY <1>0, <2>1 DEF Here, Remembers, Books
  <2>2. CASE reconnect' = ObserveRunning(reconnect) /\ ~Pending(reconnect)
    <3>1. reconnect' = [armed |-> TRUE, blocked |-> FALSE, attempts |-> 0,
                        scheduled |-> None, inFlight |-> None]
      BY <2>2 DEF ObserveRunning, Unarmed
    <3>2. reconnect' \in Reconnects
      BY <3>1, ReconnectAssumption DEF Reconnects
    <3> QED BY <2>2, <3>1, <3>2 DEF Pending, Remembers
  <2> QED BY <2>1, <2>2 DEF ObserveHealth, ObserveRunning
<1> QED BY <1>1, <1>2, <1>3

LEMMA TelemeterKeeps ==
  ASSUME SessionInv, Telemeter
  PROVE  SessionInv'
<1>0. Here
  BY Before
<1>1. /\ tk.at = "idle" /\ events' \in 0..MaxEvents
      /\ UNCHANGED <<state, cancelled, active, tk, worker, replies, timers, core,
                     game, permitted>>
  BY <1>0, ProxyAssumption DEF Here, Telemeter, Calm, Disturb, Outside
<1>2. PICK telemetry \in Telemetry : ObserveHealth(telemetry)
  BY DEF Telemeter, Telemetry
<1>3. ui' \in Window /\ Submits /\ Remembers /\ reconnect' \in Reconnects
  BY <1>1, <1>2, HealthObserved
<1>4. HandlerStep
  BY <1>0, <1>1, <1>3 DEF Here, HandlerStep, Books, Lists, Outside, Closing
<1>5. Begins
  BY <1>0, <1>1 DEF Here, Begins
<1> QED BY <1>1, <1>4, <1>5, IdleKeeps

LEMMA ReconnectDoneKeeps ==
  ASSUME SessionInv, ReconnectDone
  PROVE  SessionInv'
<1>0. Here
  BY Before
<1>1. tk.at = "idle" /\ replies' \in Seq(Replies)
  BY ReplyTaken DEF ReconnectDone
<1>2. UNCHANGED <<state, cancelled, active, worker, timers, world>>
  BY DEF ReconnectDone
<1>3. /\ ui' \in Window /\ Submits /\ Remembers /\ reconnect' \in Reconnects
      /\ TkTo("markFailed") \/ UNCHANGED tk
  <2>1. CASE ObserveHealth(ui.telemetry) /\ UNCHANGED tk
    BY <1>0, <1>1, <2>1, HealthObserved DEF Here, Window
  <2>2. CASE /\ UNCHANGED <<reconnect, queue, ui>>
             /\ TkTo("markFailed") \/ UNCHANGED tk
    BY <1>0, <2>2 DEF Here, Submits, Remembers, Books
  <2> QED BY <2>1, <2>2 DEF ReconnectDone
<1>4. tk' \in Handler /\ tk'.at \in {"idle", "markFailed"} /\ (tk'.at = "idle" => tk' = tk)
  BY <1>0, <1>1, <1>3, HandlerMoves DEF Here, TkSteps
<1>5. Begins
  BY <1>1, <1>4 DEF Begins
<1>6. HandlerStep
  BY <1>0, <1>1, <1>2, <1>3, <1>4
     DEF Here, HandlerStep, Books, Lists, Outside, Closing, Submitting, world
<1> QED BY <1>2, <1>5, <1>6, IdleKeeps DEF world

LEMMA ResumeKeeps ==
  ASSUME SessionInv, Resume
  PROVE  SessionInv'
<1>0. Here
  BY Before
<1>1. /\ tk.at = "resume" /\ tk' = TkIdle
      /\ UNCHANGED <<state, active, worker, replies, timers, world>>
  BY DEF Resume
<1>2. tk' \in Handler /\ tk'.at = "idle"
  BY <1>0, <1>1, HandlerMoves DEF Here
<1> DEFINE done == ui.routeDone \/ Ready(state)
           routed == [ui EXCEPT !.routeDone = done]
<1>3. \/ /\ CancelReconnect /\ UNCHANGED queue
         /\ ui' = [routed EXCEPT !.attempted = FALSE]
      \/ /\ Submit(Task("start", None)) /\ UNCHANGED <<reconnect, cancelled>>
         /\ ui' = [routed EXCEPT !.attempted = TRUE]
      \/ UNCHANGED <<queue, reconnect, cancelled>> /\ ui' = routed
  BY Zenon DEF Resume
<1>4. ui' \in Window
  <2>1. done \in BOOLEAN
    OBVIOUS
  <2> HIDE DEF done
  <2>2. routed \in Window
    BY <1>0, <2>1 DEF Here, Window
  <2> HIDE DEF routed
  <2> QED BY <1>3, <2>2 DEF Window
<1> HIDE DEF routed
<1>5. /\ Forgets \/ Remembers
      /\ cancelled \subseteq cancelled' /\ cancelled' \subseteq Attempts
      /\ reconnect' \in Reconnects
  <2>1. CASE CancelReconnect
    BY <1>0, <1>1, <2>1, ReconnectAssumption
       DEF Here, CancelReconnect, Cancelled, Unarmed, Forgets, Submitting, Books,
           Reconnects
  <2>2. CASE UNCHANGED <<reconnect, cancelled>>
    BY <1>0, <2>2 DEF Here, Remembers, Books
  <2> QED BY <1>3, <2>1, <2>2
<1>6. Submits
  <2>1. CASE Submit(Task("start", None))
    BY <1>1, <2>1, TaskIn DEF Submits, Kinds, Ids
  <2>2. CASE UNCHANGED queue
    BY <2>2 DEF Submits
  <2> QED BY <1>3, <2>1, <2>2
<1>7. Begins
  BY <1>1, <1>2 DEF Begins
<1>8. HandlerStep
  BY <1>0, <1>1, <1>2, <1>4, <1>5, <1>6
     DEF Here, HandlerStep, Books, Lists, Outside, Closing, Submitting, world
<1> QED BY <1>1, <1>7, <1>8, IdleKeeps DEF world

LEMMA SignOutKeeps ==
  ASSUME SessionInv, SignOut
  PROVE  SessionInv'
<1>0. Here
  BY Before
<1>1. /\ tk.at = "idle" /\ UNCHANGED <<active, tk, worker, replies, timers, ui, core,
                                      game, permitted>>
      /\ Submit(Task("signout", None)) /\ events' \in 0..MaxEvents
  BY <1>0, ProxyAssumption DEF Here, SignOut, Disturb, Outside
<1>2. state' \in AppStates /\ Same(state, state')
  BY <1>0 DEF Here, SignOut, Publish, AppStates, Same
<1>3. /\ Forgets
      /\ cancelled \subseteq cancelled' /\ cancelled' \subseteq Attempts
      /\ reconnect' \in Reconnects
  BY <1>0, <1>1, ReconnectAssumption
     DEF Here, SignOut, Cancelled, Unarmed, Forgets, Submitting, Books, Reconnects
<1>4. Task("signout", None) \in Tasks /\ Task("signout", None).kind = "signout"
  BY TaskIn DEF Kinds, Ids
<1>5. /\ Submits /\ Queued("signout")'
      /\ Queued("signin")' => Queued("signin")
  BY <1>0, <1>1, <1>4, Added DEF Here, Submits, Lists
<1>6. HandlerStep
  BY <1>0, <1>1, <1>2, <1>3, <1>5
     DEF Here, HandlerStep, Books, Lists, Outside, Closing, Submitting
<1>7. RevokeInv'
  BY <1>0, <1>1, <1>2, <1>5 DEF Here, RevokeInv, Revoking
<1>8. RunInv'
  BY <1>0, <1>1, <1>2, <1>5
     DEF Here, RunInv, Going, Wanted, Admitted, Closing, SignOutPending, Doing, Same
<1> QED BY <1>2, <1>6, <1>7, <1>8, HandlerKeeps DEF Same

LEMMA SignInKeeps ==
  ASSUME SessionInv, SignIn
  PROVE  SessionInv'
<1>0. Here
  BY Before
<1>1. /\ tk.at = "idle" /\ UNCHANGED <<shared, tk, worker, replies, timers, ui, core,
                                      game, permitted>>
      /\ Submit(Task("signin", None)) /\ events' \in 0..MaxEvents
      /\ ~state.signedIn /\ ~Queued("signin") /\ ~Doing("signin")
  BY <1>0, ProxyAssumption DEF Here, SignIn, Disturb, Outside, Places
<1>2. Task("signin", None) \in Tasks /\ Task("signin", None).kind = "signin"
  BY TaskIn DEF Kinds, Ids
<1>3. /\ queue' \in Seq(Tasks) /\ Len(queue) \in Nat /\ Len(queue') = Len(queue) + 1
      /\ \A i \in 1..Len(queue) : queue'[i] = queue[i]
      /\ \A kind : Queued(kind)' <=> (Queued(kind) \/ kind = "signin")
  BY <1>0, <1>1, <1>2, Added DEF Here, Lists
<1>4. Elsewhere
  BY <1>1, <1>2 DEF Elsewhere, Remembers, Closing, Submitting, shared
<1>5. AttemptInv'
  BY <1>4, AttemptsKept DEF SessionInv
<1>6. TypeOK'
  BY <1>0, <1>1, <1>3, TypePartsNext DEF Here, Books, Lists, Outside, shared
<1>7. UNCHANGED <<state, tk, worker, core>>
  BY <1>1 DEF shared
<1>8. Places'
  BY <1>0, <1>7 DEF Here, Places, Doing
<1>9. SigningInv'
  <2>1. ASSUME NEW i \in 1..Len(queue'), queue'[i].kind = "signin"
        PROVE  i = Len(queue) + 1
    <3>1. i \notin 1..Len(queue)
      BY <1>1, <1>3, <2>1 DEF Queued
    <3> QED BY <1>3, <2>1, <3>1
  <2> QED BY <1>0, <1>1, <1>7, <2>1 DEF Here, SigningInv, Doing
<1>10. RevokeInv'
  BY <1>0, <1>1, <1>7 DEF Here, RevokeInv, Revoking
<1>11. RunInv'
  BY <1>0, <1>1, <1>3, <1>7
     DEF Here, RunInv, Going, Wanted, Admitted, Closing, SignOutPending, Doing
<1> QED BY <1>5, <1>6, <1>8, <1>9, <1>10, <1>11 DEF SessionInv, RightInv

(***************************************************************************)
(* The steps that make an attempt, move it or drop it.                     *)
(***************************************************************************)
LEMMA Reconnecting ==
  ASSUME NEW r \in Reconnects, NEW a \in Attempts
  PROVE  /\ r.scheduled \in Attempts \cup {None} /\ r.inFlight \in Attempts \cup {None}
         /\ Begun(r, a) \in Reconnects
         /\ Begun(r, a).scheduled = None /\ Begun(r, a).inFlight = a
         /\ Unscheduled(r) \in Reconnects
         /\ Unscheduled(r).scheduled = None /\ Unscheduled(r).inFlight = r.inFlight
         /\ r.attempts < MaxAttempts =>
              /\ Requested(r, a) \in Reconnects
              /\ Requested(r, a).scheduled = a /\ Requested(r, a).inFlight = r.inFlight
<1>1. r.scheduled \in Attempts \cup {None} /\ r.inFlight \in Attempts \cup {None}
  BY DEF Reconnects
<1>2. /\ Begun(r, a) \in Reconnects
      /\ Begun(r, a).scheduled = None /\ Begun(r, a).inFlight = a
  BY DEF Reconnects, Begun
<1>3. /\ Unscheduled(r) \in Reconnects
      /\ Unscheduled(r).scheduled = None /\ Unscheduled(r).inFlight = r.inFlight
  BY DEF Reconnects, Unscheduled
<1>4. ASSUME r.attempts < MaxAttempts
      PROVE  /\ Requested(r, a) \in Reconnects
             /\ Requested(r, a).scheduled = a /\ Requested(r, a).inFlight = r.inFlight
  <2>1. r.attempts + 1 \in 0..MaxAttempts
    BY <1>4, ReconnectAssumption DEF Reconnects
  <2>2. Requested(r, a) = [r EXCEPT !.attempts = r.attempts + 1, !.scheduled = a]
    BY DEF Requested, Reconnects
  <2> DEFINE n == r.attempts + 1
  <2>3. n \in 0..MaxAttempts /\ Requested(r, a) = [r EXCEPT !.attempts = n, !.scheduled = a]
    BY <2>1, <2>2
  <2> HIDE DEF n
  <2> QED BY <2>3 DEF Reconnects
<1> QED BY <1>1, <1>2, <1>3, <1>4

LEMMA ReconnectTimerKeeps ==
  ASSUME SessionInv, ReconnectTimer
  PROVE  SessionInv'
<1>0. Here
  BY Before
<1>1. /\ tk.at = "idle" /\ AttemptInv
      /\ UNCHANGED <<state, cancelled, active, worker, queue, replies, ui, world>>
  BY DEF ReconnectTimer, SessionInv
<1>2. PICK a \in timers :
        /\ timers' = timers \ {a}
        /\ \/ reconnect.scheduled # a /\ UNCHANGED <<reconnect, tk>>
           \/ /\ reconnect.scheduled = a /\ reconnect' = Unscheduled(reconnect)
              /\ UNCHANGED tk
           \/ /\ reconnect.scheduled = a /\ reconnect' = Begun(reconnect, a)
              /\ tk' = [TkIdle EXCEPT !.at = "markBegun", !.attempt = a]
  BY Zenon DEF ReconnectTimer
<1>3. a \in Attempts /\ a # None /\ reconnect \in Reconnects
  BY <1>0, ReconnectAssumption DEF Here, Books
<1>4. reconnect.scheduled = a => reconnect.inFlight = None
  BY <1>1, <1>3 DEF AttemptInv, Flying
<1>5. /\ reconnect' \in Reconnects
      /\ \/ /\ reconnect.scheduled # a
            /\ reconnect'.scheduled = reconnect.scheduled
            /\ reconnect'.inFlight = reconnect.inFlight /\ tk' = tk
         \/ /\ reconnect.inFlight = None /\ reconnect'.inFlight = None
            /\ reconnect'.scheduled = None /\ tk' = tk
         \/ /\ reconnect.inFlight = None /\ reconnect'.inFlight = a
            /\ reconnect'.scheduled = None
            /\ tk'.at = "markBegun" /\ tk'.attempt = a
      /\ tk' \in Handler
  <2> DEFINE begun == [TkIdle EXCEPT !.at = "markBegun", !.attempt = a]
  <2>1. begun \in Handler /\ begun.at = "markBegun" /\ begun.attempt = a
    BY <1>3 DEF Handler, TkIdle, TkSteps
  <2>2. \/ reconnect.scheduled # a /\ UNCHANGED <<reconnect, tk>>
        \/ /\ reconnect.scheduled = a /\ reconnect' = Unscheduled(reconnect)
           /\ UNCHANGED tk
        \/ /\ reconnect.scheduled = a /\ reconnect' = Begun(reconnect, a)
           /\ tk' = begun
    BY <1>2
  <2> HIDE DEF begun
  <2> QED BY <1>0, <1>3, <1>4, <2>1, <2>2, Reconnecting DEF Here
<1>6. ~Submitting /\ ~Closing /\ ~Closing' /\ (Doing("reconnect")' <=> Doing("reconnect"))
  BY <1>1, <1>5 DEF Submitting, Closing, Doing
<1>7. NoOrphan'
  BY <1>1, <1>2, <1>3, <1>5 DEF AttemptInv, NoOrphan
<1>8. Placed'
  <2>1. Submitting' => tk'.attempt = a
    BY <1>1, <1>5 DEF Submitting
  <2>2. ASSUME NEW i \in 1..Len(queue), queue[i].kind = "reconnect"
        PROVE  /\ queue[i].id \in Attempts \ timers'
               /\ Doing("reconnect") => queue[i].id # worker.task.id
               /\ queue[i].id # a
               /\ \A j \in 1..Len(queue) :
                    queue[j].kind = "reconnect" /\ queue[j].id = queue[i].id => i = j
    BY <1>1, <1>2, <2>2 DEF AttemptInv, Placed
  <2>3. Doing("reconnect") => worker.task.id \in Attempts \ timers' /\ worker.task.id # a
    BY <1>1, <1>2 DEF AttemptInv, Placed
  <2> QED BY <1>1, <1>2, <1>3, <1>6, <2>1, <2>2, <2>3 DEF Placed
<1>9. Flying'
  <2>1. ASSUME NEW i \in 1..Len(queue), queue[i].kind = "reconnect",
               queue[i].id \notin cancelled
        PROVE  queue[i].id = reconnect'.inFlight
    <3>1. queue[i].id = reconnect.inFlight /\ queue[i].id # None
      BY <1>1, <2>1, ReconnectAssumption DEF AttemptInv, Flying, Placed
    <3> QED BY <1>5, <3>1
  <2>2. ASSUME Doing("reconnect"), worker.task.id \notin cancelled
        PROVE  worker.task.id = reconnect'.inFlight
    <3>1. worker.task.id = reconnect.inFlight /\ worker.task.id # None
      BY <1>1, <2>2, ReconnectAssumption DEF AttemptInv, Flying, Placed
    <3> QED BY <1>5, <3>1
  <2>3. Submitting' => tk'.attempt = reconnect'.inFlight
    BY <1>1, <1>5 DEF Submitting
  <2>4. reconnect'.scheduled = None \/ reconnect'.inFlight = None
    BY <1>1, <1>5 DEF AttemptInv, Flying
  <2> QED BY <1>1, <1>6, <2>1, <2>2, <2>3, <2>4 DEF Flying
<1>10. Emptied'
  BY <1>6 DEF Emptied, Closing
<1>11. TypeOK'
  BY <1>0, <1>1, <1>2, <1>5, TypePartsNext DEF Here, Books, Lists, Outside, world
<1>12. Begins
  BY <1>1, <1>5 DEF Begins
<1>13. RevokeInv' /\ RunInv'
  BY <1>1, <1>12, BeginsKeeps DEF Queued, world
<1>14. Places' /\ SigningInv'
  BY <1>0, <1>1, <1>5 DEF Here, Places, SigningInv, Queued, Doing
<1> QED BY <1>7, <1>8, <1>9, <1>10, <1>11, <1>13, <1>14
        DEF SessionInv, AttemptInv, RightInv

LEMMA MarkBegunKeeps ==
  ASSUME SessionInv, MarkBegun
  PROVE  SessionInv'
<1>0. Here
  BY Before
<1>1. /\ Submitting /\ AttemptInv /\ Submit(Task("reconnect", tk.attempt))
      /\ tk' = TkIdle /\ tk' \in Handler /\ tk'.at = "idle"
      /\ UNCHANGED <<reconnect, cancelled, active, worker, replies, timers, ui, world>>
  BY <1>0, HandlerMoves DEF Here, MarkBegun, SessionInv, Submitting
<1>2. /\ state' \in AppStates /\ Same(state, state')
      /\ state'.suppressed = state.suppressed
  BY <1>0 DEF Here, MarkBegun, Publish, AppStates, Same, Statuses
<1> DEFINE a == tk.attempt
           n == Len(queue) + 1
<1>3. /\ a \in Attempts \ timers /\ a = reconnect.inFlight
      /\ Doing("reconnect") => worker.task.id # a
      /\ \A i \in 1..Len(queue) : queue[i].kind = "reconnect" => queue[i].id # a
  BY <1>1 DEF AttemptInv, Placed, Flying
<1>4. /\ Task("reconnect", a) \in Tasks /\ Task("reconnect", a).kind = "reconnect"
      /\ Task("reconnect", a).id = a
  BY <1>3, TaskIn DEF Kinds, Ids
<1>5. /\ queue' \in Seq(Tasks)
      /\ Len(queue) \in Nat /\ Len(queue') = n
      /\ \A i \in 1..Len(queue) : queue'[i] = queue[i]
      /\ queue'[n] = Task("reconnect", a)
      /\ \A kind : Queued(kind)' <=> (Queued(kind) \/ kind = "reconnect")
  BY <1>0, <1>1, <1>4, Added DEF Here, Lists
<1>6. \A i \in 1..Len(queue') : i \in 1..Len(queue) \/ i = n
  BY <1>5
<1> HIDE DEF a, n
<1>7. ~Submitting' /\ ~Closing' /\ (Doing("reconnect")' <=> Doing("reconnect"))
  BY <1>1 DEF Submitting, Closing, Doing
<1>8. NoOrphan'
  <2>1. n \in 1..Len(queue') /\ queue'[n] = Task("reconnect", reconnect'.inFlight)
    BY <1>1, <1>3, <1>5 DEF n
  <2> QED BY <1>1, <2>1 DEF AttemptInv, NoOrphan
<1>9. Placed'
  <2>1. ASSUME NEW i \in 1..Len(queue'), queue'[i].kind = "reconnect"
        PROVE  /\ queue'[i].id \in Attempts \ timers
               /\ Doing("reconnect") => queue'[i].id # worker.task.id
    <3>1. CASE i \in 1..Len(queue)
      BY <1>1, <1>5, <2>1, <3>1 DEF AttemptInv, Placed
    <3>2. CASE i = n
      BY <1>3, <1>4, <1>5, <3>2
    <3> QED BY <1>6, <3>1, <3>2
  <2>2. ASSUME NEW i \in 1..Len(queue'), queue'[i].kind = "reconnect",
               NEW j \in 1..Len(queue'), queue'[j].kind = "reconnect",
               queue'[j].id = queue'[i].id
        PROVE  i = j
    <3>1. CASE i \in 1..Len(queue) /\ j \in 1..Len(queue)
      BY <1>1, <1>5, <2>2, <3>1 DEF AttemptInv, Placed
    <3>2. CASE i \in 1..Len(queue) /\ j = n
      BY <1>3, <1>4, <1>5, <2>2, <3>2
    <3>3. CASE i = n /\ j \in 1..Len(queue)
      BY <1>3, <1>4, <1>5, <2>2, <3>3
    <3> QED BY <1>6, <3>1, <3>2, <3>3
  <2>3. Doing("reconnect") => worker.task.id \in Attempts \ timers
    BY <1>1 DEF AttemptInv, Placed
  <2> QED BY <1>1, <1>7, <2>1, <2>2, <2>3 DEF Placed
<1>10. Flying'
  <2>1. ASSUME NEW i \in 1..Len(queue'), queue'[i].kind = "reconnect",
               queue'[i].id \notin cancelled
        PROVE  queue'[i].id = reconnect.inFlight
    <3>1. CASE i \in 1..Len(queue)
      BY <1>1, <1>5, <2>1, <3>1 DEF AttemptInv, Flying
    <3>2. CASE i = n
      BY <1>3, <1>4, <1>5, <3>2
    <3> QED BY <1>6, <3>1, <3>2
  <2> QED BY <1>1, <1>7, <2>1 DEF AttemptInv, Flying
<1>11. Emptied'
  BY <1>7 DEF Emptied, Closing
<1>12. TypeOK'
  BY <1>0, <1>1, <1>2, <1>5, TypePartsNext DEF Here, Books, Lists, Outside, world
<1>13. Places'
  BY <1>0, <1>1 DEF Here, Places, Doing
<1>14. SigningInv'
  <2>1. ASSUME NEW i \in 1..Len(queue'), queue'[i].kind = "signin"
        PROVE  i \in 1..Len(queue) /\ queue[i].kind = "signin"
    <3>1. i # n
      BY <1>4, <1>5, <2>1
    <3> QED BY <1>5, <1>6, <2>1, <3>1
  <2>2. tk.at # "closed"
    BY <1>1 DEF Submitting
  <2> QED BY <1>0, <1>1, <1>2, <1>5, <2>1, <2>2 DEF Here, SigningInv, Doing, Same
<1>15. RevokeInv'
  BY <1>0, <1>1, <1>2 DEF Here, RevokeInv, Revoking, world
<1>16. RunInv'
  BY <1>0, <1>1, <1>2, <1>5
     DEF Here, RunInv, Going, Wanted, Admitted, Closing, SignOutPending, Doing, Same,
         Submitting, world
<1> QED BY <1>8, <1>9, <1>10, <1>11, <1>12, <1>13, <1>14, <1>15, <1>16
        DEF SessionInv, AttemptInv, RightInv

LEMMA HealthDoneKeeps ==
  ASSUME SessionInv, HealthDone
  PROVE  SessionInv'
<1>0. Here
  BY Before
<1> DEFINE r == Head(replies)
           polls == ui.polling /\ r.value # "no"
<1>1. tk.at = "idle" /\ r \in Replies /\ replies' \in Seq(Replies) /\ AttemptInv
  BY ReplyTaken DEF HealthDone, SessionInv
<1>2. UNCHANGED <<state, cancelled, active, worker, queue, world>>
  BY DEF HealthDone
<1>3. ui' \in Window
  <2>1. ui' = [ui EXCEPT !.probing = FALSE, !.bound = r.target, !.polling = polls]
    BY Zenon DEF HealthDone
  <2>2. polls \in BOOLEAN /\ r.target \in Targets \cup {None}
    BY <1>1 DEF Replies
  <2> HIDE DEF polls, r
  <2> QED BY <1>0, <2>1, <2>2 DEF Here, Window
<1>4. UNCHANGED <<queue, worker, state, core, cancelled, active>>
  BY <1>2 DEF world
<1>5. CASE r.value = "yes" /\ CanRequest(reconnect, state)
  <2>1. PICK a \in Attempts \ Held :
          /\ reconnect' = Requested(reconnect, a)
          /\ timers' = timers \cup {a}
          /\ tk' = [TkIdle EXCEPT !.at = "mark"]
    BY <1>5, Zenon DEF HealthDone
  <2>2. /\ reconnect.scheduled = None /\ reconnect.inFlight = None
        /\ reconnect' \in Reconnects
        /\ reconnect'.scheduled = a /\ reconnect'.inFlight = None
    BY <1>0, <1>5, <2>1, Reconnecting DEF Here, CanRequest, Pending, Books
  <2>3. tk' \in Handler /\ tk'.at = "mark"
    BY <2>1 DEF TkIdle, Handler, TkSteps
  <2>4. /\ a \in Attempts /\ a # None
        /\ Doing("reconnect") => worker.task.id # a
        /\ \A i \in 1..Len(queue) : queue[i].id # a
    BY <2>1, ReconnectAssumption DEF Held, Doing
  <2>5. /\ ~Submitting /\ ~Submitting' /\ ~Closing /\ ~Closing'
        /\ Doing("reconnect")' <=> Doing("reconnect")
    BY <1>1, <1>4, <2>3 DEF Submitting, Closing, Doing
  <2>6. NoOrphan'
    BY <2>1, <2>2 DEF NoOrphan
  <2>7. Placed'
    <3>1. \A i \in 1..Len(queue) : queue[i].kind = "reconnect" =>
            queue[i].id \in Attempts \ timers'
      BY <1>1, <2>1, <2>4 DEF AttemptInv, Placed
    <3>2. Doing("reconnect") => worker.task.id \in Attempts \ timers'
      BY <1>1, <2>1, <2>4 DEF AttemptInv, Placed
    <3> QED BY <1>1, <1>4, <2>5, <3>1, <3>2 DEF AttemptInv, Placed
  <2>8. Flying'
    BY <1>1, <1>4, <2>2, <2>5 DEF AttemptInv, Flying
  <2>9. Emptied'
    BY <2>5 DEF Emptied, Closing
  <2>10. TypeOK'
    BY <1>0, <1>1, <1>2, <1>3, <2>1, <2>2, <2>3, TypePartsNext
       DEF Here, Books, Lists, Outside, world
  <2>11. Begins
    BY <1>1, <2>3 DEF Begins
  <2>12. RevokeInv' /\ RunInv'
    BY <1>4, <2>11, BeginsKeeps DEF Queued
  <2>13. Places' /\ SigningInv'
    BY <1>0, <1>1, <1>4, <2>3 DEF Here, Places, SigningInv, Queued, Doing
  <2> QED BY <2>6, <2>7, <2>8, <2>9, <2>10, <2>12, <2>13
          DEF SessionInv, AttemptInv, RightInv
<1>6. CASE ~(r.value = "yes" /\ CanRequest(reconnect, state))
  <2>1. /\ UNCHANGED <<reconnect, timers>>
        /\ tk' = tk \/ AfterDetection(r.value = "yes")
    BY <1>6 DEF HealthDone, Detected
  <2>2. Begins /\ (tk' = tk \/ (~Submitting /\ ~Submitting')) /\ ~Closing' /\ ~Closing
    <3>1. CASE tk' = tk
      BY <1>0, <1>1, <3>1 DEF Here, Begins, Submitting, Closing
    <3>2. CASE AfterDetection(r.value = "yes")
      BY <1>1, <3>2, Detection
    <3> QED BY <2>1, <3>1, <3>2
  <2>3. HandlerStep
    BY <1>0, <1>1, <1>2, <1>3, <2>1, <2>2
       DEF Here, HandlerStep, Books, Lists, Outside, Remembers, Submits, Closing,
           Begins, world
  <2> QED BY <1>4, <2>2, <2>3, IdleKeeps
<1> QED BY <1>5, <1>6

\* Closing drops what is queued, and then what the worker does.
LEMMA CloseQueueKeeps ==
  ASSUME SessionInv, CloseQueue
  PROVE  SessionInv'
<1>0. Here
  BY Before
<1>1. /\ tk.at = "closeQueue" /\ AttemptInv /\ queue' = <<>> /\ timers' = {}
      /\ tk' \in Handler /\ tk'.at = "exit"
      /\ UNCHANGED <<shared, worker, replies, ui, world>>
  BY <1>0, HandlerMoves DEF Here, CloseQueue, SessionInv, TkSteps
<1>2. UNCHANGED <<state, worker, core, reconnect, cancelled>>
  BY <1>1 DEF shared, world
<1>3. /\ ~Submitting /\ ~Submitting' /\ Closing /\ Closing'
      /\ Doing("reconnect")' <=> Doing("reconnect")
  BY <1>1, <1>2 DEF Submitting, Closing, Doing
<1>4. ~Pending(reconnect)
  BY <1>1, <1>3 DEF AttemptInv, Emptied
<1>5. /\ queue' \in Seq(Tasks) /\ Len(queue') = 0
      /\ \A i \in 1..Len(queue') : FALSE
      /\ \A kind : ~Queued(kind)'
  BY <1>1 DEF Queued
<1>6. NoOrphan'
  BY <1>2, <1>4 DEF NoOrphan, Pending
<1>7. Placed'
  BY <1>1, <1>2, <1>3, <1>5 DEF AttemptInv, Placed
<1>8. Flying'
  BY <1>1, <1>2, <1>3, <1>5 DEF AttemptInv, Flying
<1>9. Emptied'
  BY <1>1, <1>2, <1>4 DEF Emptied
<1>10. TypeOK'
  BY <1>0, <1>1, <1>5, TypePartsNext DEF Here, Books, Lists, Outside, shared, world
<1>11. Places' /\ SigningInv'
  BY <1>0, <1>1, <1>2, <1>5 DEF Here, Places, SigningInv, Doing
<1>12. RevokeInv' /\ RunInv'
  BY <1>0, <1>1, <1>2, <1>3 DEF Here, RevokeInv, Revoking, RunInv
<1> QED BY <1>6, <1>7, <1>8, <1>9, <1>10, <1>11, <1>12
        DEF SessionInv, AttemptInv, RightInv

LEMMA ExitKeeps ==
  ASSUME SessionInv, Exit
  PROVE  SessionInv'
<1>0. Here
  BY Before
<1>1. /\ tk.at = "exit" /\ AttemptInv /\ worker' = WorkerIdle /\ core' = "absent"
      /\ tk' \in Handler /\ tk'.at = "closed" /\ replies' = <<>>
      /\ UNCHANGED <<shared, queue, timers, ui, game, permitted, events>>
  BY <1>0, HandlerMoves DEF Here, Exit, SessionInv, TkSteps
<1>2. /\ UNCHANGED <<state, reconnect, cancelled>> /\ queue' = <<>>
      /\ ~Pending(reconnect)
  BY <1>1 DEF shared, AttemptInv, Emptied, Closing
<1>3. worker' \in Work /\ worker'.at = "idle" /\ worker'.task = None
  BY <1>1 DEF WorkerIdle, Work, WorkerSteps, Fates
<1>4. /\ ~Submitting' /\ Closing' /\ \A kind : ~Doing(kind)'
  BY <1>1, <1>3 DEF Submitting, Closing, Doing
<1>5. /\ queue' \in Seq(Tasks) /\ Len(queue') = 0
      /\ \A i \in 1..Len(queue') : FALSE
      /\ \A kind : ~Queued(kind)'
  BY <1>2 DEF Queued
<1>6. NoOrphan'
  BY <1>2 DEF NoOrphan, Pending
<1>7. Placed' /\ Emptied'
  BY <1>2, <1>4, <1>5 DEF Placed, Emptied
<1>8. Flying'
  BY <1>1, <1>2, <1>4, <1>5 DEF AttemptInv, Flying
<1>9. TypeOK'
  BY <1>0, <1>1, <1>3, <1>5, TypePartsNext DEF Here, Books, Lists, Outside, shared
<1>10. Places'
  BY <1>3, <1>4 DEF Places, StartSteps
<1>11. SigningInv'
  BY <1>1, <1>4, <1>5 DEF SigningInv
<1>12. RevokeInv' /\ RunInv'
  BY <1>1, <1>3, <1>4 DEF RevokeInv, Revoking, RunInv, StartSteps
<1> QED BY <1>6, <1>7, <1>8, <1>9, <1>10, <1>11, <1>12
        DEF SessionInv, AttemptInv, RightInv

(***************************************************************************)
(* The world outside.                                                      *)
(***************************************************************************)
LEMMA WorldKeeps ==
  ASSUME SessionInv, World
  PROVE  SessionInv'
<1>0. Here
  BY Before
<1>1. /\ UNCHANGED <<reconnect, cancelled, active, threads, permitted>>
      /\ game' \in Targets \cup {None} /\ events' \in 0..MaxEvents
      /\ core' \in {"absent", core}
  BY <1>0, ProxyAssumption
     DEF Here, World, GameStarts, GameExits, CoreCrashes, LicenseExpires, Disturb,
         Outside,
         shared
<1>2. /\ state' \in AppStates /\ state'.session = state.session
      /\ state'.signedIn = state.signedIn /\ state'.suppressed = state.suppressed
      /\ state'.game = state.game /\ (state'.entitled => state.entitled)
  <2>1. CASE UNCHANGED state
    BY <1>0, <2>1 DEF Here
  <2>2. CASE LicenseExpires
    BY <1>0, <2>2 DEF Here, LicenseExpires, Publish, AppStates
  <2> QED BY <2>1, <2>2 DEF World, GameStarts, GameExits, CoreCrashes, shared
<1>3. UNCHANGED <<tk, worker, queue, replies, timers, ui>>
  BY <1>1 DEF threads
<1>4. TypeOK'
  BY <1>0, <1>1, <1>2, <1>3, TypePartsNext DEF Here, Books, Lists, Outside
<1>5. Elsewhere
  BY <1>1, <1>3 DEF Elsewhere, Remembers, Closing
<1>6. AttemptInv'
  BY <1>5, AttemptsKept DEF SessionInv
<1>7. Places' /\ SigningInv'
  BY <1>0, <1>2, <1>3 DEF Here, Places, SigningInv, Queued, Doing
<1>8. RevokeInv'
  BY <1>0, <1>1, <1>2, <1>3 DEF Here, RevokeInv, Revoking, Queued
<1>9. RunInv'
  BY <1>0, <1>1, <1>2, <1>3
     DEF Here, RunInv, Going, Wanted, Admitted, Closing, SignOutPending, Queued, Doing
<1> QED BY <1>4, <1>6, <1>7, <1>8, <1>9 DEF SessionInv, RightInv

(***************************************************************************)
(* Theorems.                                                               *)
(***************************************************************************)
LEMMA Initially ==
  ASSUME Init
  PROVE  SessionInv
<1>1. /\ state \in AppStates
      /\ state.session = None /\ ~state.signedIn /\ ~state.suppressed
  BY DEF Init, AppStates, Statuses
<1>2. tk \in Handler /\ tk.at = "idle"
  BY HandlerMoves DEF Init, TkIdle, Handler, TkSteps
<1>3. worker \in Work /\ worker.at = "idle" /\ worker.task = None
  BY DEF Init, WorkerIdle, Work, WorkerSteps, Fates
<1>4. ui \in Window
  BY DEF Init, Window, Telemetry
<1>5. /\ reconnect \in Reconnects
      /\ reconnect.scheduled = None /\ reconnect.inFlight = None
  BY ReconnectAssumption DEF Init, Unarmed, Reconnects
<1>6. Books /\ Lists /\ Outside
  <2>1. Books
    BY <1>5 DEF Init, Books
  <2>2. Lists
    BY DEF Init, Lists
  <2>3. Outside
    <3>1. events \in 0..MaxEvents
      BY ProxyAssumption DEF Init
    <3>2. /\ core \in {"absent", "idle", "running"} /\ game \in Targets \cup {None}
          /\ permitted \in BOOLEAN
      BY DEF Init
    <3> QED BY <3>1, <3>2 DEF Outside
  <2> QED BY <2>1, <2>2, <2>3
<1>7. TypeOK
  BY <1>1, <1>2, <1>3, <1>4, <1>6, TypeParts
<1>8. queue = <<>> /\ (\A kind : ~Queued(kind)) /\ core = "absent"
  BY DEF Init, Queued
<1>9. /\ ~Submitting /\ ~Closing /\ \A kind : ~Doing(kind)
  BY <1>2, <1>3 DEF Submitting, Closing, Doing
<1>10. AttemptInv
  BY <1>2, <1>5, <1>8, <1>9 DEF AttemptInv, NoOrphan, Placed, Flying, Emptied
<1>11. RightInv
  BY <1>1, <1>2, <1>3, <1>8, <1>9
     DEF RightInv, Places, SigningInv, RevokeInv, Revoking, RunInv, Going, Wanted,
         Admitted, StartSteps
<1> QED BY <1>7, <1>10, <1>11 DEF SessionInv

LEMMA WorkerNextKeeps ==
  ASSUME SessionInv, WorkerNext
  PROVE  SessionInv'
BY DequeueKeeps, ClaimKeeps, AuthSucceedKeeps, BeatKeeps, RevokeHostKeeps,
   RevokeSessionKeeps, LeaveKeeps, SignOutHostKeeps, AdmitKeeps,
   PublishStartingKeeps, RegisterKeeps, LockKeeps, TargetKeeps, HostKeeps,
   PermitKeeps, AuthorizeKeeps, SettleKeeps, ReportKeeps, UndoKeeps, ClearKeeps,
   CompleteKeeps DEF WorkerNext

LEMMA TkNextKeeps ==
  ASSUME SessionInv, TkNext
  PROVE  SessionInv'
BY PollDoneKeeps, HealthDoneKeeps, SignInDoneKeeps, ProbeDoneKeeps,
   ReconnectDoneKeeps, MarkBegunKeeps, MarkKeeps, ObserveKeeps, ApplyKeeps,
   StopHostKeeps, TkRevokeHostKeeps, TkRevokeSessionKeeps, ResumeKeeps,
   MarkFailedKeeps, CloseHostKeeps, CloseSessionKeeps, CloseQueueKeeps, ExitKeeps,
   SignInKeeps, SignOutKeeps, CloseKeeps, SubmitKeeps, ReconnectTimerKeeps,
   TelemeterKeeps
   DEF TkNext, Callback, TkStep, Intent

LEMMA StutterKeeps ==
  ASSUME SessionInv, UNCHANGED vars
  PROVE  SessionInv'
<1>1. UNCHANGED <<state, reconnect, cancelled, active, timers, tk, ui, worker, queue,
                  replies, core, game, permitted, events>>
  BY DEF vars, shared, threads, world
<1>2. TypeOK'
  BY <1>1 DEF SessionInv, TypeOK
<1>3. AttemptInv'
  BY <1>1 DEF SessionInv, AttemptInv, NoOrphan, Placed, Flying, Emptied, Doing,
              Submitting, Closing
<1>4. RightInv'
  BY <1>1 DEF SessionInv, RightInv, Places, SigningInv, RevokeInv, RunInv, Revoking,
              Queued, Doing, Going, Wanted, Admitted, Closing, SignOutPending
<1> QED BY <1>2, <1>3, <1>4 DEF SessionInv

\* What holds of a proxy connection in every state: the types, where the
\* reconnect attempts are, and who may run the proxy.
THEOREM SessionHolds == Spec => []SessionInv
<1>1. Init => SessionInv
  BY Initially
<1>2. SessionInv /\ [Next]_vars => SessionInv'
  BY WorkerNextKeeps, TkNextKeeps, WorldKeeps, StutterKeeps DEF Next
<1> QED BY <1>1, <1>2, PTL DEF Spec

\* Once everything has settled, no Core runs the proxy for a session that is
\* gone or for a user who asked for it to stop.
THEOREM TheRightIsGone == Spec => []RightGone
<1>1. SessionInv => RightGone
  <2> SUFFICES ASSUME SessionInv, Quiet, state.session = None \/ state.suppressed
               PROVE  core # "running"
    BY DEF RightGone
  <2>1. CASE tk.at = "closed"
    BY <2>1 DEF SessionInv, RightInv, RevokeInv
  <2>2. CASE tk.at = "idle"
    <3>1. ~Closing /\ ~SignOutPending
      BY <2>2 DEF Quiet, Closing, SignOutPending, Queued
    <3> QED BY <3>1 DEF SessionInv, RightInv, RunInv, Wanted, Going
  <2> QED BY <2>1, <2>2 DEF Quiet
<1> QED BY <1>1, SessionHolds, PTL

\* The controller never waits for what will not come, and of the attempts that
\* are queued or run at most one has not been cancelled.
THEOREM AttemptsAreKept == Spec => []AttemptsOK
<1>1. SessionInv => OneAttempt
  <2> SUFFICES ASSUME SessionInv
               PROVE  OneAttempt
    OBVIOUS
  <2> DEFINE S == {t \in Attempting \ {None} :
                     t.kind = "reconnect" /\ t.id \notin cancelled}
             x == Task("reconnect", reconnect.inFlight)
  <2>1. ASSUME NEW t \in S PROVE t = x
    <3>1. t \in Tasks
      BY DEF SessionInv, TypeOK, Attempting
    <3>2. t.id = reconnect.inFlight
      BY DEF SessionInv, AttemptInv, Flying, Attempting, Doing
    <3> QED BY <3>1, <3>2 DEF Task, Tasks
  <2>2. S = {} \/ S = {x}
    BY <2>1
  <2> HIDE DEF S
  <2>3. Cardinality(S) <= 1
    <3>1. CASE S = {}
      BY <3>1, FS_EmptySet
    <3>2. CASE S = {x}
      <4>1. Cardinality({x}) = 1
        BY FS_Singleton
      <4> QED BY <3>2, <4>1
    <3> QED BY <2>2, <3>1, <3>2
  <2> QED BY <2>3 DEF OneAttempt, S
<1>2. SessionInv => AttemptsOK
  BY <1>1 DEF SessionInv, AttemptInv, AttemptsOK
<1> QED BY <1>2, SessionHolds, PTL
====
