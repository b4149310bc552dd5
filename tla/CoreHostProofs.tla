---------------------------- MODULE CoreHostProofs ----------------------------
(***************************************************************************)
(* What holds of CoreHost under Spec, for any number of spawned hosts.     *)
(***************************************************************************)
EXTENDS CoreHost, TLAPS

\* The hosts that were spawned are the first ones.
Spawned(n) == \A g \in Own : life[g] # "none" <=> g <= n

\* One thread at a time holds the lock.
Alone == \A s, t \in Threads : Holds(s) /\ Holds(t) => s = t

Hosted == {"spawn", "create", "adopt", "channel", "catalog", "validate",
           "challenge", "permit", "authorize"}
Cleanup == {"owned", "shutdown", "exit", "grace", "kill"}

\* The worker starts and reconnects, the Tk thread stops and shuts down.
Role(t, k) ==
  /\ t = "tk" =>
       /\ k.at \in {"idle", "lock", "stop"} \union Cleanup
       /\ k.at = "lock" => k.want \in {"stop", "shutdown"}
  /\ t = "worker" =>
       /\ k.at # "stop"
       /\ k.at = "lock" => k.want \in {"start", "reconnect"}
       /\ k.at \in Hosted => k.hosted

Roles == \A t \in Threads : Role(t, thread[t]) /\ (up \/ thread[t] = Idle)

\* A start waits for the lock only while nothing is reported to run.
StartWanted ==
  LET k == thread["worker"] IN
  k.at = "lock" /\ k.want = "start" => reported # "running"

\* The frame of a thread that waits is its request, to the host that the
\* adapter owns, unless that was let go of during the stop of a late start.
Asked == \A t \in Threads : thread[t].asking =>
  /\ thread[t].at \in Asks
  /\ frame.by = t /\ frame.open /\ frame.at = thread[t].at
  /\ frame.host # process => thread[t].at = "tail" /\ process = NoHost

\* What lives is in the job, and the job is the adapter's process, or about to be.
JobInv ==
  /\ \A h \in Own : life[h] \in Live => up /\ job = h
  /\ process # NoHost => job = process
  /\ job # NoHost => process = job \/ thread["worker"].at = "adopt"
  /\ thread["worker"].at = "create" => job = NoHost
  /\ thread["worker"].at = "adopt" =>
       job \in Own /\ process = NoHost /\ Spawned(job)

\* The permit is for the host that the adapter still owns.
PermitInv ==
  /\ FramesToOwned
  /\ thread["worker"].at \in {"permit", "authorize"} => challenge = process

\* A Core whose proxy runs.
Proxying == \E h \in Own : runtime[h] /\ life[h] \in Live

RuntimeInv ==
  /\ frame.host \in Own => life[frame.host] # "none"
  /\ frame.answer = "ok" /\ frame.host \in Own
       /\ frame.at \in {"reset", "stop", "tail", "shutdown"}
     => ~runtime[frame.host]
  /\ frame.host \in Own /\ frame.at = "authorize" /\ frame.answer = "none"
       /\ life[frame.host] \in Live
     => thread["worker"].at \in {"authorize"} \union Cleanup
  /\ thread["worker"].at \in {"begin", "fresh"} /\ Proxying => stopFailed
  /\ NoUnattendedRuntime

HostInv ==
  /\ TypeOK /\ \E n \in Hosts : Spawned(n)
  /\ Alone /\ Roles /\ StartWanted /\ Asked /\ JobInv /\ PermitInv /\ RuntimeInv

(***************************************************************************)
(* Operators.                                                              *)
(***************************************************************************)
LEMMA HostFacts ==
  /\ Own \subseteq Hosts /\ Stray \in Hosts /\ Stray \notin Own
  /\ NoHost \notin Hosts /\ NoHost \notin Own /\ Hosts = {Stray} \union Own
  /\ Own \subseteq Nat \ {0} /\ Hosts \subseteq Nat
  BY SpawnAssumption DEF Hosts, Own, Stray, NoHost

LEMMA ThreadFacts ==
  /\ "worker" \in Threads /\ "tk" \in Threads
  /\ \A t \in Threads : t = "worker" \/ t = "tk"
  BY DEF Threads

\* The newest host is the last of those that were spawned.
LEMMA NewestIs ==
  ASSUME NEW n \in Hosts, Spawned(n)
  PROVE  Newest = n
  <1> DEFINE P(h) == /\ h = Stray \/ life[h] # "none"
                     /\ \A g \in Own : g > h => life[g] = "none"
  <1>1. P(n)
    BY HostFacts DEF Spawned
  <1>2. ASSUME NEW h \in Hosts, P(h)
        PROVE  h = n
    <2>1. h <= n
      BY <1>2, HostFacts DEF Spawned, Stray
    <2>2. CASE h < n
      <3>1. n \in Own
        BY <2>2, HostFacts DEF Stray
      <3> QED BY <1>2, <2>2, <3>1, HostFacts DEF Spawned
    <2> QED BY <2>1, <2>2, HostFacts
  <1> HIDE DEF P
  <1>3. Newest = CHOOSE h \in Hosts : P(h)
    BY DEF Newest, P
  <1> QED BY <1>1, <1>2, <1>3

\* Where a thread stands after a step of its own.
Thread == [at : Steps, want : Wants, asking : BOOLEAN, hosted : BOOLEAN]

Moved(t, k) == thread' = [thread EXCEPT ![t] = k]

LEMMA GoMoves ==
  ASSUME TypeOK, NEW t \in Threads, NEW step \in Steps, Go(t, step)
  PROVE  \E k \in Thread : /\ Moved(t, k)
                           /\ k.at = step /\ ~k.asking
                           /\ k.want = thread[t].want
                           /\ k.hosted = thread[t].hosted
  <1> DEFINE k == [thread[t] EXCEPT !.at = step, !.asking = FALSE]
  <1>1. thread \in [Threads -> Thread]
    BY DEF TypeOK, Thread
  <1>2. k \in Thread /\ k.at = step /\ ~k.asking /\ k.want = thread[t].want
        /\ k.hosted = thread[t].hosted
    BY <1>1 DEF Thread
  <1>3. Moved(t, k)
    BY <1>1 DEF Go, Moved
  <1> QED BY <1>2, <1>3

LEMMA EndMoves ==
  ASSUME TypeOK, NEW t \in Threads, NEW status, End(t, status)
  PROVE  Moved(t, Idle) /\ reported' = status
  BY DEF End, Moved

LEMMA MovedFields ==
  ASSUME TypeOK, NEW t \in Threads, NEW k \in Thread, Moved(t, k)
  PROVE  /\ thread' \in [Threads -> Thread]
         /\ thread'[t] = k
         /\ \A s \in Threads \ {t} : thread'[s] = thread[s]
  BY DEF TypeOK, Thread, Moved

\* What an operation does when its request failed, by the place it stood at.
LEMMA RefusedMoves ==
  ASSUME TypeOK, NEW t \in Threads, Refused(t),
         thread[t].at \in Asks \union StartSteps
  PROVE  \E k \in Thread :
           /\ Moved(t, k) /\ ~k.asking
           /\ k.at # "idle" => UNCHANGED <<reported, stopFailed>>
           /\ reported' \in {reported, "failed", "stopped"}
           /\ stopFailed' \in BOOLEAN
           /\ \/ /\ thread[t].at \in StartSteps /\ thread[t].hosted
                 /\ k.at = "owned"
              \/ /\ thread[t].at \in StartSteps /\ ~thread[t].hosted
                 /\ k = Idle /\ UNCHANGED stopFailed
              \/ /\ thread[t].at \in {"reset", "stop", "tail"}
                 /\ k = Idle /\ stopFailed' = TRUE
              \/ thread[t].at = "shutdown" /\ k.at = "grace"
  <1> DEFINE at == thread[t].at
  <1>1. /\ Idle \in Thread /\ ~Idle.asking /\ Idle.at = "idle"
        /\ "owned" \in Steps /\ "grace" \in Steps
    BY DEF Idle, Thread, Steps, Wants, Asks
  <1>2. CASE at \in StartSteps /\ thread[t].hosted
    <2>1. Go(t, "owned") /\ UNCHANGED <<reported, stopFailed>>
      BY <1>2 DEF Refused, StartSteps
    <2> QED BY <1>1, <1>2, <2>1, GoMoves DEF TypeOK
  <1>3. CASE at \in StartSteps /\ ~thread[t].hosted
    <2>1. End(t, "failed") /\ UNCHANGED stopFailed
      BY <1>3 DEF Refused, StartSteps
    <2> QED BY <1>1, <1>3, <2>1, EndMoves DEF TypeOK
  <1>4. CASE at \in {"reset", "stop"}
    <2>1. End(t, "failed") /\ stopFailed' = TRUE
      BY <1>4 DEF Refused, StartSteps
    <2> QED BY <1>1, <1>4, <2>1, EndMoves
  <1>5. CASE at = "tail"
    <2>1. End(t, "stopped") /\ stopFailed' = TRUE
      BY <1>5 DEF Refused, StartSteps
    <2> QED BY <1>1, <1>5, <2>1, EndMoves
  <1>6. CASE at = "shutdown"
    <2>1. Go(t, "grace") /\ UNCHANGED <<reported, stopFailed>>
      BY <1>6 DEF Refused, StartSteps
    <2> QED BY <1>1, <1>6, <2>1, GoMoves DEF TypeOK
  <1> QED BY <1>2, <1>3, <1>4, <1>5, <1>6 DEF Asks, StartSteps

LEMMA AcceptedMoves ==
  ASSUME TypeOK, NEW t \in Threads, Accepted(t), thread[t].at \in Asks
  PROVE  \E k \in Thread :
           /\ Moved(t, k) /\ ~k.asking
           /\ reported' \in {"running", "stopped", reported}
           /\ stopFailed' \in BOOLEAN
           /\ \/ /\ thread[t].at = "reset" /\ k.at = "begin"
                 /\ UNCHANGED reported
              \/ /\ \/ thread[t].at = "catalog" /\ k.at = "validate"
                    \/ thread[t].at = "validate" /\ k.at = "challenge"
                    \/ thread[t].at = "challenge" /\ k.at = "permit"
                    \/ thread[t].at = "shutdown" /\ k.at = "exit"
                 /\ k.hosted = thread[t].hosted
                 /\ UNCHANGED <<reported, stopFailed>>
              \/ thread[t].at = "authorize" /\ k = Idle /\ reported' = "running"
              \/ thread[t].at = "authorize" /\ k.at = "tail" /\ UNCHANGED reported
              \/ /\ thread[t].at \in {"stop", "tail"} /\ k = Idle
                 /\ reported' = "stopped"
  <1> DEFINE at == thread[t].at
  <1>1. /\ Idle \in Thread /\ ~Idle.asking /\ Idle.at = "idle"
        /\ {"begin", "validate", "challenge", "permit", "exit", "tail"}
             \subseteq Steps
    BY DEF Idle, Thread, Steps, Wants, Asks, StartSteps
  <1>2. CASE at \in {"catalog", "validate", "challenge", "reset", "shutdown"}
    <2> DEFINE next == CASE at = "catalog" -> "validate"
                         [] at = "validate" -> "challenge"
                         [] at = "challenge" -> "permit" [] at = "reset" -> "begin"
                         [] at = "shutdown" -> "exit"
    <2>1. /\ Go(t, next) /\ UNCHANGED reported
          /\ stopFailed' = (stopFailed /\ at # "reset")
      BY <1>2 DEF Accepted
    <2>2. next \in Steps
      BY <1>1, <1>2
    <2>3. stopFailed' \in BOOLEAN /\ (at # "reset" => stopFailed' = stopFailed)
      BY <2>1 DEF TypeOK
    <2>4. \/ at = "reset" /\ next = "begin"
          \/ at = "catalog" /\ next = "validate"
          \/ at = "validate" /\ next = "challenge"
          \/ at = "challenge" /\ next = "permit"
          \/ at = "shutdown" /\ next = "exit"
      BY <1>2
    <2> HIDE DEF next
    <2>5. PICK k \in Thread : /\ Moved(t, k) /\ k.at = next /\ ~k.asking
                              /\ k.hosted = thread[t].hosted
      BY <2>1, <2>2, GoMoves
    <2> QED BY <2>1, <2>3, <2>4, <2>5
  <1>3. CASE at = "authorize"
    <2>1. /\ stopFailed' = FALSE
          /\ \/ End(t, "running")
             \/ Go(t, "tail") /\ UNCHANGED reported
      BY <1>3 DEF Accepted
    <2>2. CASE End(t, "running")
      BY <1>1, <1>3, <2>1, <2>2, EndMoves
    <2>3. CASE Go(t, "tail") /\ UNCHANGED reported
      <3>1. PICK k \in Thread : Moved(t, k) /\ k.at = "tail" /\ ~k.asking
        BY <1>1, <2>3, GoMoves
      <3> QED BY <1>3, <2>1, <2>3, <3>1
    <2> QED BY <2>1, <2>2, <2>3
  <1>4. CASE at \in {"stop", "tail"}
    <2>1. stopFailed' = FALSE /\ End(t, "stopped")
      BY <1>4 DEF Accepted
    <2> QED BY <1>1, <1>4, <2>1, EndMoves
  <1> QED BY <1>2, <1>3, <1>4 DEF Asks

(***************************************************************************)
(* Steps of a thread that touch neither a host, nor the job, nor a frame.  *)
(***************************************************************************)
OneMoves(t, k) ==
  /\ Moved(t, k) /\ ~k.asking /\ ~thread[t].asking
  /\ k.at \in {"idle", "lock"} \/ Holds(t) \/ LockFree
  /\ Role(t, k) /\ up
  /\ reported' \in {"running", "stopped", "failed"}
  /\ reported' = "running" => UNCHANGED reported
  /\ t = "worker" /\ k.at = "lock" /\ k.want = "start" => reported' # "running"

Gone == \A h \in Own : life[h] \notin Live

LEMMA QuietKeeps ==
  ASSUME HostInv, NEW t \in Threads, NEW k \in Thread, OneMoves(t, k),
         UNCHANGED <<up, life, runtime, process, job, frame, challenge, stopFailed>>,
         {k.at, thread[t].at} \intersect {"create", "adopt"} = {},
         k.at \in {"permit", "authorize"} => thread[t].at \in {"permit", "authorize"},
         k.at \in {"begin", "fresh"} /\ Proxying => stopFailed,
         thread[t].at # "tail",
         k.at = "idle" /\ Proxying => stopFailed,
         k.at = "lock" => thread[t].at = "idle" /\ UNCHANGED reported,
         thread[t].at \in {"authorize"} \union Cleanup
           => Gone \/ k.at \in {"authorize"} \union Cleanup
  PROVE  HostInv'
  <1>1. /\ thread' \in [Threads -> Thread] /\ thread'[t] = k
        /\ \A s \in Threads \ {t} : thread'[s] = thread[s]
    BY MovedFields DEF HostInv, OneMoves
  <1>2. TypeOK'
    BY <1>1 DEF HostInv, OneMoves, TypeOK, Thread
  <1>3. \A n : Spawned(n)' <=> Spawned(n)
    BY DEF Spawned
  <1>4. Alone'
    BY <1>1 DEF HostInv, OneMoves, Alone, Holds, LockFree
  <1>5. Roles'
    BY <1>1 DEF HostInv, OneMoves, Roles, Role
  <1>6. StartWanted'
    BY <1>1, ThreadFacts DEF HostInv, OneMoves, StartWanted
  <1>7. Asked'
    BY <1>1 DEF HostInv, OneMoves, Asked
  <1>8. JobInv'
    BY <1>1, <1>3, ThreadFacts DEF HostInv, JobInv
  <1>9. PermitInv'
    BY <1>1, ThreadFacts DEF HostInv, PermitInv, FramesToOwned
  <1>10. RuntimeInv'
    <2>1. Proxying' <=> Proxying
      BY DEF Proxying
    <2>2. frame.host \in Own /\ frame.at = "authorize" /\ frame.answer = "none"
            /\ life[frame.host] \in Live
          => thread'["worker"].at \in {"authorize"} \union Cleanup
      BY <1>1, ThreadFacts DEF HostInv, RuntimeInv, Gone
    <2>3. thread'["worker"].at \in {"begin", "fresh"} /\ Proxying => stopFailed
      BY <1>1, ThreadFacts DEF HostInv, RuntimeInv
    <2>4. NoUnattendedRuntime'
      <3> SUFFICES ASSUME \A s \in Threads : ~Holds(s)', Proxying, ~stopFailed
                   PROVE  \/ reported' = "running"
                          \/ \E s \in Threads : thread'[s].at = "tail"
        BY DEF NoUnattendedRuntime, Proxying
      <3>1. \A s \in Threads : thread'[s].at \in {"idle", "lock", "tail"}
        BY DEF Holds
      <3>2. k.at = "lock" \/ k.at = "tail"
        BY <1>1, <3>1
      <3>3. CASE k.at = "tail"
        BY <1>1, <3>3
      <3>4. CASE k.at = "lock"
        <4>1. \A s \in Threads : ~Holds(s)
          BY <1>1, <3>1, <3>4 DEF Holds
        <4>2. reported = "running" \/ \E s \in Threads : thread[s].at = "tail"
          BY <4>1 DEF HostInv, RuntimeInv, NoUnattendedRuntime, Proxying
        <4> QED BY <1>1, <3>4, <4>2
      <3> QED BY <3>2, <3>3, <3>4
    <2>5. frame.host \in Own => life[frame.host] # "none"
      BY DEF HostInv, RuntimeInv
    <2> QED BY <2>1, <2>2, <2>3, <2>4, <2>5 DEF HostInv, RuntimeInv
  <1> QED BY <1>2, <1>3, <1>4, <1>5, <1>6, <1>7, <1>8, <1>9, <1>10 DEF HostInv

\* A host that lives is the one owned, while no host is being adopted.
LEMMA LiveIsOwned ==
  ASSUME HostInv, thread["worker"].at # "adopt"
  PROVE  /\ \A h \in Own : life[h] \in Live => process = h /\ Owned = h
         /\ Owned = NoHost => Gone
         /\ ~Runs(process) => Gone
  <1>1. \A h \in Own : life[h] \in Live => process = h
    BY HostFacts DEF HostInv, JobInv
  <1>2. \A h \in Own : life[h] \in Live => Runs(h)
    BY HostFacts DEF Runs
  <1> QED BY <1>1, <1>2, HostFacts DEF Owned, Gone

\* The lock keeps a thread from entering while the other is within.
LEMMA WantKeeps ==
  ASSUME HostInv, up, NEW t \in Threads, Want(t)
  PROVE  HostInv'
  <1>1. PICK want \in Wants :
          /\ t = "worker" => want \in {"start", "reconnect"}
          /\ t = "tk" => want \in {"stop", "shutdown"}
          /\ want = "start" => reported # "running"
          /\ Moved(t, [Idle EXCEPT !.at = "lock", !.want = want])
    BY ThreadFacts DEF Want, Wants, Moved
  <1> DEFINE k == [Idle EXCEPT !.at = "lock", !.want = want]
  <1>2. /\ k \in Thread /\ k.at = "lock" /\ k.want = want /\ ~k.asking
    BY DEF Idle, Thread, Steps
  <1> HIDE DEF k
  <1>3. /\ thread[t].at = "idle" /\ UNCHANGED <<up, life, runtime, process, job,
                                 frame, challenge, reported, stopFailed>>
    BY DEF Want
  <1>4. ~thread[t].asking
    BY <1>3 DEF HostInv, Asked, Asks
  <1>5. OneMoves(t, k)
    BY <1>1, <1>2, <1>3, <1>4 DEF OneMoves, Role, k, HostInv, TypeOK, Hosted, Cleanup
  <1> QED BY <1>2, <1>3, <1>5, QuietKeeps DEF Cleanup

\* Whoever enters finds the lock free, and a status to account for the proxy.
LEMMA EnterKeeps ==
  ASSUME HostInv, up, NEW t \in Threads, Enter(t)
  PROVE  HostInv'
  <1>1. /\ thread[t].at = "lock" /\ LockFree /\ ~thread[t].asking
        /\ UNCHANGED <<up, life, runtime, process, job, frame, challenge, stopFailed>>
    BY DEF Enter, HostInv, Asked, Asks
  <1>2. thread["worker"].at # "adopt"
    BY <1>1, ThreadFacts DEF LockFree, Holds
  <1>3. Idle \in Thread /\ ~Idle.asking /\ Idle.at = "idle"
    BY DEF Idle, Thread, Steps, Wants
  <1>4. {"begin", "reset", "stop", "owned"} \subseteq Steps
    BY DEF Steps, Asks, StartSteps
  <1>5. TypeOK /\ Role(t, thread[t])
    BY DEF HostInv, Roles
  <1>6. CASE thread[t].want = "shutdown" /\ Owned = NoHost /\ End(t, "stopped")
    <2>1. Moved(t, Idle) /\ reported' = "stopped" /\ Gone
      BY <1>2, <1>6, EndMoves, LiveIsOwned DEF HostInv
    <2>2. OneMoves(t, Idle) /\ ~Proxying
      BY <1>1, <1>3, <2>1 DEF OneMoves, Role, Hosted, Gone, Proxying, Idle
    <2> QED BY <1>1, <1>3, <2>1, <2>2, QuietKeeps DEF Cleanup
  <1>7. CASE UNCHANGED reported /\ thread[t].want = "shutdown" /\ Go(t, "owned")
    <2>1. PICK k \in Thread : Moved(t, k) /\ k.at = "owned" /\ ~k.asking
      BY <1>4, <1>5, <1>7, GoMoves
    <2>2. OneMoves(t, k)
      BY <1>1, <1>5, <1>7, <2>1 DEF OneMoves, Role, Hosted, Cleanup, TypeOK
    <2> QED BY <1>1, <2>1, <2>2, QuietKeeps DEF Cleanup
  <1>8. CASE UNCHANGED reported /\ thread[t].want = "stop" /\ Go(t, "stop")
    <2>1. PICK k \in Thread : Moved(t, k) /\ k.at = "stop" /\ ~k.asking
      BY <1>4, <1>5, <1>8, GoMoves
    <2>2. OneMoves(t, k)
      BY <1>1, <1>5, <1>8, <2>1 DEF OneMoves, Role, Hosted, Cleanup, TypeOK
    <2> QED BY <1>1, <2>1, <2>2, QuietKeeps DEF Cleanup
  <1>9. CASE UNCHANGED reported /\ thread[t].want = "reconnect" /\ Owned # NoHost
             /\ Go(t, "reset")
    <2>1. PICK k \in Thread : Moved(t, k) /\ k.at = "reset" /\ ~k.asking
      BY <1>4, <1>5, <1>9, GoMoves
    <2>2. OneMoves(t, k)
      BY <1>1, <1>5, <1>9, <2>1, ThreadFacts
      DEF OneMoves, Role, Hosted, Cleanup, TypeOK
    <2> QED BY <1>1, <2>1, <2>2, QuietKeeps DEF Cleanup
  <1>10. CASE UNCHANGED reported /\ Go(t, "begin")
              /\ \/ thread[t].want = "start"
                 \/ thread[t].want = "reconnect" /\ Owned = NoHost
    <2>1. PICK k \in Thread : Moved(t, k) /\ k.at = "begin" /\ ~k.asking
      BY <1>4, <1>5, <1>10, GoMoves
    <2>2. t = "worker"
      BY <1>1, <1>5, <1>10, ThreadFacts DEF Role
    <2>3. OneMoves(t, k)
      BY <1>1, <1>5, <1>10, <2>1, <2>2 DEF OneMoves, Role, Hosted, Cleanup, TypeOK
    <2>4. ASSUME Proxying
          PROVE  stopFailed
      <3>1. CASE thread[t].want = "start"
        <4>1. reported # "running"
          BY <1>1, <2>2, <3>1 DEF HostInv, StartWanted
        <4>2. \A s \in Threads : thread[s].at # "tail"
          BY <1>1, <1>5, <2>2, ThreadFacts DEF HostInv, Roles, Role, Cleanup
        <4> QED BY <1>1, <2>4, <4>1, <4>2
            DEF HostInv, RuntimeInv, NoUnattendedRuntime, Proxying, LockFree
      <3>2. CASE Owned = NoHost
        BY <1>2, <2>4, <3>2, LiveIsOwned DEF Gone, Proxying
      <3> QED BY <1>10, <3>1, <3>2
    <2> QED BY <1>1, <2>1, <2>3, <2>4, QuietKeeps DEF Cleanup
  <1>11. CASE UNCHANGED reported /\ thread[t].want = "reconnect"
              /\ Go(t, IF Owned = NoHost THEN "begin" ELSE "reset")
    <2>1. CASE Owned = NoHost
      BY <1>10, <1>11, <2>1
    <2>2. CASE Owned # NoHost
      BY <1>9, <1>11, <2>2
    <2> QED BY <2>1, <2>2
  <1> QED BY <1>6, <1>7, <1>8, <1>10, <1>11 DEF Enter

\* A start that fails cleans up, unless it has not come to a host yet: then no
\* proxy runs that a failed stop does not account for.
LEMMA StartRefused ==
  ASSUME HostInv, up, NEW t \in Threads, Refused(t),
         thread[t].at \in {"begin", "fresh", "channel", "permit"},
         UNCHANGED <<up, life, runtime, process, job, frame, challenge>>
  PROVE  HostInv'
  <1>1. /\ TypeOK /\ Role(t, thread[t]) /\ ~thread[t].asking
        /\ thread[t].at \in StartSteps
    BY DEF HostInv, Roles, Asked, Asks, StartSteps
  <1>2. t = "worker"
    BY <1>1, ThreadFacts DEF Role, Cleanup
  <1>3. PICK k \in Thread :
          /\ Moved(t, k) /\ ~k.asking /\ UNCHANGED stopFailed
          /\ \/ k.at = "owned" /\ UNCHANGED reported
             \/ /\ ~thread[t].hosted /\ k = Idle
                /\ reported' \in {reported, "failed", "stopped"}
    <2>1. ~(thread[t].at \in {"reset", "stop", "tail", "shutdown"})
      OBVIOUS
    <2>2. PICK k \in Thread :
           /\ Moved(t, k) /\ ~k.asking
           /\ k.at # "idle" => UNCHANGED <<reported, stopFailed>>
           /\ reported' \in {reported, "failed", "stopped"}
           /\ \/ k.at = "owned"
              \/ ~thread[t].hosted /\ k = Idle /\ UNCHANGED stopFailed
      BY <1>1, <2>1, RefusedMoves
    <2> QED BY <2>2
  <1>4. Idle.at = "idle" /\ thread[t].at \notin {"authorize"} \union Cleanup
    BY DEF Idle, Cleanup
  <1>5. k.at \in {"owned", "idle"} /\ OneMoves(t, k)
    BY <1>1, <1>2, <1>3, <1>4
    DEF OneMoves, Role, Hosted, Holds, TypeOK
  <1>6. k.at = "idle" /\ Proxying => stopFailed
    BY <1>1, <1>2, <1>3, <1>4 DEF Role, Hosted, HostInv, RuntimeInv
  <1> QED BY <1>2, <1>3, <1>4, <1>5, <1>6, QuietKeeps

\* A step from one place within the lock to the next.
LEMMA OnwardKeeps ==
  ASSUME HostInv, up, NEW t \in Threads, NEW next, Go(t, next),
         <<thread[t].at, next>> \in
           {<<"begin", "fresh">>, <<"spawn", "channel">>, <<"channel", "catalog">>,
            <<"permit", "authorize">>, <<"owned", "shutdown">>},
         UNCHANGED <<up, life, runtime, process, job, frame, challenge, reported,
                     stopFailed>>
  PROVE  HostInv'
  <1>1. /\ TypeOK /\ Role(t, thread[t])
        /\ next \in {"fresh", "channel", "catalog", "authorize", "shutdown"}
    BY DEF HostInv, Roles
  <1>2. next \in Steps
    BY <1>1 DEF Steps, Asks, StartSteps
  <1>3. PICK k \in Thread : /\ Moved(t, k) /\ k.at = next /\ ~k.asking
                            /\ k.hosted = thread[t].hosted
    BY <1>1, <1>2, GoMoves
  <1>4. ~thread[t].asking
    BY DEF HostInv, Asked, Asks
  <1>5. OneMoves(t, k)
    BY <1>1, <1>3, <1>4, ThreadFacts
    DEF OneMoves, Role, Hosted, Holds, TypeOK, Cleanup
  <1>6. CASE thread[t].at = "begin" /\ next = "fresh"
    <2>1. t = "worker"
      BY <1>1, <1>6, ThreadFacts DEF Role, Cleanup
    <2> QED BY <1>3, <1>5, <1>6, <2>1, QuietKeeps
        DEF HostInv, RuntimeInv, Cleanup
  <1>7. CASE thread[t].at # "begin"
    BY <1>1, <1>3, <1>5, <1>7, QuietKeeps DEF Cleanup
  <1> QED BY <1>6, <1>7

\* The steps of a start between its requests, and of a shutdown before its own.
LEMMA QuietStepsKeep ==
  ASSUME HostInv, up, NEW t \in Threads,
         \/ Begin(t) \/ Fresh(t) \/ Channel(t) \/ Permit(t) \/ Reuse(t)
         \/ OwnedHost(t)
  PROVE  HostInv'
  <1>1. CASE Begin(t)
    BY <1>1, OnwardKeeps, StartRefused DEF Begin
  <1>2. CASE Channel(t)
    BY <1>2, OnwardKeeps, StartRefused DEF Channel
  <1>3. CASE Permit(t)
    BY <1>3, OnwardKeeps, StartRefused DEF Permit
  <1>4. CASE Reuse(t)
    BY <1>4, OnwardKeeps DEF Reuse
  <1>5. CASE OwnedHost(t)
    <2>1. CASE Owned = NoHost
      <3>1. /\ thread[t].at = "owned" /\ ~thread[t].asking /\ End(t, "failed")
            /\ UNCHANGED <<up, life, runtime, process, job, frame, challenge, stopFailed>>
        BY <1>5, <2>1 DEF OwnedHost, HostInv, Asked, Asks
      <3>2. thread["worker"].at # "adopt"
        BY <3>1, ThreadFacts DEF HostInv, Alone, Holds
      <3>3. Moved(t, Idle) /\ reported' = "failed" /\ Gone
        BY <2>1, <3>1, <3>2, EndMoves, LiveIsOwned DEF HostInv
      <3>4. Idle \in Thread /\ ~Idle.asking /\ Idle.at = "idle"
        BY DEF Idle, Thread, Steps, Wants
      <3>5. OneMoves(t, Idle) /\ ~Proxying
        BY <3>1, <3>3, <3>4 DEF OneMoves, Role, Hosted, Gone, Proxying
      <3> QED BY <3>1, <3>3, <3>4, <3>5, QuietKeeps
    <2>2. CASE Owned # NoHost
      BY <1>5, <2>2, OnwardKeeps DEF OwnedHost
    <2> QED BY <2>1, <2>2
  <1>6. CASE Fresh(t)
    <2>1. CASE Refused(t)
      BY <1>6, <2>1, StartRefused DEF Fresh
    <2>2. CASE ~Refused(t)
      <3> DEFINE k == [thread[t] EXCEPT !.at = "spawn", !.hosted = TRUE]
      <3>1. /\ thread' = [thread EXCEPT ![t].at = "spawn", ![t].hosted = TRUE]
            /\ thread[t].at = "fresh"
            /\ UNCHANGED <<up, life, runtime, process, job, frame, challenge,
                          reported, stopFailed>>
        BY <1>6, <2>2 DEF Fresh
      <3>2. ~thread[t].asking /\ thread[t] \in Thread /\ Role(t, thread[t])
            /\ thread \in [Threads -> Thread]
        BY <3>1 DEF HostInv, Asked, Asks, TypeOK, Thread, Roles
      <3>3. Moved(t, k)
        BY <3>1, <3>2 DEF Moved
      <3>4. k \in Thread /\ k.at = "spawn" /\ k.hosted /\ ~k.asking
        BY <3>2 DEF Thread, Steps, StartSteps
      <3> HIDE DEF k
      <3>5. OneMoves(t, k)
        BY <3>1, <3>2, <3>3, <3>4, ThreadFacts
        DEF OneMoves, Role, Hosted, Holds, TypeOK, Cleanup, HostInv
      <3> QED BY <3>1, <3>4, <3>5, QuietKeeps DEF Cleanup
    <2> QED BY <2>1, <2>2
  <1> QED BY <1>1, <1>2, <1>3, <1>4, <1>5, <1>6

(***************************************************************************)
(* The job is closed, and with it every Core of the launcher.              *)
(***************************************************************************)
\* A life that only ends.
Kills(l) == /\ l \in [Hosts -> Lives]
            /\ \A h \in Own : l[h] \notin Live
            /\ \A h \in Hosts : l[h] = "none" <=> life[h] = "none"

LEMMA JobKills ==
  ASSUME HostInv
  PROVE  /\ Kills(JobClosed)
         /\ Kills([JobClosed EXCEPT ![process] = IF @ \in Live THEN "dying" ELSE @])
  <1>1. life \in [Hosts -> Lives]
    BY DEF HostInv, TypeOK
  <1>2. JobClosed \in [Hosts -> Lives]
    BY <1>1 DEF JobClosed, Lives
  <1>3. Kills(JobClosed)
    BY <1>1, <1>2, HostFacts DEF HostInv, JobInv, JobClosed, Kills, Live
  <1> QED BY <1>2, <1>3, HostFacts DEF Kills, Lives, Live

LEMMA ClosingKeeps ==
  ASSUME HostInv, NEW t \in Threads, NEW k \in Thread, OneMoves(t, k),
         Kills(life'), Forget, Holds(t),
         k.at \notin {"adopt", "permit", "authorize", "lock"},
         UNCHANGED <<up, runtime, frame, challenge>>, stopFailed' \in BOOLEAN
  PROVE  HostInv'
  <1>1. /\ thread' \in [Threads -> Thread] /\ thread'[t] = k
        /\ \A s \in Threads \ {t} : thread'[s] = thread[s] /\ ~Holds(s)
    BY MovedFields DEF HostInv, OneMoves, Alone
  <1>2. TypeOK'
    BY <1>1, HostFacts DEF HostInv, OneMoves, TypeOK, Thread, Kills, Forget
  <1>3. \A n : Spawned(n)' <=> Spawned(n)
    BY HostFacts DEF Spawned, Kills
  <1>4. Alone'
    BY <1>1 DEF HostInv, Alone, Holds
  <1>5. Roles'
    BY <1>1 DEF HostInv, OneMoves, Roles, Role
  <1>6. StartWanted'
    BY <1>1, ThreadFacts DEF HostInv, OneMoves, StartWanted
  <1>7. Asked'
    BY <1>1 DEF HostInv, OneMoves, Asked, Holds, Asks, Forget
  <1>8. JobInv'
    BY <1>1, ThreadFacts DEF JobInv, Kills, Forget, Holds
  <1>9. PermitInv'
    BY <1>1, ThreadFacts DEF HostInv, PermitInv, FramesToOwned, Holds
  <1>10. RuntimeInv'
    BY <1>1, HostFacts DEF HostInv, RuntimeInv, NoUnattendedRuntime, Proxying, Kills
  <1> QED BY <1>2, <1>3, <1>4, <1>5, <1>6, <1>7, <1>8, <1>9, <1>10 DEF HostInv

\* A host that could not be spawned or adopted leaves no Core behind.
LEMMA UnspawnedKeeps ==
  ASSUME HostInv, up, NEW t \in Threads, Unspawned(t),
         thread[t].at \in {"spawn", "create", "adopt"},
         UNCHANGED <<up, runtime, frame, challenge>>
  PROVE  HostInv'
  <1>1. /\ TypeOK /\ Role(t, thread[t]) /\ ~thread[t].asking
        /\ thread[t].at \in StartSteps
    BY DEF HostInv, Roles, Asked, Asks, StartSteps
  <1>2. t = "worker" /\ thread[t].hosted
    BY <1>1, ThreadFacts DEF Role, Cleanup, Hosted
  <1>3. PICK k \in Thread : /\ Moved(t, k) /\ ~k.asking /\ k.at = "owned"
                            /\ UNCHANGED <<reported, stopFailed>>
    <2>1. ~(thread[t].at \in {"reset", "stop", "tail", "shutdown"})
      OBVIOUS
    <2>2. Refused(t)
      BY DEF Unspawned
    <2> QED BY <1>1, <1>2, <2>1, <2>2, RefusedMoves
  <1>4. OneMoves(t, k)
    BY <1>1, <1>2, <1>3 DEF OneMoves, Role, Hosted, Holds, TypeOK
  <1> QED BY <1>1, <1>3, <1>4, JobKills, ClosingKeeps DEF Unspawned, Holds, TypeOK

LEMMA DiscardKeeps ==
  ASSUME HostInv, up, NEW t \in Threads, Discard(t)
  PROVE  HostInv'
  <1>1. CASE Unspawned(t)
    BY <1>1, UnspawnedKeeps DEF Discard
  <1>2. CASE ~Unspawned(t)
    <2>1. /\ thread[t].at = "spawn" /\ life' = JobClosed /\ Forget /\ Go(t, "create")
          /\ UNCHANGED <<up, runtime, frame, challenge, reported, stopFailed>>
      BY <1>2 DEF Discard
    <2>2. TypeOK /\ Role(t, thread[t]) /\ ~thread[t].asking /\ "create" \in Steps
      BY <2>1 DEF HostInv, Roles, Asked, Asks, Steps, StartSteps
    <2>3. PICK k \in Thread : /\ Moved(t, k) /\ k.at = "create" /\ ~k.asking
                              /\ k.hosted = thread[t].hosted
      BY <2>1, <2>2, GoMoves
    <2>4. OneMoves(t, k)
      BY <2>1, <2>2, <2>3, ThreadFacts
      DEF OneMoves, Role, Hosted, Holds, TypeOK, Cleanup
    <2> QED BY <2>1, <2>2, <2>3, <2>4, JobKills, ClosingKeeps DEF Holds, TypeOK
  <1> QED BY <1>1, <1>2

\* Whether the host could be killed or not, nothing that the adapter forgets
\* lives on.
LEMMA ExitKeeps ==
  ASSUME HostInv, up, NEW t \in Threads, Exit(t) \/ Kill(t)
  PROVE  HostInv'
  <1>1. /\ thread[t].at \in {"exit", "grace", "kill"} /\ ~thread[t].asking
        /\ TypeOK /\ Role(t, thread[t])
        /\ UNCHANGED <<up, runtime, frame, challenge, stopFailed>>
    BY DEF Exit, Kill, HostInv, Asked, Asks, Roles
  <1>2. CASE Kills(life') /\ Forget
             /\ (\E status \in {"failed", "stopped"} : End(t, status))
    <2>1. PICK status \in {"failed", "stopped"} : End(t, status)
      BY <1>2
    <2>2. Moved(t, Idle) /\ reported' = status
      BY <1>1, <2>1, EndMoves
    <2>3. Idle \in Thread /\ ~Idle.asking /\ Idle.at = "idle"
      BY DEF Idle, Thread, Steps, Wants
    <2>4. OneMoves(t, Idle)
      BY <1>1, <2>2, <2>3 DEF OneMoves, Role, Hosted
    <2> QED BY <1>1, <1>2, <2>3, <2>4, ClosingKeeps DEF Holds, TypeOK
  <1>3. CASE Go(t, "kill") /\ UNCHANGED <<life, process, job, reported>>
    <2>1. "kill" \in Steps
      BY DEF Steps
    <2>2. PICK k \in Thread : Moved(t, k) /\ k.at = "kill" /\ ~k.asking
      BY <1>1, <1>3, <2>1, GoMoves
    <2>3. OneMoves(t, k)
      BY <1>1, <1>3, <2>2 DEF OneMoves, Role, Hosted, Holds, TypeOK, Cleanup
    <2> QED BY <1>1, <1>3, <2>2, <2>3, QuietKeeps DEF Cleanup
  <1>4. CASE Kill(t)
    BY <1>2, <1>4, JobKills DEF Kill
  <1>5. CASE Exit(t)
    <2>1. Over(t) \in {"failed", "stopped"}
      BY DEF Over
    <2> QED BY <1>2, <1>3, <1>5, <2>1, JobKills DEF Exit
  <1> QED BY <1>4, <1>5

(***************************************************************************)
(* A host is created in the job, and adopted.                              *)
(***************************************************************************)
\* What the worker may rely on while it spawns: the Tk thread waits at most.
LEMMA Spawning ==
  ASSUME HostInv, NEW t \in Threads, thread[t].at \in {"create", "adopt"}
  PROVE  /\ t = "worker" /\ thread[t].hosted /\ ~thread[t].asking
         /\ thread["tk"].at \in {"idle", "lock"} /\ ~thread["tk"].asking
         /\ process = NoHost
  <1>1. t = "worker" /\ thread[t].hosted /\ ~thread[t].asking
    BY ThreadFacts DEF HostInv, Roles, Role, Asked, Asks, Hosted, Cleanup
  <1>2. ~Holds("tk")
    BY <1>1, ThreadFacts DEF HostInv, Alone, Holds
  <1>3. thread["tk"].at \in {"idle", "lock"} /\ ~thread["tk"].asking
    BY <1>2, ThreadFacts DEF HostInv, Roles, Role, Asked, Asks, Holds, Cleanup
  <1> QED BY <1>1, <1>3 DEF HostInv, JobInv

LEMMA CreateKeeps ==
  ASSUME HostInv, up, NEW t \in Threads, Create(t)
  PROVE  HostInv'
  <1>1. CASE Unspawned(t)
    BY <1>1, UnspawnedKeeps DEF Create
  <1>2. CASE ~Unspawned(t)
    <2>1. PICK h \in Own : h = Newest + 1 /\ job' = h
                           /\ life' = [life EXCEPT ![h] = "booting"]
      BY <1>2 DEF Create
    <2>2. /\ thread[t].at = "create" /\ Go(t, "adopt")
          /\ UNCHANGED <<up, process, runtime, frame, challenge, reported, stopFailed>>
      BY <1>2 DEF Create
    <2>3. /\ t = "worker" /\ thread[t].hosted /\ ~thread[t].asking
          /\ thread["tk"].at \in {"idle", "lock"} /\ ~thread["tk"].asking
          /\ process = NoHost
      BY <2>2, Spawning
    <2>4. "adopt" \in Steps /\ TypeOK
      BY DEF Steps, StartSteps, HostInv
    <2>5. PICK k \in Thread : /\ Moved(t, k) /\ k.at = "adopt" /\ ~k.asking
                              /\ k.hosted = thread[t].hosted
      BY <2>2, <2>4, GoMoves
    <2>6. /\ thread' \in [Threads -> Thread] /\ thread'["worker"] = k
          /\ thread'["tk"] = thread["tk"]
      BY <2>3, <2>4, <2>5, MovedFields, ThreadFacts
    <2>7. job = NoHost /\ \A g \in Own : life[g] \notin Live
      BY <2>2, <2>3, HostFacts DEF HostInv, JobInv
    <2>8. PICK n \in Hosts : Spawned(n)
      BY DEF HostInv
    <2>9. h = n + 1 /\ h \in Hosts /\ n \in Nat /\ h \in Nat
      BY <2>1, <2>8, NewestIs, HostFacts
    <2>10. life \in [Hosts -> Lives] /\ life' \in [Hosts -> Lives]
      BY <2>1, <2>4 DEF TypeOK, Lives, Live
    <2>11. Spawned(h)'
      BY <2>1, <2>8, <2>9, <2>10, HostFacts DEF Spawned
    <2>12. TypeOK'
      BY <2>1, <2>2, <2>4, <2>6, <2>10 DEF TypeOK, Thread
    <2>13. Alone' /\ Roles' /\ StartWanted' /\ Asked'
      <3>1. Alone'
        BY <2>3, <2>6, ThreadFacts DEF Alone, Holds
      <3>2. Roles'
        BY <2>2, <2>3, <2>5, <2>6, ThreadFacts
        DEF HostInv, Roles, Role, Hosted, Cleanup
      <3>3. StartWanted'
        BY <2>5, <2>6 DEF StartWanted
      <3>4. Asked'
        BY <2>3, <2>5, <2>6, ThreadFacts DEF Asked
      <3> QED BY <3>1, <3>2, <3>3, <3>4
    <2>14. JobInv'
      BY <2>1, <2>2, <2>3, <2>5, <2>6, <2>7, <2>10, <2>11, HostFacts DEF JobInv
    <2>15. PermitInv'
      BY <2>2, <2>5, <2>6 DEF HostInv, PermitInv, FramesToOwned
    <2>16. RuntimeInv'
      <3>1. life[h] = "none"
        BY <2>8, <2>9, HostFacts DEF Spawned
      <3>2. frame.host \in Own => /\ frame.host # h
                                 /\ life'[frame.host] = life[frame.host]
        BY <2>1, <2>10, <3>1, HostFacts DEF HostInv, RuntimeInv
      <3>3. Holds("worker")'
        BY <2>5, <2>6 DEF Holds
      <3> QED BY <2>2, <2>5, <2>6, <2>7, <3>2, <3>3, ThreadFacts
          DEF HostInv, RuntimeInv, NoUnattendedRuntime
    <2> QED BY <2>9, <2>11, <2>12, <2>13, <2>14, <2>15, <2>16 DEF HostInv
  <1> QED BY <1>1, <1>2

LEMMA AdoptKeeps ==
  ASSUME HostInv, up, NEW t \in Threads, Adopt(t)
  PROVE  HostInv'
  <1>1. CASE Unspawned(t)
    BY <1>1, UnspawnedKeeps DEF Adopt
  <1>2. CASE ~Unspawned(t)
    <2>1. /\ thread[t].at = "adopt" /\ process' = Newest /\ Go(t, "channel")
          /\ UNCHANGED <<up, life, job, runtime, frame, challenge, reported, stopFailed>>
      BY <1>2 DEF Adopt
    <2>2. /\ t = "worker" /\ thread[t].hosted /\ ~thread[t].asking
          /\ thread["tk"].at \in {"idle", "lock"} /\ ~thread["tk"].asking
          /\ process = NoHost
      BY <2>1, Spawning
    <2>3. "channel" \in Steps /\ TypeOK
      BY DEF Steps, StartSteps, HostInv
    <2>4. PICK k \in Thread : /\ Moved(t, k) /\ k.at = "channel" /\ ~k.asking
                              /\ k.hosted = thread[t].hosted
      BY <2>1, <2>3, GoMoves
    <2>5. /\ thread' \in [Threads -> Thread] /\ thread'["worker"] = k
          /\ thread'["tk"] = thread["tk"]
      BY <2>2, <2>3, <2>4, MovedFields, ThreadFacts
    <2>6. job \in Own /\ Spawned(job) /\ process' = job
      BY <2>1, <2>2, NewestIs, HostFacts DEF HostInv, JobInv
    <2>7. \A n : Spawned(n)' <=> Spawned(n)
      BY <2>1 DEF Spawned
    <2>8. TypeOK'
      BY <2>1, <2>3, <2>5, <2>6 DEF TypeOK, Thread
    <2>9. Alone' /\ StartWanted' /\ Asked'
      BY <2>2, <2>4, <2>5, ThreadFacts DEF Alone, Holds, StartWanted, Asked
    <2>10. Roles'
      BY <2>1, <2>2, <2>4, <2>5, ThreadFacts
      DEF HostInv, Roles, Role, Hosted, Cleanup
    <2>11. JobInv'
      BY <2>1, <2>4, <2>5, <2>6 DEF HostInv, JobInv
    <2>12. PermitInv'
      BY <2>1, <2>4, <2>5 DEF HostInv, PermitInv, FramesToOwned
    <2>13. RuntimeInv'
      <3>1. Holds("worker")'
        BY <2>4, <2>5 DEF Holds
      <3> QED BY <2>1, <2>2, <2>4, <2>5, <3>1, ThreadFacts
          DEF HostInv, RuntimeInv, NoUnattendedRuntime, Cleanup
    <2> QED BY <2>7, <2>8, <2>9, <2>10, <2>11, <2>12, <2>13 DEF HostInv
  <1> QED BY <1>1, <1>2

(***************************************************************************)
(* Requests.                                                               *)
(***************************************************************************)
\* Where a thread asks from it holds the lock, except at the stop of a start
\* that came too late; and only the worker starts.
LEMMA AskingFrom ==
  ASSUME HostInv, NEW t \in Threads, thread[t].at \in Asks
  PROVE  /\ thread[t].at # "tail" => Holds(t)
         /\ thread[t].at \notin {"stop", "shutdown"} => t = "worker"
         /\ thread[t].at \in {"catalog", "validate", "challenge", "authorize"}
              => thread[t].hosted /\ thread[t].at \in StartSteps
         /\ thread["worker"].at # "adopt"
  <1>1. thread[t].at # "tail" => Holds(t)
    BY DEF Holds, Asks
  <1>2. thread[t].at \notin {"stop", "shutdown"} => t = "worker"
    BY ThreadFacts DEF HostInv, Roles, Role, Cleanup, Asks
  <1>3. thread[t].at \in {"catalog", "validate", "challenge", "authorize"}
          => thread[t].hosted /\ thread[t].at \in StartSteps
    BY <1>2 DEF HostInv, Roles, Role, Hosted, StartSteps
  <1>4. thread["worker"].at # "adopt"
    BY <1>1, <1>2, ThreadFacts DEF HostInv, Alone, Holds, Asks
  <1> QED BY <1>1, <1>2, <1>3, <1>4

\* A thread is done with a request, or was not let near the pipe.
Disowned(t) ==
  \/ ~thread[t].asking /\ UNCHANGED frame
  \/ thread[t].asking /\ frame' \in {NoFrame, [frame EXCEPT !.open = FALSE]}

LEMMA DisownedKeeps ==
  ASSUME HostInv, up, NEW t \in Threads, NEW k \in Thread, Moved(t, k), ~k.asking,
         thread[t].at \in Asks, Disowned(t), Role(t, k),
         UNCHANGED <<up, life, runtime, process, job>>,
         k.at \notin {"lock", "create", "adopt"},
         k.at \in {"idle", "tail"} \/ Holds(t),
         reported' \in {"running", "stopped", "failed"}, stopFailed' \in BOOLEAN,
         reported' = "running" => UNCHANGED reported \/ t = "worker",
         challenge' \in Hosts \union {NoHost}, PermitInv',
         k.at \in {"begin", "fresh"} /\ Proxying => stopFailed' = TRUE,
         k.at = "idle" /\ Proxying => reported' = "running" \/ stopFailed' = TRUE,
         thread[t].at \in {"authorize", "shutdown"}
           => k.at \in {"authorize"} \union Cleanup \/ frame' = NoFrame
  PROVE  HostInv'
  <1>1. /\ thread' \in [Threads -> Thread] /\ thread'[t] = k
        /\ \A s \in Threads \ {t} : thread'[s] = thread[s]
    BY MovedFields DEF HostInv
  <1>2. /\ frame' = NoFrame \/ UNCHANGED frame \/ frame' = [frame EXCEPT !.open = FALSE]
        /\ NoFrame.host = NoHost /\ NoFrame.at = "idle" /\ NoFrame.answer = "none"
    BY DEF Disowned, NoFrame
  <1>3. TypeOK'
    <2> DEFINE Frames == [host : Hosts \union {NoHost}, at : Asks \union {"idle"},
                          by : Threads, answer : {"none", "ok", "failed", "closed"},
                          open : BOOLEAN]
    <2>1. frame \in Frames
      BY DEF HostInv, TypeOK
    <2>2. NoFrame \in Frames /\ [frame EXCEPT !.open = FALSE] \in Frames
      BY <2>1, ThreadFacts DEF NoFrame
    <2>3. frame' \in Frames
      BY <1>2, <2>1, <2>2
    <2> QED BY <1>1, <2>3 DEF HostInv, TypeOK, Thread
  <1>4. \A n : Spawned(n)' <=> Spawned(n)
    BY DEF Spawned
  <1>5. Alone'
    BY <1>1 DEF HostInv, Alone, Holds
  <1>6. Roles'
    BY <1>1 DEF HostInv, Roles, Role
  <1>7. StartWanted'
    BY <1>1, ThreadFacts DEF HostInv, StartWanted
  <1>8. Asked'
    BY <1>1 DEF HostInv, Asked, Disowned
  <1>9. JobInv'
    BY <1>1, <1>4, AskingFrom, ThreadFacts DEF HostInv, JobInv
  <1>10. RuntimeInv'
    <2>1. /\ Proxying' <=> Proxying
          /\ frame'.host \in Own => /\ frame'.host = frame.host
                                   /\ frame'.at = frame.at
                                   /\ frame'.answer = frame.answer
                                   /\ frame' # NoFrame
      BY <1>2, HostFacts DEF Proxying, HostInv, TypeOK
    <2>2. frame'.host \in Own /\ frame'.at = "authorize" /\ frame'.answer = "none"
            /\ life[frame'.host] \in Live
          => thread'["worker"].at \in {"authorize"} \union Cleanup
      BY <1>1, <2>1, ThreadFacts DEF HostInv, RuntimeInv, Cleanup, Asks
    <2>3. thread'["worker"].at \in {"begin", "fresh"} /\ Proxying => stopFailed' = TRUE
      <3>1. CASE t = "worker"
        BY <1>1, <3>1
      <3>2. CASE t = "tk"
        <4>1. Holds(t)
          BY <3>2, AskingFrom
        <4>2. ~Holds("worker")
          BY <3>2, <4>1, ThreadFacts DEF HostInv, Alone
        <4> QED BY <1>1, <3>2, <4>2, ThreadFacts DEF Holds
      <3> QED BY <3>1, <3>2, ThreadFacts
    <2>4. NoUnattendedRuntime'
      <3> SUFFICES ASSUME \A s \in Threads : ~Holds(s)', Proxying,
                          stopFailed' # TRUE, reported' # "running"
                   PROVE  \E s \in Threads : thread'[s].at = "tail"
        BY DEF NoUnattendedRuntime, Proxying
      <3>1. ~Holds(t)'
        OBVIOUS
      <3>2. k.at \in {"idle", "tail"}
        BY <1>1, <3>1 DEF Holds
      <3>3. k.at = "tail"
        BY <3>2
      <3> QED BY <1>1, <3>3
    <2> QED BY <2>1, <2>2, <2>3, <2>4 DEF HostInv, RuntimeInv
  <1> QED BY <1>3, <1>4, <1>5, <1>6, <1>7, <1>8, <1>9, <1>10 DEF HostInv

\* A request that is refused, late or not sent.
LEMMA RequestRefused ==
  ASSUME HostInv, up, NEW t \in Threads, thread[t].at \in Asks, Refused(t),
         Disowned(t), UNCHANGED <<up, life, runtime, process, job, challenge>>
  PROVE  HostInv'
  <1>1. TypeOK /\ Role(t, thread[t])
    BY DEF HostInv, Roles
  <1>2. /\ thread[t].at # "tail" => Holds(t)
        /\ thread[t].at \notin {"stop", "shutdown"} => t = "worker"
        /\ thread[t].at \in {"catalog", "validate", "challenge", "authorize"}
             => thread[t].hosted
    BY AskingFrom
  <1>3. PICK k \in Thread :
          /\ Moved(t, k) /\ ~k.asking
          /\ reported' \in {reported, "failed", "stopped"}
          /\ stopFailed' \in BOOLEAN
          /\ \/ /\ thread[t].at \in StartSteps /\ thread[t].hosted
                /\ k.at = "owned"
             \/ /\ thread[t].at \in StartSteps /\ ~thread[t].hosted
                /\ k = Idle
             \/ /\ thread[t].at \in {"reset", "stop", "tail"}
                /\ k = Idle /\ stopFailed' = TRUE
             \/ thread[t].at = "shutdown" /\ k.at = "grace"
    BY <1>1, RefusedMoves
  <1>4. \/ k.at \in Cleanup /\ thread[t].at # "tail"
        \/ k.at = "idle" /\ stopFailed' = TRUE
             /\ thread[t].at \notin {"authorize", "shutdown"}
    BY <1>2, <1>3 DEF StartSteps, Asks, Idle, Cleanup
  <1>5. Role(t, k)
    BY <1>4 DEF Role, Hosted, Cleanup
  <1>6. /\ thread' \in [Threads -> Thread] /\ thread'[t] = k
        /\ \A s \in Threads \ {t} : thread'[s] = thread[s]
    BY <1>1, <1>3, MovedFields
  <1>7. PermitInv'
    <2>1. FramesToOwned'
      BY DEF HostInv, PermitInv, FramesToOwned, Disowned, NoFrame, TypeOK
    <2> QED BY <1>4, <1>6, <2>1, ThreadFacts DEF HostInv, PermitInv, Cleanup
  <1>8. reported' \in {"running", "stopped", "failed"} /\ challenge' \in Hosts \union {NoHost}
        /\ (reported' = "running" => UNCHANGED reported)
    BY <1>1, <1>3 DEF TypeOK
  <1> QED BY <1>2, <1>3, <1>4, <1>5, <1>7, <1>8, DisownedKeeps DEF Cleanup

LEMMA LateKeeps ==
  ASSUME HostInv, up, NEW t \in Threads, Late(t)
  PROVE  HostInv'
  <1>1. Mine(t) <=> thread[t].asking
    BY DEF Late, Mine, HostInv, Asked
  <1>2. Disowned(t)
    BY <1>1 DEF Late, Disowned
  <1> QED BY <1>2, RequestRefused DEF Late

\* The Core that obeyed a reset or a stop is the only one that lives.
LEMMA ObeyedIsQuiet ==
  ASSUME HostInv, NEW t \in Threads, Mine(t), frame.answer = "ok",
         thread[t].at \in {"reset", "stop", "tail"}
  PROVE  ~Proxying
  <1>1. /\ thread[t].at \in Asks /\ frame.at = thread[t].at
        /\ frame.host # process => process = NoHost
    BY DEF HostInv, Asked, Mine
  <1>2. \A h \in Own : life[h] \in Live => process = h
    BY <1>1, AskingFrom, LiveIsOwned
  <1>3. \A h \in Own : life[h] \in Live => frame.host = h
    BY <1>1, <1>2, HostFacts
  <1> QED BY <1>1, <1>3 DEF HostInv, RuntimeInv, Proxying

LEMMA ReceiveKeeps ==
  ASSUME HostInv, up, NEW t \in Threads, Receive(t)
  PROVE  HostInv'
  <1>1. /\ TypeOK /\ Role(t, thread[t]) /\ Mine(t) /\ thread[t].asking
        /\ thread[t].at \in Asks /\ frame.at = thread[t].at /\ frame' = NoFrame
        /\ UNCHANGED <<up, life, runtime, process, job>>
    BY DEF Receive, Mine, HostInv, Roles, Asked
  <1>2. Disowned(t)
    BY <1>1 DEF Disowned
  <1>3. CASE frame.answer # "ok"
    BY <1>1, <1>2, <1>3, RequestRefused DEF Receive
  <1>4. CASE frame.answer = "ok"
    <2>1. Accepted(t)
      BY <1>4 DEF Receive
    <2>2. challenge' = IF frame.at = "challenge" THEN frame.host ELSE challenge
      BY <1>4 DEF Receive
    <2>3. PICK k \in Thread :
           /\ Moved(t, k) /\ ~k.asking
           /\ reported' \in {"running", "stopped", reported}
           /\ stopFailed' \in BOOLEAN
           /\ \/ /\ thread[t].at = "reset" /\ k.at = "begin"
                 /\ UNCHANGED reported
              \/ /\ \/ thread[t].at = "catalog" /\ k.at = "validate"
                    \/ thread[t].at = "validate" /\ k.at = "challenge"
                    \/ thread[t].at = "challenge" /\ k.at = "permit"
                    \/ thread[t].at = "shutdown" /\ k.at = "exit"
                 /\ k.hosted = thread[t].hosted
                 /\ UNCHANGED <<reported, stopFailed>>
              \/ thread[t].at = "authorize" /\ k = Idle /\ reported' = "running"
              \/ thread[t].at = "authorize" /\ k.at = "tail" /\ UNCHANGED reported
              \/ /\ thread[t].at \in {"stop", "tail"} /\ k = Idle
                 /\ reported' = "stopped"
      BY <1>1, <2>1, AcceptedMoves
    <2>4. /\ thread[t].at # "tail" => Holds(t)
          /\ thread[t].at \notin {"stop", "shutdown"} => t = "worker"
          /\ thread[t].at \in {"catalog", "validate", "challenge", "authorize"}
               => thread[t].hosted
      BY <1>1, AskingFrom
    <2>5. /\ thread' \in [Threads -> Thread] /\ thread'[t] = k
          /\ \A s \in Threads \ {t} : thread'[s] = thread[s]
      BY <1>1, <2>3, MovedFields
    <2>6. k.at \in {"idle", "begin", "validate", "challenge", "permit", "exit", "tail"}
      BY <2>3 DEF Idle
    <2>7. Role(t, k)
      BY <2>3, <2>4, <2>6 DEF Role, Hosted, Cleanup, Idle
    <2>8. PermitInv'
      <3>1. FramesToOwned'
        BY <1>1 DEF FramesToOwned, NoFrame
      <3>2. ASSUME thread'["worker"].at \in {"permit", "authorize"}
            PROVE  challenge' = process
        <4>1. CASE t = "worker"
          <5>1. frame.at = "challenge"
            BY <1>1, <2>3, <2>5, <3>2, <4>1 DEF Idle
          <5> QED BY <1>1, <2>2, <5>1 DEF HostInv, Asked
        <4>2. CASE t = "tk"
          <5>1. Holds("worker") /\ thread["worker"].at \in {"permit", "authorize"}
            BY <2>5, <3>2, <4>2, ThreadFacts DEF Holds
          <5> QED BY <2>4, <4>2, <5>1, ThreadFacts
              DEF HostInv, Alone
        <4> QED BY <4>1, <4>2, ThreadFacts
      <3> QED BY <1>1, <3>1, <3>2 DEF PermitInv
    <2>9. thread[t].at \in {"reset", "stop", "tail"} => ~Proxying
      BY <1>1, <1>4, ObeyedIsQuiet
    <2>10. /\ k.at \in {"begin", "fresh"} => ~Proxying
           /\ k.at = "idle" => ~Proxying \/ reported' = "running"
      BY <2>3, <2>9 DEF Idle
    <2>11. /\ reported' \in {"running", "stopped", "failed"}
           /\ reported' = "running" => UNCHANGED reported \/ t = "worker"
           /\ challenge' \in Hosts \union {NoHost}
      BY <1>1, <2>2, <2>3, <2>4 DEF TypeOK
    <2>12. k.at \in {"idle", "tail"} \/ Holds(t)
      BY <2>3, <2>4 DEF Idle
    <2> QED BY <1>1, <1>2, <2>3, <2>6, <2>7, <2>8, <2>10, <2>11, <2>12, DisownedKeeps
  <1> QED BY <1>3, <1>4

LEMMA AskKeeps ==
  ASSUME HostInv, up, NEW t \in Threads, Ask(t)
  PROVE  HostInv'
  <1>1. /\ thread[t].at \in Asks /\ ~thread[t].asking /\ frame = NoFrame
        /\ UNCHANGED <<up, life, runtime, process, job, challenge>>
    BY DEF Ask
  <1>2. CASE Refused(t) /\ UNCHANGED frame
    BY <1>1, <1>2, RequestRefused DEF Disowned
  <1>3. CASE \E h \in Hosts :
               /\ life[h] = "serving" /\ h = Owned
               /\ frame' = [host |-> h, at |-> thread[t].at, by |-> t,
                            answer |-> "none", open |-> TRUE]
               /\ thread' = [thread EXCEPT ![t].asking = TRUE]
               /\ UNCHANGED <<reported, stopFailed>>
    <2> DEFINE k == [thread[t] EXCEPT !.asking = TRUE]
    <2>1. PICK h \in Hosts :
            /\ h = Owned
            /\ frame' = [host |-> h, at |-> thread[t].at, by |-> t,
                         answer |-> "none", open |-> TRUE]
            /\ thread' = [thread EXCEPT ![t].asking = TRUE]
            /\ UNCHANGED <<reported, stopFailed>>
      BY <1>3
    <2>2. TypeOK /\ Role(t, thread[t]) /\ thread \in [Threads -> Thread]
      BY DEF HostInv, Roles, TypeOK, Thread
    <2>3. h = process /\ h \in Own /\ life[h] # "none"
      BY <2>1, <2>2, HostFacts DEF Owned, Runs, TypeOK, Live
    <2>4. /\ k \in Thread /\ k.at = thread[t].at /\ k.asking = TRUE
          /\ k.want = thread[t].want /\ k.hosted = thread[t].hosted
      BY <2>2 DEF Thread
    <2>5. Moved(t, k)
      BY <2>1, <2>2 DEF Moved
    <2> HIDE DEF k
    <2>6. /\ thread' \in [Threads -> Thread] /\ thread'[t] = k
          /\ \A s \in Threads \ {t} : thread'[s] = thread[s]
      BY <2>2, <2>4, <2>5, MovedFields
    <2>7. /\ frame'.host = h /\ frame'.at = thread[t].at /\ frame'.by = t
          /\ frame'.answer = "none" /\ frame'.open = TRUE
      BY <2>1
    <2>8. \A s \in Threads : thread'[s].at = thread[s].at
      BY <2>4, <2>6
    <2>9. \A s \in Threads \ {t} : ~thread[s].asking
      BY <1>1 DEF HostInv, Asked, NoFrame
    <2>10. TypeOK'
      <3>1. frame' \in [host : Hosts \union {NoHost}, at : Asks \union {"idle"},
                        by : Threads, answer : {"none", "ok", "failed", "closed"},
                        open : BOOLEAN]
        BY <1>1, <2>1
      <3> QED BY <1>1, <2>1, <2>2, <2>6, <3>1 DEF TypeOK, Thread
    <2>11. \A n : Spawned(n)' <=> Spawned(n)
      BY <1>1 DEF Spawned
    <2>12. Alone' /\ StartWanted'
      BY <1>1, <2>1, <2>4, <2>6, <2>8, ThreadFacts
      DEF HostInv, Alone, Holds, StartWanted, Asks
    <2>13. Roles'
      BY <1>1, <2>2, <2>4, <2>6 DEF HostInv, Roles, Role
    <2>14. Asked'
      BY <1>1, <2>3, <2>4, <2>6, <2>7, <2>9 DEF Asked
    <2>15. JobInv'
      BY <1>1, <2>8, <2>11, ThreadFacts DEF HostInv, JobInv
    <2>16. PermitInv'
      <3>1. thread[t].at = "authorize" => challenge = process
        BY <1>1, AskingFrom DEF HostInv, PermitInv
      <3> QED BY <1>1, <2>3, <2>7, <2>8, <3>1, ThreadFacts
          DEF HostInv, PermitInv, FramesToOwned
    <2>17. RuntimeInv'
      <3>1. thread[t].at = "authorize" => thread["worker"].at = "authorize"
        BY <1>1, AskingFrom
      <3>2. Proxying' <=> Proxying
        BY <1>1 DEF Proxying
      <3>3. NoUnattendedRuntime'
        BY <1>1, <2>1, <2>8 DEF HostInv, RuntimeInv, NoUnattendedRuntime, Holds
      <3> QED BY <1>1, <2>1, <2>3, <2>7, <2>8, <3>1, <3>2, <3>3, ThreadFacts
          DEF HostInv, RuntimeInv
    <2> QED BY <2>10, <2>11, <2>12, <2>13, <2>14, <2>15, <2>16, <2>17 DEF HostInv
  <1> QED BY <1>2, <1>3 DEF Ask

(***************************************************************************)
(* The Core's side.                                                        *)
(***************************************************************************)
\* A Core that serves or ends changes its life, and perhaps its frame.
HostMoves(h, l) ==
  /\ life' = [life EXCEPT ![h] = l] /\ l # "none" /\ life[h] # "none"
  /\ l \in Live => life[h] \in Live

LEMMA HostKeeps ==
  ASSUME HostInv, NEW h \in Hosts, NEW l \in Lives, HostMoves(h, l),
         UNCHANGED <<up, process, job, thread, challenge, reported, stopFailed>>,
         runtime' \in [Hosts -> BOOLEAN],
         \A g \in Hosts : runtime'[g] =>
            \/ runtime[g]
            \/ g = frame.host /\ frame.at = "authorize" /\ frame.answer = "none"
                 /\ life[g] \in Live,
         \/ UNCHANGED frame
         \/ frame' = NoFrame /\ ~frame.open
         \/ /\ frame.open /\ frame.host = h
            /\ \E a \in {"ok", "failed", "closed"} :
                 /\ frame' = [frame EXCEPT !.answer = a]
                 /\ a = "ok" /\ frame.at \in {"reset", "stop", "tail", "shutdown"}
                      => ~runtime'[h]
  PROVE  HostInv'
  <1>a. /\ TypeOK /\ Alone /\ Roles /\ StartWanted /\ Asked /\ JobInv /\ PermitInv
        /\ RuntimeInv
    BY DEF HostInv
  <1>1. /\ life \in [Hosts -> Lives] /\ life' \in [Hosts -> Lives]
        /\ \A g \in Hosts : life'[g] \in Live => life[g] \in Live
        /\ \A g \in Hosts : (life'[g] = "none") <=> (life[g] = "none")
    <2>1. life \in [Hosts -> Lives]
      BY <1>a DEF TypeOK
    <2>2. \A g \in Hosts : life'[g] = IF g = h THEN l ELSE life[g]
      BY <2>1 DEF HostMoves
    <2>3. life' \in [Hosts -> Lives]
      BY <2>1 DEF HostMoves
    <2> QED BY <2>1, <2>2, <2>3 DEF HostMoves
  <1>2. \/ UNCHANGED frame
        \/ frame' = NoFrame /\ ~frame.open
        \/ /\ frame.open
           /\ \E a \in {"ok", "failed", "closed"} : frame' = [frame EXCEPT !.answer = a]
    OBVIOUS
  <1>3. TypeOK'
    <2> DEFINE Frames == [host : Hosts \union {NoHost}, at : Asks \union {"idle"},
                          by : Threads, answer : {"none", "ok", "failed", "closed"},
                          open : BOOLEAN]
    <2>1. frame \in Frames
      BY DEF HostInv, TypeOK
    <2>2. NoFrame \in Frames
      BY ThreadFacts DEF NoFrame
    <2>3. frame' \in Frames
      BY <1>2, <2>1, <2>2
    <2> QED BY <1>1, <2>3 DEF HostInv, TypeOK
  <1>4. \A n : Spawned(n)' <=> Spawned(n)
    BY <1>1, HostFacts DEF Spawned
  <1>5. Alone' /\ Roles' /\ StartWanted'
    <2>1. Alone'
      BY <1>a DEF Alone, Holds
    <2>2. Roles'
      BY <1>a DEF Roles, Role
    <2>3. StartWanted'
      BY <1>a DEF StartWanted
    <2> QED BY <2>1, <2>2, <2>3
  <1>6. Asked'
    BY <1>2, <1>a DEF Asked, TypeOK
  <1>7. JobInv'
    BY <1>1, <1>4, <1>a, HostFacts DEF JobInv
  <1>8. PermitInv'
    BY <1>2, <1>a, HostFacts DEF PermitInv, FramesToOwned, TypeOK, NoFrame
  <1>9. RuntimeInv'
    <2>1. Proxying' => Proxying \/ thread["worker"].at \in {"authorize"} \union Cleanup
      BY <1>1, <1>a, HostFacts DEF Proxying, RuntimeInv
    <2>2. frame'.host \in Own => life'[frame'.host] # "none"
      BY <1>1, <1>2, <1>a, HostFacts DEF RuntimeInv, NoFrame, TypeOK
    <2>3. frame'.answer = "ok" /\ frame'.host \in Own
            /\ frame'.at \in {"reset", "stop", "tail", "shutdown"}
          => ~runtime'[frame'.host]
      <3>1. CASE UNCHANGED frame
        BY <1>a, <3>1, HostFacts DEF RuntimeInv
      <3>2. CASE frame' = NoFrame
        BY <3>2 DEF NoFrame
      <3>3. CASE frame.host = h /\ frame' # NoFrame /\ frame' # frame
        BY <1>a, <3>3 DEF TypeOK
      <3> QED BY <3>1, <3>2, <3>3
    <2>4. frame'.host \in Own /\ frame'.at = "authorize" /\ frame'.answer = "none"
            /\ life'[frame'.host] \in Live
          => thread["worker"].at \in {"authorize"} \union Cleanup
      BY <1>1, <1>2, <1>a, HostFacts DEF RuntimeInv, NoFrame, TypeOK
    <2>5. thread["worker"].at \in {"begin", "fresh"} /\ Proxying' => stopFailed
      BY <1>a, <2>1 DEF RuntimeInv, Cleanup
    <2>6. NoUnattendedRuntime'
      <3> SUFFICES ASSUME \A s \in Threads : ~Holds(s), Proxying'
                   PROVE  \/ reported = "running" \/ stopFailed
                          \/ \E s \in Threads : thread[s].at = "tail"
        BY DEF NoUnattendedRuntime, Proxying, Holds
      <3>1. Proxying
        BY <2>1, ThreadFacts DEF Holds, Cleanup
      <3> QED BY <1>a, <3>1 DEF RuntimeInv, NoUnattendedRuntime, Proxying
    <2> QED BY <2>2, <2>3, <2>4, <2>5, <2>6 DEF RuntimeInv
  <1> QED BY <1>3, <1>4, <1>5, <1>6, <1>7, <1>8, <1>9, <1>a DEF HostInv

LEMMA CoreSideKeeps ==
  ASSUME HostInv, NEW h \in Hosts, Serve(h) \/ Handle(h) \/ Die(h)
  PROVE  HostInv'
  <1>1. /\ life \in [Hosts -> Lives] /\ runtime \in [Hosts -> BOOLEAN]
        /\ {"serving", "exiting", "dead"} \subseteq Lives
        /\ UNCHANGED <<up, process, job, thread, challenge, reported, stopFailed>>
    BY DEF HostInv, TypeOK, Lives, Live, Serve, Handle, Die
  <1>2. CASE Serve(h)
    <2>1. HostMoves(h, "serving")
      BY <1>2 DEF Serve, HostMoves, Live
    <2>2. UNCHANGED <<runtime, frame>>
      BY <1>2 DEF Serve
    <2> QED BY <1>1, <2>1, <2>2, HostKeeps
  <1>3. CASE Die(h)
    <2>1. HostMoves(h, "dead")
      BY <1>3 DEF Die, HostMoves, Live
    <2>2. runtime' = [runtime EXCEPT ![h] = FALSE]
      BY <1>3 DEF Die
    <2>3. /\ runtime' \in [Hosts -> BOOLEAN] /\ ~runtime'[h]
          /\ \A g \in Hosts : runtime'[g] => runtime[g]
      BY <1>1, <2>2
    <2>4. \/ UNCHANGED frame
          \/ frame' = NoFrame /\ ~frame.open
          \/ frame.open /\ frame.host = h /\ frame' = [frame EXCEPT !.answer = "closed"]
      BY <1>3 DEF Die
    <2> QED BY <1>1, <2>1, <2>3, <2>4, HostKeeps
  <1>4. CASE Handle(h)
    <2>1. PICK ok \in BOOLEAN :
        /\ frame' = IF frame.open THEN [frame EXCEPT !.answer = IF ok THEN "ok" ELSE "failed"]
                    ELSE NoFrame
        /\ runtime' = [runtime EXCEPT ![h] =
             IF ok /\ frame.at = "authorize" THEN TRUE
             ELSE IF ok /\ frame.at \in {"reset", "stop", "tail", "shutdown"} THEN FALSE ELSE @]
        /\ life' = [life EXCEPT ![h] = IF ok /\ frame.at = "shutdown" THEN "exiting" ELSE @]
      BY <1>4 DEF Handle
    <2>2. life[h] = "serving" /\ frame.host = h /\ frame.answer = "none"
      BY <1>4 DEF Handle
    <2> DEFINE l == IF ok /\ frame.at = "shutdown" THEN "exiting" ELSE "serving"
    <2>3. HostMoves(h, l) /\ l \in Lives
      BY <1>1, <2>1, <2>2 DEF HostMoves, Live
    <2> HIDE DEF l
    <2>4. /\ runtime' \in [Hosts -> BOOLEAN]
          /\ \A g \in Hosts : runtime'[g] =>
               \/ runtime[g]
               \/ g = h /\ frame.at = "authorize"
          /\ ok /\ frame.at \in {"reset", "stop", "tail", "shutdown"} => ~runtime'[h]
      BY <1>1, <2>1
    <2>5. \/ frame' = NoFrame /\ ~frame.open
          \/ /\ frame.open
             /\ \E a \in {"ok", "failed", "closed"} :
                  /\ frame' = [frame EXCEPT !.answer = a]
                  /\ a = "ok" /\ frame.at \in {"reset", "stop", "tail", "shutdown"}
                       => ~runtime'[h]
      <3>1. CASE ok
        BY <2>1, <2>4, <3>1
      <3>2. CASE ~ok
        BY <2>1, <3>2
      <3> QED BY <3>1, <3>2
    <2>6. life[h] \in Live
      BY <2>2 DEF Live
    <2> QED BY <1>1, <2>2, <2>3, <2>4, <2>5, <2>6, HostKeeps
  <1> QED BY <1>2, <1>3, <1>4

\* The end of the launcher closes the job, whoever is in the middle of what.
LEMMA LauncherEndsKeeps ==
  ASSUME HostInv, LauncherEnds
  PROVE  HostInv'
  <1>a. /\ TypeOK /\ Alone /\ Roles /\ Asked /\ JobInv /\ PermitInv /\ RuntimeInv
    BY DEF HostInv
  <1>1. /\ up' = FALSE /\ Kills(life') /\ Forget
        /\ thread' = [t \in Threads |-> Idle]
        /\ frame' = IF frame.answer = "none" THEN [frame EXCEPT !.open = FALSE] ELSE NoFrame
        /\ UNCHANGED <<runtime, challenge, reported, stopFailed>>
    BY JobKills DEF LauncherEnds
  <1>2. Idle \in Thread /\ ~Idle.asking /\ Idle.at = "idle"
    BY DEF Idle, Thread, Steps, Wants
  <1>3. \A t \in Threads : thread'[t] = Idle
    BY <1>1
  <1>4. TypeOK'
    <2> DEFINE Frames == [host : Hosts \union {NoHost}, at : Asks \union {"idle"},
                          by : Threads, answer : {"none", "ok", "failed", "closed"},
                          open : BOOLEAN]
    <2>1. frame \in Frames
      BY <1>a DEF TypeOK
    <2>2. NoFrame \in Frames /\ [frame EXCEPT !.open = FALSE] \in Frames
      BY <2>1, ThreadFacts DEF NoFrame
    <2>3. frame' \in Frames
      BY <1>1, <2>2
    <2>4. thread' \in [Threads -> Thread]
      BY <1>1, <1>2
    <2> QED BY <1>1, <1>a, <2>3, <2>4 DEF TypeOK, Kills, Forget, Thread
  <1>5. \A n : Spawned(n)' <=> Spawned(n)
    BY <1>1, HostFacts DEF Spawned, Kills
  <1>6. Alone' /\ Roles' /\ StartWanted' /\ Asked'
    BY <1>2, <1>3, ThreadFacts DEF Alone, Holds, Roles, Role, Hosted, StartWanted, Asked
  <1>7. JobInv'
    BY <1>1, <1>2, <1>3, ThreadFacts DEF JobInv, Kills, Forget
  <1>8. PermitInv'
    BY <1>1, <1>2, <1>3, <1>a, ThreadFacts DEF PermitInv, FramesToOwned, NoFrame, TypeOK
  <1>9. RuntimeInv'
    <2>1. ~Proxying' /\ thread'["worker"].at = "idle"
      BY <1>1, <1>2, <1>3, ThreadFacts DEF Proxying, Kills
    <2>2. frame'.host \in Own => life'[frame'.host] # "none"
      BY <1>1, <1>a, HostFacts DEF RuntimeInv, NoFrame, TypeOK, Kills
    <2>3. frame'.answer # "ok"
      BY <1>1, <1>a DEF NoFrame, TypeOK
    <2>4. NoUnattendedRuntime'
      BY <2>1 DEF NoUnattendedRuntime, Proxying
    <2>5. frame'.host \in Own => life'[frame'.host] \notin Live
      BY <1>1 DEF Kills
    <2> QED BY <2>1, <2>2, <2>3, <2>4, <2>5 DEF RuntimeInv
  <1> QED BY <1>4, <1>5, <1>6, <1>7, <1>8, <1>9, <1>a DEF HostInv

(***************************************************************************)
(* The theorems.                                                           *)
(***************************************************************************)
LEMMA InitKeeps ==
  ASSUME Init
  PROVE  HostInv
  <1>1. Idle \in Thread /\ ~Idle.asking /\ Idle.at = "idle"
    BY DEF Idle, Thread, Steps, Wants
  <1>2. \A t \in Threads : thread[t] = Idle
    BY DEF Init
  <1>3. \A h \in Own : life[h] = "none"
    BY HostFacts DEF Init
  <1>4. TypeOK
    BY <1>1, HostFacts, ThreadFacts DEF Init, TypeOK, Lives, Live, NoFrame, Thread
  <1>5. Spawned(Stray)
    BY <1>3, HostFacts DEF Spawned, Stray
  <1>6. Alone /\ Roles /\ StartWanted /\ Asked
    BY <1>1, <1>2, ThreadFacts DEF Alone, Holds, Roles, Role, Hosted, StartWanted, Asked
  <1>7. JobInv
    BY <1>1, <1>2, <1>3, ThreadFacts DEF Init, JobInv, Live
  <1>8. PermitInv /\ RuntimeInv
    BY <1>1, <1>2, <1>3, HostFacts, ThreadFacts
    DEF Init, PermitInv, FramesToOwned, RuntimeInv, NoUnattendedRuntime, Proxying,
        NoFrame, Live
  <1> QED BY <1>4, <1>5, <1>6, <1>7, <1>8, HostFacts DEF HostInv

\* The inductive invariant: the lock, the job, the pipe and the adapter agree.
THEOREM HostsHold == Spec => []HostInv
  <1>1. Init => HostInv
    BY InitKeeps
  <1>2. HostInv /\ [Next]_vars => HostInv'
    <2> SUFFICES ASSUME HostInv, [Next]_vars
                 PROVE  HostInv'
      OBVIOUS
    <2>1. CASE UNCHANGED vars
      BY <2>1
      DEF vars, HostInv, TypeOK, Spawned, Alone, Holds, Roles, Role, StartWanted, Asked,
          JobInv, PermitInv, FramesToOwned, RuntimeInv, NoUnattendedRuntime, Proxying
    <2>2. CASE Next
      BY <2>2, WantKeeps, EnterKeeps, QuietStepsKeep, DiscardKeeps, CreateKeeps,
         AdoptKeeps, AskKeeps, LateKeeps, ReceiveKeeps, ExitKeeps, CoreSideKeeps,
         LauncherEndsKeeps DEF Next, Step
    <2> QED BY <2>1, <2>2
  <1> QED BY <1>1, <1>2, PTL DEF Spec

\* A request is only ever at a Core of this launcher, and a permit at the Core
\* whose challenge it answers, for any number of spawned hosts.
THEOREM RequestsReachTheirCore == Spec => []FramesToOwned
  <1>1. HostInv => FramesToOwned
    BY DEF HostInv, PermitInv
  <1> QED BY <1>1, HostsHold, PTL

\* No Core is left behind, and no proxy runs that nobody accounts for.
THEOREM NoCoreLeftBehind == Spec => []HostOK
  <1>1. HostInv => HostOK
    <2> SUFFICES ASSUME HostInv
                 PROVE  HostOK
      OBVIOUS
    <2>1. ForgottenIsDead
      BY HostFacts, ThreadFacts DEF HostInv, JobInv, ForgottenIsDead
    <2> QED BY <2>1 DEF HostInv, RuntimeInv, HostOK
  <1> QED BY <1>1, HostsHold, PTL
===============================================================================
