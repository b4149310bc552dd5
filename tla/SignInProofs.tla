----------------------------- MODULE SignInProofs -----------------------------
(***************************************************************************)
(* What holds of SignIn under Spec, for any number of sign-ins, turns,     *)
(* launches and faults.                                                    *)
(***************************************************************************)
EXTENDS SignIn, TLAPS

Thread == [job : Jobs, at : Steps, retried : BOOLEAN]
Flow == [number : 0..MaxFlows, cancelled : BOOLEAN,
         listener : {"none", "open", "called", "cancelled", "closing"}]
Statuses == {"signed_out", "authenticating", "authenticated", "failed"}

\* A thread that stands here has the lock.
Holding(k) == k.at \in {"load", "exchange", "me"}

\* The steps of a browser sign-in that have its number.
Numbered == FlowSteps \ {"clear"}

\* Where a job takes a thread: the closer only releases, the worker does the rest.
Role(t, k) ==
  /\ k.job = "none" <=> k.at = "idle"
  /\ k.job = "login" => k.at \in FlowSteps \union {"save", "me", "load", "exchange"}
  /\ k.job = "restore" => k.at \in {"restore", "me", "load", "exchange"}
  /\ k.job \notin {"none", "login", "restore"} =>
       k.at \in {"token", "call", "refresh", "load", "exchange", "forget"}
  /\ t = "closer" => k.job \in {"none", "release"} /\ k.at # "forget"
  /\ t = "worker" => k.job # "release"

Roles ==
  /\ \A t \in Threads : Role(t, thread[t]) /\ (up \/ thread[t].job = "none")
  /\ ~closing => thread["closer"].job = "none"

\* A session is of an account that is signed in, and nobody signs in beside one.
Standing ==
  /\ session \/ thread["worker"].job \in {"coupon", "claim"}
       => status = "authenticated"
  /\ thread["worker"].job = "login" =>
       status = "authenticating" /\ thread["closer"].job = "none"

\* What is stored, or sent, is of a family that was made, and a sign-in that is
\* under way makes one that is later than any that is stored.
Flown ==
  /\ vault[1] <= flow.number /\ sent[1] <= flow.number
  /\ \A f \in Families : f > flow.number => turn[f] = 0
  /\ LET at == thread["worker"].at IN
     /\ at = "clear" => flow.number < MaxFlows
     /\ at \in Numbered => turn[flow.number] = 0
     /\ at = "save" => turn[flow.number] = 1
     /\ at \in Numbered \union {"save"} => vault[1] < flow.number

\* An exchange is of the token that is stored.
Sent ==
  /\ \A t \in Threads : thread[t].at = "exchange" => sent # None /\ sent = vault
  /\ sent # None => \/ \E t \in Threads : thread[t].at = "exchange"
                    \/ ~up /\ broken
  /\ answer # "none" => sent # None
  /\ answer = "rotated" => turn[sent[1]] = sent[2] + 1

\* Unless something broke, what is stored is the last of its family, or has just
\* been exchanged for it.
Unspent ==
  /\ ~broken /\ vault # None =>
       turn[vault[1]] = vault[2] \/ answer = "rotated"
  /\ ReuseNeedsFault

\* What would make a credential again does not follow a sign-out.
Forgotten ==
  /\ up /\ forgotten => thread["worker"].job \notin {"login", "restore"}
  /\ SignOutSticks

\* A sign-in that was cancelled knows it, and has not got its tokens.
Cancelled ==
  pressed /\ thread["worker"].job = "login" =>
    flow.cancelled /\ thread["worker"].at \in Numbered

SignInInv ==
  /\ TypeOK /\ Roles /\ Standing /\ Flown /\ Sent /\ Unspent /\ Forgotten /\ Cancelled

(***************************************************************************)
(* Operators.                                                              *)
(***************************************************************************)
LEMMA ThreadFacts ==
  /\ "worker" \in Threads /\ "closer" \in Threads
  /\ \A t \in Threads : t = "worker" \/ t = "closer"
  /\ "none" \notin Threads
  BY DEF Threads

LEMMA IdleFacts ==
  /\ Idle \in Thread /\ Idle.job = "none" /\ Idle.at = "idle"
  /\ \A t \in Threads : Role(t, Idle)
  BY DEF Idle, Thread, Jobs, Steps, Role, Threads, FlowSteps

LEMMA NoneFacts ==
  /\ None \in Tokens /\ None[1] = 0 /\ 0 \in Families
  /\ \A v \in Tokens : v[1] \in Families /\ v[2] \in 0..MaxTurns /\ v = <<v[1], v[2]>>
  BY SignInAssumption DEF None, Tokens, Families

Moved(t, k) == thread' = [thread EXCEPT ![t] = k]

LEMMA MovedFields ==
  ASSUME TypeOK, NEW t \in Threads, NEW k \in Thread, Moved(t, k)
  PROVE  /\ thread' \in [Threads -> Thread]
         /\ thread'[t] = k
         /\ \A s \in Threads \ {t} : thread'[s] = thread[s]
  BY DEF TypeOK, Thread, Moved

LEMMA GoMoves ==
  ASSUME TypeOK, NEW t \in Threads, NEW step \in Steps, Go(t, step)
  PROVE  \E k \in Thread : /\ Moved(t, k)
                           /\ k.at = step /\ k.job = thread[t].job
                           /\ k.retried = thread[t].retried
  <1> DEFINE k == [thread[t] EXCEPT !.at = step]
  <1>1. thread \in [Threads -> Thread]
    BY DEF TypeOK, Thread
  <1>2. k \in Thread /\ k.at = step /\ k.job = thread[t].job
        /\ k.retried = thread[t].retried
    BY <1>1 DEF Thread
  <1>3. Moved(t, k)
    BY <1>1 DEF Go, Moved
  <1> QED BY <1>2, <1>3

LEMMA FinishMoves ==
  ASSUME NEW t \in Threads, Finish(t)
  PROVE  Moved(t, Idle)
  BY DEF Finish, Moved

\* Who stands where.
LEMMA Standings ==
  ASSUME SignInInv, NEW t \in Threads, thread[t].at # "idle"
  PROVE  /\ up /\ thread[t].job # "none"
         /\ t = "closer" => thread[t].job = "release" /\ thread["worker"].job # "login"
         /\ thread[t].at \in FlowSteps \union {"save"} => thread[t].job = "login"
         /\ thread[t].at = "restore" => thread[t].job = "restore"
         /\ thread[t].at = "me" => thread[t].job \in {"login", "restore"}
         /\ thread[t].at \in {"token", "call", "refresh", "forget"}
              => thread[t].job \notin {"none", "login", "restore"}
         /\ thread[t].at = "forget" => t = "worker"
         /\ thread[t].job \in {"login", "restore"} => t = "worker"
         /\ thread[t].job = "login" =>
              /\ status = "authenticating" /\ session = FALSE
              /\ thread["closer"].job = "none" /\ lock \in {"none", t}
         /\ Holding(thread[t]) <=> lock = t
  <1>1. Role(t, thread[t]) /\ (up \/ thread[t].job = "none")
    BY DEF SignInInv, Roles
  <1>2. up /\ thread[t].job # "none"
    BY <1>1 DEF Role
  <1>3. /\ thread[t].at \in FlowSteps \union {"save"} => thread[t].job = "login"
        /\ thread[t].at = "restore" => thread[t].job = "restore"
        /\ thread[t].at = "me" => thread[t].job \in {"login", "restore"}
        /\ thread[t].at \in {"token", "call", "refresh", "forget"}
             => thread[t].job \notin {"none", "login", "restore"}
        /\ thread[t].at = "forget" => t = "worker"
        /\ thread[t].job \in {"login", "restore"} => t = "worker"
    BY <1>1, ThreadFacts DEF Role, FlowSteps
  <1>4. Holding(thread[t]) <=> lock = t
    BY <1>2 DEF SignInInv, TypeOK, Holding
  <1>5. ASSUME thread[t].job = "login"
        PROVE  /\ status = "authenticating" /\ session = FALSE
               /\ thread["closer"].job = "none" /\ lock \in {"none", t}
    <2>1. t = "worker"
      BY <1>3, <1>5
    <2>2. status = "authenticating" /\ thread["closer"].job = "none"
      BY <1>5, <2>1 DEF SignInInv, Standing
    <2>3. session = FALSE
      BY <2>2 DEF SignInInv, Standing, TypeOK
    <2>4. thread["closer"].at = "idle"
      BY <2>2, ThreadFacts DEF SignInInv, Roles, Role
    <2>5. lock # "closer"
      BY <1>2, <2>4, ThreadFacts DEF SignInInv, TypeOK
    <2>6. lock \in {"none", t}
      BY <2>1, <2>5, ThreadFacts DEF SignInInv, TypeOK
    <2> QED BY <2>2, <2>3, <2>6
  <1>6. t = "closer" => thread[t].job = "release" /\ thread["worker"].job # "login"
    BY <1>1, <1>2 DEF SignInInv, Standing, Role
  <1> QED BY <1>2, <1>3, <1>4, <1>5, <1>6

(***************************************************************************)
(* Steps of a thread that make no token: what is stored stays or goes.     *)
(***************************************************************************)

\* Where the step leaves the thread, and the lock.
Lands(t, k) ==
  /\ thread[t].at # "idle"
  /\ Moved(t, k) /\ Role(t, k)
  /\ lock' \in Threads \union {"none"}
  /\ lock' = t <=> Holding(k)
  /\ lock' = t => Free(t)
  /\ lock' # t => lock' = IF lock = t THEN "none" ELSE lock

\* What it does to the account.
Stands(t, k) ==
  /\ status' \in Statuses /\ session' \in BOOLEAN
  /\ t = "closer" => UNCHANGED <<status, session>>
  /\ session' \/ (t = "worker" /\ k.job \in {"coupon", "claim"})
       => status' = "authenticated"
  /\ k.job = "login" => thread[t].job = "login" /\ UNCHANGED status

\* How far it takes a sign-in.
Signs(t, k) ==
  /\ k.job = "restore" => thread[t].job = "restore"
  /\ flow' \in Flow /\ flow'.number = flow.number
  /\ flow'.cancelled = flow.cancelled
  /\ k.at \in FlowSteps \union {"save"} =>
       /\ k.at \in Numbered /\ thread[t].at \in Numbered
       /\ vault' = vault
  /\ k.at \notin FlowSteps /\ k.job = "login" => thread[t].at \notin Numbered

\* What becomes of the credential.
Loses(t, k) ==
  /\ k.at # "exchange"
  /\ vault' \in {vault, None}
  /\ vault' # vault => Free(t)
  /\ IF thread[t].at = "exchange"
     THEN sent' = None /\ answer' = "none" /\ (vault' = None \/ broken' = TRUE)
     ELSE UNCHANGED <<sent, answer>>
  /\ faults' \in 0..MaxFaults /\ broken' \in BOOLEAN
  /\ broken => broken'
  /\ memory' \in BOOLEAN /\ (memory' => memory)

LEMMA LossKeeps ==
  ASSUME SignInInv, NEW t \in Threads, NEW k \in Thread,
         Lands(t, k), Stands(t, k), Signs(t, k), Loses(t, k),
         UNCHANGED <<server, process, pressed, reused>>,
         forgotten' \in BOOLEAN,
         forgotten' => \/ forgotten
                       \/ /\ vault' = None \/ broken' = TRUE
                          /\ memory' = FALSE /\ t = "worker" /\ k = Idle
  PROVE  SignInInv'
  <1>1. /\ thread' \in [Threads -> Thread] /\ thread'[t] = k
        /\ \A s \in Threads \ {t} : thread'[s] = thread[s]
    BY MovedFields DEF SignInInv, Lands
  <1>2. /\ up /\ thread[t].job # "none"
        /\ t = "closer" => thread[t].job = "release" /\ thread["worker"].job # "login"
        /\ Holding(thread[t]) <=> lock = t
    BY Standings DEF Lands
  <1>3. vault' \in Tokens /\ sent' \in Tokens /\ answer' \in {"none", "rotated", "refused"}
    BY NoneFacts DEF SignInInv, TypeOK, Loses
  <1>4. TypeOK'
    <2>1. \A s \in Threads : lock' = s <=> Holding(thread'[s])
      <3> SUFFICES ASSUME NEW s \in Threads
                   PROVE  lock' = s <=> Holding(thread'[s])
        OBVIOUS
      <3>1. CASE s = t
        BY <1>1, <3>1 DEF Lands
      <3>2. CASE s # t
        <4>1. lock' = s <=> lock = s
          BY <1>1, <3>2, ThreadFacts DEF Lands, Free
        <4>2. lock = s <=> Holding(thread[s])
          BY <1>2 DEF SignInInv, TypeOK, Holding
        <4> QED BY <1>1, <3>2, <4>1, <4>2
      <3> QED BY <3>1, <3>2
    <2>2. {up, closing, pressed, reused, broken, forgotten}' \subseteq BOOLEAN
      BY DEF SignInInv, TypeOK, Loses, process
    <2> QED BY <1>1, <1>3, <2>1, <2>2
         DEF SignInInv, TypeOK, Lands, Stands, Signs, Loses, process, server, Thread,
             Flow, Statuses, Holding
  <1>5. Roles'
    <2>1. \A s \in Threads : Role(s, thread'[s])
      BY <1>1 DEF SignInInv, Roles, Lands
    <2> QED BY <1>1, <1>2, <2>1, ThreadFacts DEF SignInInv, Roles, process
  <1>6. Standing'
    <2>1. CASE t = "worker"
      BY <1>1, <2>1, ThreadFacts DEF SignInInv, Standing, Stands
    <2>2. CASE t = "closer"
      BY <1>1, <1>2, <2>2, ThreadFacts DEF SignInInv, Standing, Stands
    <2> QED BY <2>1, <2>2, ThreadFacts
  <1>7. Flown'
    <2>1. vault'[1] <= flow'.number /\ sent'[1] <= flow'.number
      BY NoneFacts DEF SignInInv, Flown, Loses, Signs, TypeOK
    <2>2. CASE t = "worker"
      BY <1>1, <2>1, <2>2, ThreadFacts
         DEF SignInInv, Flown, Signs, Numbered, FlowSteps, server
    <2>3. CASE t = "closer"
      <3>1. thread["worker"].at \notin FlowSteps \union {"save"}
        BY <1>2, <2>3, Standings, ThreadFacts DEF FlowSteps
      <3> QED BY <1>1, <2>1, <2>3, <3>1, ThreadFacts
           DEF SignInInv, Flown, Signs, Numbered, FlowSteps, server
    <2> QED BY <2>2, <2>3, ThreadFacts
  <1>8. Sent'
    <2>1. CASE thread[t].at = "exchange"
      <3>1. \A s \in Threads : thread'[s].at # "exchange"
        BY <1>1, <1>2, <2>1 DEF SignInInv, TypeOK, Holding, Loses
      <3> QED BY <2>1, <3>1 DEF Sent, Loses
    <2>2. CASE thread[t].at # "exchange"
      <3>1. \A s \in Threads : thread'[s].at = "exchange" <=> thread[s].at = "exchange"
        BY <1>1, <2>2 DEF Loses
      <3>2. ASSUME NEW s \in Threads, thread[s].at = "exchange"
            PROVE  vault' = vault
        BY <1>2, <2>2, <3>2, ThreadFacts DEF SignInInv, TypeOK, Loses, Free
      <3>3. UNCHANGED <<sent, answer, turn>> /\ (broken => broken') /\ up' = up
        BY <2>2 DEF Loses, server, process
      <3> QED BY <3>1, <3>2, <3>3 DEF SignInInv, Sent
    <2> QED BY <2>1, <2>2
  <1>9. Unspent'
    BY DEF SignInInv, Unspent, Sent, ReuseNeedsFault, Loses, server
  <1>10. Forgotten'
    <2>1. CASE forgotten
      <3>1. up' /\ forgotten' => thread'["worker"].job \notin {"login", "restore"}
        BY <1>1, <1>2, <2>1, ThreadFacts DEF SignInInv, Forgotten, Signs, Stands
      <3> QED BY <1>2, <2>1, <3>1 DEF SignInInv, Forgotten, SignOutSticks, Loses
    <2>2. CASE ~forgotten
      BY <1>1, <2>2, IdleFacts DEF Forgotten, SignOutSticks
    <2> QED BY <2>1, <2>2
  <1>11. Cancelled'
    <2>1. CASE t = "worker"
      BY <1>1, <2>1 DEF SignInInv, Cancelled, Signs, Stands, Numbered, FlowSteps
    <2>2. CASE t = "closer"
      BY <1>1, <1>2, <2>2, ThreadFacts DEF SignInInv, Cancelled
    <2> QED BY <2>1, <2>2, ThreadFacts
  <1> QED BY <1>4, <1>5, <1>6, <1>7, <1>8, <1>9, <1>10, <1>11 DEF SignInInv

LEMMA LoginFailsLands ==
  ASSUME SignInInv, NEW t \in Threads, thread[t].at # "idle",
         thread[t].job = "login", LoginFails(t), UNCHANGED session
  PROVE  Lands(t, Idle) /\ Stands(t, Idle) /\ Signs(t, Idle)
  <1>1. /\ t = "worker" /\ session = FALSE /\ lock \in {"none", t}
    BY Standings
  <1>2. Lands(t, Idle)
    BY <1>1, IdleFacts, FinishMoves, ThreadFacts DEF LoginFails, Lands, Holding
  <1>3. Stands(t, Idle)
    BY <1>1, IdleFacts DEF LoginFails, Stands, Statuses
  <1>4. flow' \in Flow /\ flow'.number = flow.number /\ flow'.cancelled = flow.cancelled
    BY DEF SignInInv, TypeOK, LoginFails, Flow
  <1>5. Signs(t, Idle)
    BY <1>4, IdleFacts DEF Signs, FlowSteps
  <1> QED BY <1>2, <1>3, <1>5

LEMMA ClearedLoses ==
  ASSUME SignInInv, NEW times \in {1, 2}, Cleared(times)
  PROVE  /\ vault' \in {vault, None} /\ (vault' = None \/ broken' = TRUE)
         /\ faults' \in 0..MaxFaults /\ broken' \in BOOLEAN
         /\ broken => broken'
  <1>1. PICK left \in AfterDelete(times) :
          /\ vault' = left[1] /\ faults' = left[2]
          /\ broken' = (broken \/ left[2] # faults)
    BY DEF Cleared
  <1>2. CASE left = <<None, faults>>
    BY <1>1, <1>2 DEF SignInInv, TypeOK
  <1>3. CASE faults + times <= MaxFaults /\ left = <<vault, faults + times>>
    <2>1. vault' = vault /\ faults' = faults + times
      BY <1>1, <1>3
    <2>2. faults' \in 0..MaxFaults /\ faults' # faults
      BY <1>3, <2>1, SignInAssumption DEF SignInInv, TypeOK
    <2>3. broken' = TRUE
      BY <1>1, <2>2
    <2> QED BY <2>1, <2>2, <2>3
  <1> QED BY <1>1, <1>2, <1>3 DEF AfterDelete

LEMMA FailedLands ==
  ASSUME SignInInv, NEW t \in Threads, thread[t].at # "idle",
         thread[t].job # "login", NEW code, Failed(t, code),
         lock' = IF lock = t THEN "none" ELSE lock, UNCHANGED flow
  PROVE  \E k \in Thread : /\ Lands(t, k) /\ Stands(t, k) /\ Signs(t, k)
                           /\ k.at \in {"idle", "forget"}
  <1> DEFINE job == thread[t].job
  <1>1. /\ up /\ job # "none" /\ (t = "closer" => job = "release")
        /\ "forget" \in Steps /\ Role(t, thread[t])
        /\ job \in {"login", "restore"} => t = "worker"
    BY Standings DEF SignInInv, Roles, Steps
  <1>2. lock' \in Threads \union {"none"} /\ lock' # t
    BY ThreadFacts DEF SignInInv, TypeOK
  <1>3. flow' \in Flow /\ flow'.number = flow.number /\ flow'.cancelled = flow.cancelled
    BY DEF SignInInv, TypeOK, Flow
  <1>4. ASSUME job \in {"signout", "heartbeat", "probe"}, Go(t, "forget"),
               status' = status, session' \in BOOLEAN, session' => session
        PROVE  \E k \in Thread : /\ Lands(t, k) /\ Stands(t, k) /\ Signs(t, k)
                                 /\ k.at \in {"idle", "forget"}
    <2>1. PICK k \in Thread : Moved(t, k) /\ k.at = "forget" /\ k.job = job
      BY <1>1, <1>4, GoMoves DEF SignInInv
    <2>2. Role(t, k)
      BY <1>1, <1>4, <2>1 DEF Role
    <2>3. Lands(t, k)
      BY <1>2, <2>1, <2>2 DEF Lands, Holding
    <2>5. session' => status' = "authenticated"
      BY <1>4 DEF SignInInv, Standing
    <2>6. Stands(t, k)
      <3>1. t # "closer" /\ k.job \notin {"coupon", "claim", "login"}
        BY <1>1, <1>4, <2>1
      <3>2. status' \in Statuses
        BY <1>4 DEF SignInInv, TypeOK, Statuses
      <3> QED BY <1>4, <2>5, <3>1, <3>2 DEF Stands
    <2>7. Signs(t, k)
      BY <1>3, <1>4, <2>1 DEF Signs, FlowSteps
    <2> QED BY <2>1, <2>3, <2>6, <2>7
  <1>5. ASSUME Finish(t), UNCHANGED session,
               status' = IF job = "entry" THEN "authenticated" ELSE status
        PROVE  Lands(t, Idle) /\ Stands(t, Idle) /\ Signs(t, Idle)
    <2>1. Lands(t, Idle)
      BY <1>2, <1>5, IdleFacts, FinishMoves DEF Lands, Holding
    <2>2. Stands(t, Idle)
      BY <1>1, <1>5, IdleFacts DEF SignInInv, TypeOK, Standing, Stands, Statuses
    <2>3. Signs(t, Idle)
      BY <1>3, IdleFacts DEF Signs, FlowSteps
    <2> QED BY <2>1, <2>2, <2>3
  <1>6. CASE job = "signout" /\ Go(t, "forget") /\ UNCHANGED <<session, status>>
    BY <1>4, <1>6 DEF SignInInv, TypeOK
  <1>7. CASE /\ Fatal(job, code) /\ session /\ Go(t, "forget")
             /\ session' = FALSE /\ UNCHANGED status
    BY <1>4, <1>7 DEF Fatal
  <1>8. CASE /\ Finish(t) /\ UNCHANGED session
             /\ status' = IF job = "entry" THEN "authenticated" ELSE status
    BY <1>5, <1>8, IdleFacts
  <1> QED BY <1>6, <1>7, <1>8 DEF Failed

LEMMA RaisedLands ==
  ASSUME SignInInv, NEW t \in Threads, thread[t].at # "idle", Holding(thread[t]),
         NEW code, Raised(t, code)
  PROVE  \E k \in Thread : /\ Lands(t, k) /\ Stands(t, k) /\ Signs(t, k)
                           /\ k.at \in {"idle", "forget"}
  <1>1. lock = t
    BY Standings
  <1>2. CASE thread[t].job = "login" /\ LoginFails(t) /\ UNCHANGED session
    BY <1>2, LoginFailsLands, IdleFacts
  <1>3. CASE /\ thread[t].job # "login" /\ lock' = "none"
             /\ UNCHANGED flow /\ Failed(t, code)
    BY <1>1, <1>3, FailedLands
  <1> QED BY <1>2, <1>3 DEF Raised

LEMMA EscapedLands ==
  ASSUME SignInInv, NEW t \in Threads, thread[t].at # "idle",
         thread[t].job \notin {"login", "restore"}, Escaped(t),
         lock' = IF lock = t THEN "none" ELSE lock, UNCHANGED flow
  PROVE  /\ \E k \in Thread : /\ Lands(t, k) /\ Stands(t, k) /\ Signs(t, k)
                              /\ k.at \in {"idle", "forget"}
         /\ faults' \in 0..MaxFaults
  <1>1. faults' \in 0..MaxFaults
    BY SignInAssumption DEF SignInInv, TypeOK, Escaped
  <1>2. CASE thread[t].job = "signout"
    <2>1. thread[t] \in Thread
      BY DEF SignInInv, TypeOK, Thread
    <2>2. Go(t, "forget") /\ UNCHANGED <<session, status>>
      BY <1>2, <2>1 DEF Escaped, Go, SignInInv, TypeOK
    <2>3. Failed(t, "other")
      BY <1>2, <2>2 DEF Failed
    <2> QED BY <1>1, <2>3, FailedLands
  <1>3. CASE thread[t].job # "signout"
    <2>1. Moved(t, Idle) /\ UNCHANGED <<session, status>>
      BY <1>3 DEF Escaped, Moved
    <2>2. lock' \in Threads \union {"none"} /\ lock' # t
      BY ThreadFacts DEF SignInInv, TypeOK
    <2>3. Lands(t, Idle)
      BY <2>1, <2>2, IdleFacts DEF Lands, Holding
    <2>4. Stands(t, Idle)
      BY <2>1, IdleFacts DEF SignInInv, TypeOK, Standing, Stands, Statuses
    <2>5. Signs(t, Idle)
      BY IdleFacts DEF SignInInv, TypeOK, Flow, Signs, FlowSteps
    <2> QED BY <1>1, <2>3, <2>4, <2>5, IdleFacts
  <1> QED BY <1>2, <1>3

LEMMA QuietLoses ==
  ASSUME SignInInv, NEW t \in Threads, NEW k \in Thread, thread[t].at # "exchange",
         k.at # "exchange", UNCHANGED <<vault, memory, sent, answer, faults, broken>>
  PROVE  Loses(t, k)
  BY DEF SignInInv, TypeOK, Loses

LEMMA SteadyStands ==
  ASSUME SignInInv, NEW t \in Threads, NEW k \in Thread,
         UNCHANGED <<status, session>>, k.job = thread[t].job
  PROVE  Stands(t, k)
  BY DEF SignInInv, TypeOK, Standing, Stands, Statuses

\* A step that only moves its thread on.
LEMMA GoingOn ==
  ASSUME SignInInv, NEW t \in Threads, thread[t].at # "idle",
         NEW k \in Thread, Moved(t, k), k.job = thread[t].job, Role(t, k),
         k.at \in FlowSteps \union {"save"} =>
           k.at \in Numbered /\ thread[t].at \in Numbered,
         k.at \notin FlowSteps /\ k.job = "login" => thread[t].at \notin Numbered,
         k.at # "exchange", thread[t].at # "exchange",
         lock' \in Threads \union {"none"}, lock' = t <=> Holding(k),
         lock' = t => Free(t),
         lock' # t => lock' = IF lock = t THEN "none" ELSE lock,
         flow' \in Flow, flow'.number = flow.number, flow'.cancelled = flow.cancelled,
         UNCHANGED <<server, vault, memory, sent, answer, status, session, process,
                     faults, ghosts>>
  PROVE  SignInInv'
  <1>1. Lands(t, k)
    BY DEF Lands
  <1>2. Stands(t, k) /\ Loses(t, k)
    BY QuietLoses, SteadyStands DEF ghosts
  <1>3. Signs(t, k)
    BY DEF Signs
  <1>4. forgotten' \in BOOLEAN /\ (forgotten' => forgotten)
        /\ UNCHANGED <<server, process, pressed, reused>>
    BY DEF SignInInv, TypeOK, ghosts
  <1> HIDE DEF SignInInv
  <1> QED BY <1>1, <1>2, <1>3, <1>4, LossKeeps

\* A sign-in that fails and has stored nothing.
LEMMA GivesUp ==
  ASSUME SignInInv, NEW t \in Threads, thread[t].at # "idle",
         thread[t].job = "login", thread[t].at # "exchange", LoginFails(t),
         UNCHANGED <<server, vault, memory, sent, answer, session, process, faults, ghosts>>
  PROVE  SignInInv'
  <1>1. Lands(t, Idle) /\ Stands(t, Idle) /\ Signs(t, Idle)
    BY LoginFailsLands
  <1>2. Loses(t, Idle)
    BY IdleFacts, QuietLoses DEF ghosts
  <1>3. forgotten' \in BOOLEAN /\ (forgotten' => forgotten)
        /\ UNCHANGED <<server, process, pressed, reused>>
    BY DEF SignInInv, TypeOK, ghosts
  <1> HIDE DEF SignInInv
  <1> QED BY <1>1, <1>2, <1>3, IdleFacts, LossKeeps

LEMMA LockStays ==
  ASSUME SignInInv, NEW t \in Threads, thread[t].at # "idle", ~Holding(thread[t]),
         UNCHANGED lock
  PROVE  /\ lock' \in Threads \union {"none"} /\ lock' # t
         /\ lock' = IF lock = t THEN "none" ELSE lock
  BY Standings DEF SignInInv, TypeOK

\* The listener is bound, the browser is opened, and its call is awaited.
LEMMA FlowGoes ==
  ASSUME SignInInv, NEW t \in Threads, thread[t].at \in Numbered,
         NEW step \in Numbered, Go(t, step),
         flow' \in Flow, flow'.number = flow.number, flow'.cancelled = flow.cancelled,
         UNCHANGED <<server, vault, memory, lock, sent, answer, status, session, process,
                     faults, ghosts>>
  PROVE  SignInInv'
  <1>1. /\ thread[t].at # "idle" /\ thread[t].job = "login" /\ t = "worker"
        /\ ~Holding(thread[t]) /\ step \in Steps
    BY Standings DEF Numbered, FlowSteps, Holding, Steps
  <1>2. PICK k \in Thread : Moved(t, k) /\ k.at = step /\ k.job = "login"
    BY <1>1, GoMoves DEF SignInInv
  <1>3. Role(t, k) /\ ~Holding(k)
    BY <1>1, <1>2 DEF Role, Numbered, FlowSteps, Holding
  <1>4. k.at \in Numbered /\ k.at \in FlowSteps
        /\ k.at # "exchange" /\ thread[t].at # "exchange"
    BY <1>2 DEF Numbered, FlowSteps
  <1>5. /\ lock' \in Threads \union {"none"} /\ lock' # t
        /\ lock' = IF lock = t THEN "none" ELSE lock
    BY <1>1, LockStays
  <1> HIDE DEF SignInInv
  <1> QED BY <1>1, <1>2, <1>3, <1>4, <1>5, GoingOn

LEMMA BindKeeps ==
  ASSUME SignInInv, NEW t \in Threads, Bind(t)
  PROVE  SignInInv'
  <1>1. /\ thread[t].at = "bind" /\ thread[t].at \in Numbered
        /\ thread[t].job = "login" /\ "browser" \in Numbered
    BY Standings DEF Bind, Numbered, FlowSteps
  <1>2. CASE /\ flow' = [flow EXCEPT !.listener = "open"] /\ Go(t, "browser")
             /\ UNCHANGED <<status, lock>>
    <2>1. flow' \in Flow /\ flow'.number = flow.number /\ flow'.cancelled = flow.cancelled
      BY <1>2 DEF SignInInv, TypeOK, Flow
    <2> QED BY <1>1, <1>2, <2>1, FlowGoes DEF Bind
  <1>3. CASE LoginFails(t)
    BY <1>1, <1>3, GivesUp DEF Bind
  <1> QED BY <1>2, <1>3 DEF Bind

LEMMA BrowserKeeps ==
  ASSUME SignInInv, NEW t \in Threads, Browser(t)
  PROVE  SignInInv'
  <1>1. /\ thread[t].at = "browser" /\ thread[t].at \in Numbered
        /\ thread[t].job = "login" /\ "wait" \in Numbered
    BY Standings DEF Browser, Numbered, FlowSteps
  <1>2. CASE Go(t, "wait") /\ UNCHANGED <<status, lock, flow>>
    <2>1. flow' \in Flow /\ flow'.number = flow.number /\ flow'.cancelled = flow.cancelled
      BY <1>2 DEF SignInInv, TypeOK, Flow
    <2> QED BY <1>1, <1>2, <2>1, FlowGoes DEF Browser
  <1>3. CASE LoginFails(t)
    BY <1>1, <1>3, GivesUp DEF Browser
  <1> QED BY <1>2, <1>3 DEF Browser

LEMMA WaitKeeps ==
  ASSUME SignInInv, NEW t \in Threads, Wait(t)
  PROVE  SignInInv'
  <1>1. /\ thread[t].at = "wait" /\ thread[t].at \in Numbered
        /\ thread[t].job = "login" /\ "code" \in Numbered
    BY Standings DEF Wait, Numbered, FlowSteps
  <1>2. CASE /\ flow' = [flow EXCEPT !.listener = "closing"] /\ Go(t, "code")
             /\ UNCHANGED <<status, lock>>
    <2>1. flow' \in Flow /\ flow'.number = flow.number /\ flow'.cancelled = flow.cancelled
      BY <1>2 DEF SignInInv, TypeOK, Flow
    <2> QED BY <1>1, <1>2, <2>1, FlowGoes DEF Wait
  <1>3. CASE LoginFails(t)
    BY <1>1, <1>3, GivesUp DEF Wait
  <1> QED BY <1>2, <1>3 DEF Wait

\* A step that takes or leaves the lock, and does nothing else.
LEMMA RestoreKeeps ==
  ASSUME SignInInv, NEW t \in Threads, Restore(t)
  PROVE  SignInInv'
  <1>1. /\ thread[t].at = "restore" /\ thread[t].job = "restore" /\ t = "worker"
        /\ "load" \in Steps
    BY Standings DEF Restore, Steps
  <1>2. PICK k \in Thread : Moved(t, k) /\ k.at = "load" /\ k.job = "restore"
    <2> DEFINE k == [thread[t] EXCEPT !.at = "load", !.retried = TRUE]
    <2>1. thread \in [Threads -> Thread]
      BY DEF SignInInv, TypeOK, Thread
    <2>2. k \in Thread /\ k.at = "load" /\ k.job = "restore"
      BY <1>1, <2>1 DEF Thread
    <2>3. Moved(t, k)
      BY <2>1 DEF Restore, Moved
    <2> QED BY <2>2, <2>3
  <1>3. Role(t, k) /\ Holding(k)
    BY <1>1, <1>2 DEF Role, Holding
  <1>4. k.at \notin FlowSteps \union {"save"}
    BY <1>2 DEF FlowSteps
  <1>5. flow' \in Flow /\ flow' = flow
    BY DEF SignInInv, TypeOK, Flow, Restore
  <1> QED BY <1>1, <1>2, <1>3, <1>4, <1>5, GoingOn DEF Restore

LEMMA RefreshKeeps ==
  ASSUME SignInInv, NEW t \in Threads, Refresh(t)
  PROVE  SignInInv'
  <1>1. /\ thread[t].at = "refresh" /\ thread[t].job \notin {"none", "login", "restore"}
        /\ "load" \in Steps /\ Role(t, thread[t])
    BY Standings DEF SignInInv, Roles, Refresh, Steps
  <1>2. PICK k \in Thread : Moved(t, k) /\ k.at = "load" /\ k.job = thread[t].job
    BY <1>1, GoMoves DEF SignInInv, Refresh
  <1>3. Role(t, k) /\ Holding(k)
    BY <1>1, <1>2 DEF Role, Holding
  <1>4. k.at \notin FlowSteps \union {"save"}
    BY <1>2 DEF FlowSteps
  <1>5. flow' \in Flow /\ flow' = flow
    BY DEF SignInInv, TypeOK, Flow, Refresh
  <1> QED BY <1>1, <1>2, <1>3, <1>4, <1>5, GoingOn DEF Refresh

LEMMA TokenKeeps ==
  ASSUME SignInInv, NEW t \in Threads, Token(t)
  PROVE  SignInInv'
  <1>1. /\ thread[t].at = "token" /\ thread[t].job \notin {"none", "login", "restore"}
        /\ "call" \in Steps /\ "refresh" \in Steps /\ Role(t, thread[t])
        /\ ~Holding(thread[t])
    BY Standings DEF SignInInv, Roles, Token, Steps, Holding
  <1>2. PICK k \in Thread : /\ Moved(t, k) /\ k.at \in {"call", "refresh"}
                            /\ k.job = thread[t].job
    <2> DEFINE k == [thread[t] EXCEPT !.at = IF memory THEN "call" ELSE "refresh",
                                      !.retried = ~memory]
    <2>1. thread \in [Threads -> Thread]
      BY DEF SignInInv, TypeOK, Thread
    <2>2. k \in Thread /\ k.at \in {"call", "refresh"} /\ k.job = thread[t].job
      BY <1>1, <2>1 DEF Thread
    <2>3. Moved(t, k)
      BY <2>1 DEF Token, Moved
    <2> QED BY <2>2, <2>3
  <1>3. Role(t, k) /\ ~Holding(k)
    BY <1>1, <1>2 DEF Role, Holding
  <1>4. k.at \notin FlowSteps \union {"save"}
    BY <1>2 DEF FlowSteps
  <1>5. flow' \in Flow /\ flow' = flow
    BY DEF SignInInv, TypeOK, Flow, Token
  <1>6. /\ lock' \in Threads \union {"none"} /\ lock' # t
        /\ lock' = IF lock = t THEN "none" ELSE lock
    BY <1>1, LockStays DEF Token
  <1> QED BY <1>1, <1>2, <1>3, <1>4, <1>5, <1>6, GoingOn DEF Token

LEMMA MeKeeps ==
  ASSUME SignInInv, NEW t \in Threads, Me(t)
  PROVE  SignInInv'
  <1>1. /\ thread[t].at = "me" /\ thread[t].at # "idle" /\ thread[t].at # "exchange"
        /\ thread[t].at \notin Numbered
        /\ thread[t].job \in {"login", "restore"} /\ t = "worker" /\ lock = t
        /\ thread[t] \in Thread /\ Role(t, thread[t])
    <2>1. thread[t].at = "me" /\ Holding(thread[t])
      BY DEF Me, Holding
    <2> QED BY <2>1, Standings
         DEF SignInInv, TypeOK, Roles, Thread, Numbered, FlowSteps
  <1>2. flow \in Flow /\ forgotten \in BOOLEAN /\ memory \in BOOLEAN
    BY DEF SignInInv, TypeOK, Flow
  <1>3. /\ UNCHANGED <<server, process, pressed, reused>>
        /\ forgotten' \in BOOLEAN /\ (forgotten' => forgotten)
        /\ UNCHANGED <<sent, answer, session>>
    BY <1>2 DEF Me
  <1>4. CASE Admitted(t)
    <2> DEFINE k == [Idle EXCEPT !.job = IF thread[t].job = "login" THEN "entry"
                                         ELSE "reentry",
                                 !.at = "token"]
    <2>1. k \in Thread /\ k.job \in {"entry", "reentry"} /\ k.at = "token"
      BY DEF Idle, Thread, Jobs, Steps
    <2>2. Moved(t, k)
      BY <1>4 DEF Admitted, Moved
    <2> HIDE DEF k
    <2>3. Lands(t, k)
      BY <1>1, <1>4, <2>1, <2>2, ThreadFacts DEF Admitted, Lands, Role, Holding
    <2>4. Stands(t, k)
      BY <1>1, <1>3, <1>4, <2>1
         DEF SignInInv, TypeOK, Standing, Admitted, Stands, Statuses
    <2>5. Signs(t, k) /\ Loses(t, k)
      BY <1>1, <1>2, <1>3, <1>4, <2>1, QuietLoses DEF Admitted, Signs, FlowSteps
    <2> QED BY <1>3, <2>1, <2>3, <2>4, <2>5, LossKeeps
  <1>5. ASSUME /\ thread' = [thread EXCEPT ![t].at = "load", ![t].retried = TRUE]
               /\ UNCHANGED <<vault, memory, faults, broken, status, flow, lock>>
        PROVE  SignInInv'
    <2> DEFINE k == [thread[t] EXCEPT !.at = "load", !.retried = TRUE]
    <2>1. k \in Thread /\ k.job = thread[t].job /\ k.at = "load"
      BY <1>1 DEF Thread, Steps
    <2>2. Moved(t, k)
      BY <1>5 DEF SignInInv, TypeOK, Moved
    <2> HIDE DEF k
    <2>3. Lands(t, k)
      BY <1>1, <1>5, <2>1, <2>2, ThreadFacts DEF Lands, Role, Holding, Free
    <2>4. Stands(t, k) /\ Loses(t, k)
      BY <1>1, <1>3, <1>5, <2>1, SteadyStands, QuietLoses
    <2>5. Signs(t, k)
      BY <1>1, <1>2, <1>5, <2>1 DEF Signs, FlowSteps, Numbered
    <2> QED BY <1>3, <2>1, <2>3, <2>4, <2>5, LossKeeps
  <1>6. ASSUME memory' = FALSE, Cleared(1) \/ UNCHANGED <<vault, faults, broken>>
        PROVE  Loses(t, Idle)
    <2>1. vault' \in {vault, None} /\ faults' \in 0..MaxFaults /\ broken' \in BOOLEAN
          /\ (broken => broken')
      <3>1. CASE Cleared(1)
        BY <3>1, ClearedLoses
      <3>2. CASE UNCHANGED <<vault, faults, broken>>
        BY <3>2 DEF SignInInv, TypeOK
      <3> QED BY <1>6, <3>1, <3>2
    <2> QED BY <1>1, <1>3, <1>6, <2>1, IdleFacts DEF Loses, Free
  <1>7. CASE thread[t].job = "login" /\ memory' = FALSE /\ Cleared(1) /\ LoginFails(t)
    <2>1. Lands(t, Idle) /\ Stands(t, Idle) /\ Signs(t, Idle)
      BY <1>1, <1>3, <1>7, LoginFailsLands
    <2> QED BY <1>3, <1>6, <1>7, <2>1, IdleFacts, LossKeeps
  <1>8. CASE /\ memory' = FALSE /\ (Cleared(1) \/ UNCHANGED <<vault, faults, broken>>)
             /\ lock' = "none" /\ Finish(t) /\ UNCHANGED <<status, flow>>
    <2>1. Lands(t, Idle)
      BY <1>1, <1>8, IdleFacts, FinishMoves, ThreadFacts DEF Lands, Holding
    <2>2. Stands(t, Idle)
      BY <1>1, <1>3, <1>8, IdleFacts DEF SignInInv, TypeOK, Standing, Stands, Statuses
    <2>3. Signs(t, Idle)
      BY <1>2, <1>8, IdleFacts DEF Signs, FlowSteps
    <2> QED BY <1>3, <1>6, <1>8, <2>1, <2>2, <2>3, IdleFacts, LossKeeps
  <1>9. Admitted(t) \/ \E code \in Outcomes[thread[t].job] : Turned(t, code)
    BY DEF Me
  <1>10. ASSUME NEW code, Turned(t, code) PROVE SignInInv'
    BY <1>1, <1>5, <1>7, <1>8, <1>10 DEF Turned
  <1> QED BY <1>4, <1>9, <1>10

\* An operation that the server has done.
LEMMA SucceededLands ==
  ASSUME SignInInv, NEW t \in Threads, thread[t].at = "call", Succeeded(t),
         UNCHANGED <<lock, flow>>
  PROVE  \E k \in Thread : /\ Lands(t, k) /\ Stands(t, k) /\ Signs(t, k)
                           /\ k.at \in {"idle", "token", "forget"}
  <1> DEFINE job == thread[t].job
             k == IF job = "coupon" THEN [Idle EXCEPT !.job = "claim", !.at = "token"]
                  ELSE IF job = "probe" THEN [Idle EXCEPT !.job = "permit", !.at = "token"]
                  ELSE IF job = "signout" THEN [thread[t] EXCEPT !.at = "forget"] ELSE Idle
  <1>1. /\ job \notin {"none", "login", "restore"} /\ (t = "closer" => job = "release")
        /\ ~Holding(thread[t]) /\ thread[t] \in Thread /\ t \in {"worker", "closer"}
    BY Standings, ThreadFacts DEF SignInInv, TypeOK, Thread, Holding
  <1>2. /\ k \in Thread
        /\ \/ job = "coupon" /\ k.job = "claim" /\ k.at = "token"
           \/ job = "probe" /\ k.job = "permit" /\ k.at = "token"
           \/ job = "signout" /\ k.job = "signout" /\ k.at = "forget"
           \/ job \notin {"coupon", "probe", "signout"} /\ k.job = "none" /\ k.at = "idle"
    BY <1>1 DEF Idle, Thread, Jobs, Steps
  <1>3. Moved(t, k)
    BY <1>1 DEF Succeeded, Redeemed, Moved, SignInInv, TypeOK
  <1>4. session' \in BOOLEAN /\ (session' <=> session \/ job \in Claims)
    BY DEF Succeeded, Redeemed, SignInInv, TypeOK
  <1>5. status' = IF job \in {"entry", "reentry"} THEN "authenticated" ELSE status
    BY DEF Succeeded, Redeemed
  <1> HIDE DEF k
  <1>6. Lands(t, k)
    BY <1>1, <1>2, <1>3, LockStays DEF Lands, Role, Holding
  <1>7. Stands(t, k)
    <2>1. status' \in Statuses
      BY <1>5 DEF SignInInv, TypeOK, Statuses
    <2>2. t = "closer" => UNCHANGED <<status, session>>
      BY <1>1, <1>5 DEF Succeeded, Redeemed, Claims, SignInInv, TypeOK
    <2>3. ASSUME session' \/ (t = "worker" /\ k.job \in {"coupon", "claim"})
          PROVE  status' = "authenticated"
      <3>1. session \/ job \in Claims \/ (t = "worker" /\ job = "coupon")
        BY <1>2, <1>4, <2>3
      <3>2. t = "closer" => job \notin Claims
        BY <1>1 DEF Claims
      <3>3. job \in {"entry", "reentry"} \/ status = "authenticated"
        BY <1>1, <3>1, <3>2 DEF SignInInv, Standing, Claims
      <3> QED BY <1>5, <3>3
    <2>4. k.job # "login"
      BY <1>2
    <2> QED BY <1>4, <2>1, <2>2, <2>3, <2>4 DEF Stands
  <1>8. Signs(t, k)
    BY <1>2 DEF SignInInv, TypeOK, Flow, Signs, FlowSteps
  <1> QED BY <1>2, <1>6, <1>7, <1>8

LEMMA CallKeeps ==
  ASSUME SignInInv, NEW t \in Threads, Call(t)
  PROVE  SignInInv'
  <1>1. /\ thread[t].at = "call" /\ thread[t].at # "idle" /\ thread[t].at # "exchange"
        /\ thread[t].job \notin {"none", "login", "restore"}
        /\ ~Holding(thread[t]) /\ Role(t, thread[t]) /\ thread[t] \in Thread
        /\ (t = "closer" => thread[t].job = "release")
    BY Standings DEF Call, SignInInv, TypeOK, Roles, Thread, Holding
  <1>2. /\ UNCHANGED <<server, process, pressed, reused, lock, flow>>
        /\ forgotten' \in BOOLEAN /\ (forgotten' => forgotten)
        /\ UNCHANGED <<vault, memory, sent, answer, broken>>
    BY DEF SignInInv, TypeOK, Call, ghosts
  <1>3. /\ lock' \in Threads \union {"none"} /\ lock' # t
        /\ lock' = IF lock = t THEN "none" ELSE lock
    BY <1>1, <1>2, LockStays
  <1>4. ASSUME NEW k \in Thread, Lands(t, k), Stands(t, k), Signs(t, k),
               k.at # "exchange", faults' \in 0..MaxFaults
        PROVE  SignInInv'
    <2>1. Loses(t, k)
      BY <1>1, <1>2, <1>4 DEF SignInInv, TypeOK, Loses
    <2> QED BY <1>2, <1>4, <2>1, LossKeeps
  <1>5. ASSUME NEW code, Answered(t, code), UNCHANGED faults PROVE SignInInv'
    <2>1. faults' \in 0..MaxFaults
      BY <1>5 DEF SignInInv, TypeOK
    <2>2. CASE Succeeded(t)
      <3>1. PICK k \in Thread : /\ Lands(t, k) /\ Stands(t, k) /\ Signs(t, k)
                                /\ k.at \in {"idle", "token", "forget"}
        BY <1>1, <1>2, <2>2, SucceededLands
      <3> QED BY <1>4, <2>1, <3>1
    <2>3. CASE /\ thread' = [thread EXCEPT ![t].at = "refresh", ![t].retried = TRUE]
               /\ UNCHANGED <<session, status>>
      <3> DEFINE k == [thread[t] EXCEPT !.at = "refresh", !.retried = TRUE]
      <3>1. k \in Thread /\ k.job = thread[t].job /\ k.at = "refresh"
        BY <1>1 DEF Thread, Steps
      <3>2. Moved(t, k)
        BY <2>3 DEF SignInInv, TypeOK, Moved
      <3> HIDE DEF k
      <3>3. Lands(t, k)
        BY <1>1, <1>3, <3>1, <3>2 DEF Lands, Role, Holding
      <3>4. Stands(t, k)
        BY <2>3, <3>1, SteadyStands
      <3>5. Signs(t, k)
        BY <1>1, <1>2, <3>1 DEF SignInInv, TypeOK, Flow, Signs, FlowSteps
      <3> QED BY <1>4, <2>1, <3>1, <3>3, <3>4, <3>5
    <2>4. CASE thread[t].job \in Claims /\ Unentitled(t)
      <3>1. Lands(t, Idle)
        BY <1>1, <1>3, <2>4, IdleFacts, FinishMoves DEF Unentitled, Lands, Holding
      <3>2. Stands(t, Idle)
        BY <1>1, <2>4, IdleFacts
           DEF Unentitled, Claims, SignInInv, TypeOK, Stands, Statuses
      <3>3. Signs(t, Idle)
        BY <1>2, IdleFacts DEF SignInInv, TypeOK, Flow, Signs, FlowSteps
      <3> QED BY <1>4, <2>1, <3>1, <3>2, <3>3, IdleFacts
    <2>5. CASE Failed(t, code)
      <3>1. PICK k \in Thread : /\ Lands(t, k) /\ Stands(t, k) /\ Signs(t, k)
                                /\ k.at \in {"idle", "forget"}
        BY <1>1, <1>2, <1>3, <2>5, FailedLands
      <3> QED BY <1>4, <2>1, <3>1
    <2> QED BY <1>5, <2>2, <2>3, <2>4, <2>5 DEF Answered
  <1>6. CASE Escaped(t)
    <2>1. faults' \in 0..MaxFaults
      BY <1>1, <1>2, <1>3, <1>6, EscapedLands
    <2>2. PICK k \in Thread : /\ Lands(t, k) /\ Stands(t, k) /\ Signs(t, k)
                              /\ k.at \in {"idle", "forget"}
      BY <1>1, <1>2, <1>3, <1>6, EscapedLands
    <2> QED BY <1>4, <2>1, <2>2
  <1> QED BY <1>5, <1>6 DEF Call

\* Whatever ends the exchange without a new token.
LEMMA DiscardKeeps ==
  ASSUME SignInInv, NEW t \in Threads, Discard(t)
  PROVE  SignInInv'
  <1>1. /\ thread[t].at = "exchange" /\ thread[t].at # "idle" /\ Holding(thread[t])
        /\ lock = t /\ thread[t].job # "none" /\ Free(t)
        /\ sent' = None /\ answer' = "none"
    <2>1. thread[t].at = "exchange" /\ Holding(thread[t])
      BY DEF Discard, Holding
    <2> QED BY <2>1, Standings DEF Discard, Free
  <1>2. /\ UNCHANGED <<server, process, pressed, reused>>
        /\ forgotten' \in BOOLEAN /\ (forgotten' => forgotten)
    BY DEF SignInInv, TypeOK, Discard
  <1>3. ASSUME NEW k \in Thread, Lands(t, k), Stands(t, k), Signs(t, k),
               k.at \in {"idle", "forget"},
               vault' \in {vault, None}, vault' = None \/ broken' = TRUE,
               faults' \in 0..MaxFaults, broken' \in BOOLEAN, broken => broken',
               memory' \in BOOLEAN, memory' => memory
        PROVE  SignInInv'
    <2>1. Loses(t, k)
      BY <1>1, <1>3 DEF Loses
    <2> QED BY <1>2, <1>3, <2>1, LossKeeps
  <1>4. ASSUME NEW code, memory' = FALSE, Cleared(Times(t, code)), Raised(t, code)
        PROVE  SignInInv'
    <2>1. Times(t, code) \in {1, 2}
      BY DEF Times
    <2>2. /\ vault' \in {vault, None} /\ (vault' = None \/ broken' = TRUE)
          /\ faults' \in 0..MaxFaults /\ broken' \in BOOLEAN
          /\ broken => broken'
      BY <1>4, <2>1, ClearedLoses
    <2>3. PICK k \in Thread : /\ Lands(t, k) /\ Stands(t, k) /\ Signs(t, k)
                              /\ k.at \in {"idle", "forget"}
      BY <1>1, <1>4, RaisedLands
    <2> QED BY <1>3, <1>4, <2>2, <2>3
  <1>5. CASE /\ thread[t].job \notin {"login", "restore"} /\ Escaped(t)
             /\ lock' = "none" /\ broken' = TRUE
             /\ UNCHANGED <<vault, memory, flow>>
    <2>1. faults' \in 0..MaxFaults
      BY <1>1, <1>5, EscapedLands
    <2>2. PICK k \in Thread : /\ Lands(t, k) /\ Stands(t, k) /\ Signs(t, k)
                              /\ k.at \in {"idle", "forget"}
      BY <1>1, <1>5, EscapedLands
    <2>3. memory' \in BOOLEAN /\ (memory' => memory)
      BY <1>5 DEF SignInInv, TypeOK
    <2> QED BY <1>3, <1>5, <2>1, <2>2, <2>3
  <1>6. CASE /\ thread[t].job = "restore" /\ faults < MaxFaults
             /\ faults' = faults + 1 /\ broken' = TRUE
             /\ memory' = FALSE /\ lock' = "none" /\ Finish(t)
             /\ UNCHANGED <<vault, flow, status, session>>
    <2>1. faults' \in 0..MaxFaults
      BY <1>6, SignInAssumption DEF SignInInv, TypeOK
    <2>2. Lands(t, Idle)
      BY <1>1, <1>6, IdleFacts, FinishMoves, ThreadFacts DEF Lands, Holding
    <2>3. Stands(t, Idle)
      BY <1>6, IdleFacts DEF SignInInv, TypeOK, Standing, Stands, Statuses
    <2>4. Signs(t, Idle)
      BY <1>6, IdleFacts DEF SignInInv, TypeOK, Flow, Signs, FlowSteps
    <2> QED BY <1>3, <1>6, <2>1, <2>2, <2>3, <2>4, IdleFacts
  <1> QED BY <1>4, <1>5, <1>6 DEF Discard

LEMMA ForgetKeeps ==
  ASSUME SignInInv, NEW t \in Threads, Forget(t)
  PROVE  SignInInv'
  <1>1. /\ thread[t].at = "forget" /\ thread[t].at # "idle" /\ thread[t].at # "exchange"
        /\ t = "worker" /\ ~Holding(thread[t])
    BY Standings DEF Forget, Holding
  <1>2. /\ vault' \in {vault, None} /\ (vault' = None \/ broken' = TRUE)
        /\ faults' \in 0..MaxFaults /\ broken' \in BOOLEAN
        /\ broken => broken'
    BY ClearedLoses DEF Forget
  <1>3. Lands(t, Idle)
    BY <1>1, LockStays, IdleFacts, FinishMoves DEF Forget, Lands, Holding
  <1>4. Stands(t, Idle)
    BY <1>1, IdleFacts, ThreadFacts DEF Forget, Stands, Statuses
  <1>5. Signs(t, Idle)
    BY IdleFacts DEF Forget, SignInInv, TypeOK, Flow, Signs, FlowSteps
  <1>6. Loses(t, Idle)
    BY <1>1, <1>2, IdleFacts DEF Forget, Loses
  <1>7. /\ UNCHANGED <<server, process, pressed, reused>>
        /\ forgotten' \in BOOLEAN /\ memory' = FALSE
    BY DEF Forget
  <1> QED BY <1>1, <1>2, <1>3, <1>4, <1>5, <1>6, <1>7, IdleFacts, LossKeeps

(***************************************************************************)
(* Steps of a thread that make a token, or send the one that is stored.    *)
(***************************************************************************)

\* An exchange starts.
LEMMA LoadKeeps ==
  ASSUME SignInInv, NEW t \in Threads, Load(t)
  PROVE  SignInInv'
  <1>1. /\ thread[t].at = "load" /\ thread[t].at # "idle" /\ thread[t].at # "exchange"
        /\ Holding(thread[t]) /\ lock = t /\ thread[t].job # "none" /\ up
        /\ Role(t, thread[t]) /\ Free(t) /\ "exchange" \in Steps
    <2>1. thread[t].at = "load" /\ Holding(thread[t])
      BY DEF Load, Holding
    <2> QED BY <2>1, Standings DEF SignInInv, Roles, Free, Steps
  <1>2. /\ UNCHANGED <<server, process, pressed, reused>>
        /\ forgotten' \in BOOLEAN /\ (forgotten' => forgotten)
    BY DEF SignInInv, TypeOK, Load
  <1>3. ASSUME NEW k \in Thread, Lands(t, k), Stands(t, k), Signs(t, k),
               k.at \in {"idle", "forget"}, UNCHANGED <<sent, answer>>,
               vault' \in {vault, None}, faults' \in 0..MaxFaults,
               broken' \in BOOLEAN, broken => broken',
               memory' \in BOOLEAN, memory' => memory
        PROVE  SignInInv'
    <2>1. Loses(t, k)
      BY <1>1, <1>3 DEF Loses
    <2> QED BY <1>2, <1>3, <2>1, LossKeeps
  <1>4. ASSUME NEW code, Raised(t, code)
        PROVE  \E k \in Thread : /\ Lands(t, k) /\ Stands(t, k) /\ Signs(t, k)
                                 /\ k.at \in {"idle", "forget"}
    BY <1>1, <1>4, RaisedLands
  <1>5. CASE /\ vault = None /\ memory' = (memory /\ thread[t].job # "login")
             /\ Raised(t, "invalid_grant")
             /\ UNCHANGED <<vault, sent, answer, faults, broken>>
    <2>1. PICK k \in Thread : /\ Lands(t, k) /\ Stands(t, k) /\ Signs(t, k)
                              /\ k.at \in {"idle", "forget"}
      BY <1>4, <1>5
    <2>2. /\ vault' \in {vault, None} /\ faults' \in 0..MaxFaults
          /\ broken' \in BOOLEAN /\ (broken => broken')
          /\ memory' \in BOOLEAN /\ (memory' => memory)
      BY <1>5 DEF SignInInv, TypeOK
    <2> QED BY <1>3, <1>5, <2>1, <2>2
  <1>6. CASE /\ faults < MaxFaults /\ faults' = faults + 1 /\ broken' = TRUE
             /\ IF thread[t].job = "login" THEN memory' = FALSE /\ vault' = None
                                           ELSE UNCHANGED <<memory, vault>>
             /\ Raised(t, "credential_store_unavailable")
             /\ UNCHANGED <<sent, answer>>
    <2>1. PICK k \in Thread : /\ Lands(t, k) /\ Stands(t, k) /\ Signs(t, k)
                              /\ k.at \in {"idle", "forget"}
      BY <1>4, <1>6
    <2>2. vault' \in {vault, None} /\ memory' \in BOOLEAN /\ (memory' => memory)
      BY <1>6 DEF SignInInv, TypeOK
    <2>3. faults' \in 0..MaxFaults
      BY <1>6, SignInAssumption DEF SignInInv, TypeOK
    <2> QED BY <1>3, <1>6, <2>1, <2>2, <2>3
  <1>7. CASE /\ vault # None /\ sent' = vault /\ answer' = "none"
             /\ Go(t, "exchange")
             /\ UNCHANGED <<vault, memory, lock, flow, status, session, faults, broken>>
    <2>1. PICK k \in Thread : /\ Moved(t, k) /\ k.at = "exchange" /\ k.job = thread[t].job
      BY <1>1, <1>7, GoMoves DEF SignInInv
    <2>2. /\ thread' \in [Threads -> Thread] /\ thread'[t] = k
          /\ \A s \in Threads \ {t} : thread'[s] = thread[s]
      BY <2>1, MovedFields DEF SignInInv
    <2>3. /\ \A s \in Threads : Holding(thread'[s]) <=> Holding(thread[s])
          /\ \A s \in Threads : thread'[s].job = thread[s].job
      BY <1>1, <2>1, <2>2 DEF Holding
    <2>4. TypeOK'
      <3>1. {up, closing, pressed, reused, broken, forgotten}' \subseteq BOOLEAN
        BY <1>2, <1>7 DEF SignInInv, TypeOK, process
      <3> QED BY <1>1, <1>2, <1>7, <2>2, <2>3, <3>1
           DEF SignInInv, TypeOK, Thread, Holding, server, process
    <2>5. Roles'
      <3>1. Role(t, k)
        BY <1>1, <2>1 DEF Role
      <3>2. \A s \in Threads : Role(s, thread'[s])
        BY <2>2, <3>1 DEF SignInInv, Roles
      <3> QED BY <1>1, <1>2, <2>3, <3>2, ThreadFacts DEF SignInInv, Roles, process
    <2>6. Standing'
      BY <1>7, <2>3, ThreadFacts DEF SignInInv, Standing
    <2>7. Flown'
      <3>1. thread'["worker"].at \in FlowSteps \union {"save"}
              => thread'["worker"].at = thread["worker"].at
        BY <2>1, <2>2, ThreadFacts DEF FlowSteps
      <3> QED BY <1>2, <1>7, <3>1 DEF SignInInv, Flown, Numbered, FlowSteps, server
    <2>8. Sent'
      <3>1. \A s \in Threads : thread'[s].at = "exchange" => s = t
        BY <1>1, <2>2 DEF SignInInv, TypeOK
      <3> QED BY <1>7, <2>1, <2>2, <3>1 DEF Sent
    <2>9. answer = "none"
      <3>1. \A s \in Threads : thread[s].at # "exchange"
        BY <1>1 DEF SignInInv, TypeOK
      <3> QED BY <1>1, <3>1 DEF SignInInv, TypeOK, Sent
    <2>10. Unspent'
      BY <1>2, <1>7, <2>9 DEF SignInInv, Unspent, ReuseNeedsFault, server
    <2>11. Forgotten'
      BY <1>2, <1>7, <2>3, ThreadFacts DEF SignInInv, Forgotten, SignOutSticks, process
    <2>12. Cancelled'
      BY <1>1, <1>2, <1>7, <2>2, <2>3, ThreadFacts
         DEF SignInInv, Cancelled, Numbered, FlowSteps
    <2> QED BY <2>4, <2>5, <2>6, <2>7, <2>8, <2>10, <2>11, <2>12 DEF SignInInv
  <1> QED BY <1>5, <1>6, <1>7 DEF Load

\* The new token is stored.
LEMMA KeepKeeps ==
  ASSUME SignInInv, NEW t \in Threads, Keep(t)
  PROVE  SignInInv'
  <1>1. /\ thread[t].at = "exchange" /\ thread[t].at # "idle" /\ Holding(thread[t])
        /\ lock = t /\ thread[t].job # "none" /\ Free(t) /\ up
        /\ Role(t, thread[t]) /\ sent' = None /\ answer' = "none"
        /\ answer = "rotated"
    <2>1. thread[t].at = "exchange" /\ Holding(thread[t])
      BY DEF Keep, Holding
    <2> QED BY <2>1, Standings DEF Keep, Free, SignInInv, Roles
  <1>2. /\ UNCHANGED <<server, process, pressed, reused>>
        /\ forgotten' \in BOOLEAN /\ (forgotten' => forgotten)
    BY DEF SignInInv, TypeOK, Keep
  <1>3. CASE /\ faults < MaxFaults
             /\ vault' \in {None} \union (IF faults + 2 <= MaxFaults THEN {vault} ELSE {})
             /\ faults' = IF vault' = None THEN faults + 1 ELSE faults + 2
             /\ memory' = FALSE /\ broken' = TRUE
             /\ Raised(t, "credential_store_unavailable")
    <2>1. PICK k \in Thread : /\ Lands(t, k) /\ Stands(t, k) /\ Signs(t, k)
                              /\ k.at \in {"idle", "forget"}
      BY <1>1, <1>3, RaisedLands
    <2>2. vault' \in {vault, None} /\ faults' \in 0..MaxFaults
      BY <1>3, SignInAssumption DEF SignInInv, TypeOK
    <2>3. Loses(t, k)
      BY <1>1, <1>3, <2>1, <2>2 DEF Loses
    <2> QED BY <1>2, <2>1, <2>3, LossKeeps
  <1>4. CASE /\ vault' = <<sent[1], sent[2] + 1>> /\ memory' = TRUE
             /\ LET signing == thread[t].job \in {"restore", "login"} IN
                  /\ lock' = IF signing THEN t ELSE "none"
                  /\ Go(t, IF signing THEN "me" ELSE "call")
             /\ UNCHANGED <<flow, status, session, faults, broken>>
    <2> DEFINE signing == thread[t].job \in {"restore", "login"}
               step == IF signing THEN "me" ELSE "call"
    <2>1. PICK k \in Thread : Moved(t, k) /\ k.at = step /\ k.job = thread[t].job
      <3>1. step \in Steps /\ Go(t, step)
        BY <1>4 DEF Steps
      <3> HIDE DEF step
      <3> QED BY <3>1, GoMoves DEF SignInInv
    <2>2. /\ thread' \in [Threads -> Thread] /\ thread'[t] = k
          /\ \A s \in Threads \ {t} : thread'[s] = thread[s]
      BY <2>1, MovedFields DEF SignInInv
    <2>3. sent \in Tokens /\ sent # None /\ sent = vault /\ turn[sent[1]] = sent[2] + 1
      BY <1>1 DEF SignInInv, TypeOK, Sent
    <2>4. /\ vault' \in Tokens /\ vault'[1] = sent[1] /\ vault'[2] = sent[2] + 1
          /\ turn[vault'[1]] = vault'[2]
      <3>1. turn[sent[1]] \in 0..MaxTurns /\ sent[1] \in Families
        BY <2>3, NoneFacts DEF SignInInv, TypeOK
      <3> QED BY <1>4, <2>3, <3>1, NoneFacts DEF Tokens
    <2>5. \A s \in Threads : thread'[s].at # "exchange" /\ thread'[s].job = thread[s].job
      BY <1>1, <2>1, <2>2 DEF SignInInv, TypeOK
    <2>6. \A s \in Threads : lock' = s <=> Holding(thread'[s])
      <3>1. lock' = t <=> Holding(k)
        BY <1>4, <2>1, ThreadFacts DEF Holding
      <3>2. \A s \in Threads \ {t} : ~Holding(thread[s]) /\ lock' # s
        BY <1>1, <1>4, ThreadFacts DEF SignInInv, TypeOK, Holding
      <3> QED BY <2>2, <3>1, <3>2
    <2>7. TypeOK'
      <3>1. {up, closing, pressed, reused, broken, forgotten}' \subseteq BOOLEAN
        BY <1>2, <1>4 DEF SignInInv, TypeOK, process
      <3>2. lock' \in Threads \union {"none"}
        BY <1>4
      <3> QED BY <1>1, <1>2, <1>4, <2>2, <2>4, <2>6, <3>1, <3>2, NoneFacts
           DEF SignInInv, TypeOK, Thread, Holding, server, process
    <2>8. Roles'
      <3>1. Role(t, k)
        BY <1>1, <2>1 DEF Role
      <3>2. \A s \in Threads : Role(s, thread'[s])
        BY <2>2, <3>1 DEF SignInInv, Roles
      <3> QED BY <1>1, <1>2, <2>5, <3>2, ThreadFacts DEF SignInInv, Roles, process
    <2>9. Standing'
      BY <1>4, <2>5, ThreadFacts DEF SignInInv, Standing
    <2>10. Flown'
      <3>1. k.at \notin FlowSteps \union {"save"}
        BY <2>1 DEF FlowSteps
      <3>2. t = "worker" \/ thread["worker"].at \notin FlowSteps \union {"save"}
        BY <1>1, Standings, ThreadFacts DEF FlowSteps
      <3>3. thread'["worker"].at \notin FlowSteps \union {"save"}
        BY <2>2, <3>1, <3>2, ThreadFacts
      <3>4. vault'[1] <= flow.number /\ sent'[1] <= flow.number
        BY <1>1, <2>3, <2>4, NoneFacts DEF SignInInv, TypeOK, Flown
      <3> QED BY <1>2, <1>4, <3>3, <3>4 DEF SignInInv, Flown, Numbered, FlowSteps, server
    <2>11. Sent'
      BY <1>1, <2>5 DEF Sent
    <2>12. Unspent'
      BY <1>2, <1>4, <2>4 DEF SignInInv, Unspent, ReuseNeedsFault, server
    <2>13. Forgotten'
      BY <1>1, <1>2, <1>4, <2>3, <2>5, ThreadFacts
         DEF SignInInv, Forgotten, SignOutSticks, process
    <2>14. Cancelled'
      <3>1. thread["worker"].job = "login" => t = "worker"
        BY <1>1, Standings, ThreadFacts
      <3> QED BY <1>1, <1>2, <2>5, <3>1, ThreadFacts
           DEF SignInInv, Cancelled, Numbered, FlowSteps
    <2> QED BY <2>7, <2>8, <2>9, <2>10, <2>11, <2>12, <2>13, <2>14 DEF SignInInv
  <1> QED BY <1>3, <1>4 DEF Keep

\* Nothing else is under way while a sign-in is in the browser.
LEMMA SignInAlone ==
  ASSUME SignInInv, NEW t \in Threads, thread[t].at \in FlowSteps \union {"save"}
  PROVE  /\ t = "worker" /\ thread[t].job = "login" /\ up /\ session = FALSE
         /\ status = "authenticating" /\ thread["closer"].job = "none"
         /\ \A s \in Threads : ~Holding(thread[s]) /\ thread[s].at # "exchange"
         /\ lock = "none" /\ sent = None /\ answer = "none" /\ ~forgotten
         /\ Role(t, thread[t]) /\ thread[t] \in Thread
  <1>1. thread[t].at # "idle" /\ ~Holding(thread[t])
    BY DEF FlowSteps, Holding
  <1>2. /\ t = "worker" /\ thread[t].job = "login" /\ up /\ session = FALSE
        /\ status = "authenticating" /\ thread["closer"].job = "none"
        /\ lock \in {"none", t} /\ lock # t
    BY <1>1, Standings
  <1>3. thread["closer"].at = "idle"
    BY <1>2, ThreadFacts DEF SignInInv, Roles, Role
  <1>4. \A s \in Threads : ~Holding(thread[s]) /\ thread[s].at # "exchange"
    BY <1>1, <1>2, <1>3, ThreadFacts DEF Holding
  <1>5. sent = None /\ answer = "none"
    BY <1>2, <1>4 DEF SignInInv, TypeOK, Sent
  <1>6. ~forgotten
    BY <1>2 DEF SignInInv, Forgotten
  <1> QED BY <1>2, <1>4, <1>5, <1>6 DEF SignInInv, TypeOK, Roles, Thread

\* What those steps leave alone, when the thread goes on to k.
LEMMA SignInMoves ==
  ASSUME SignInInv, NEW t \in Threads, thread[t].at \in FlowSteps \union {"save"},
         NEW k \in Thread, Moved(t, k), Role(t, k), k.job \in {"none", "login"},
         k.at # "exchange", lock' = IF Holding(k) THEN t ELSE "none",
         k.job = "login" => UNCHANGED status, status' \in Statuses,
         UNCHANGED <<session, process, sent, answer, pressed, reused, forgotten>>,
         turn' \in [Families -> 0..MaxTurns], good' \in [Families -> BOOLEAN],
         vault' \in Tokens, memory' \in BOOLEAN, faults' \in 0..MaxFaults,
         broken' \in BOOLEAN, flow' \in Flow
  PROVE  /\ TypeOK' /\ Roles' /\ Standing' /\ Sent' /\ Forgotten'
         /\ thread'["worker"] = k
  <1>1. /\ thread' \in [Threads -> Thread] /\ thread'[t] = k
        /\ \A s \in Threads \ {t} : thread'[s] = thread[s]
    BY MovedFields DEF SignInInv
  <1>2. /\ t = "worker" /\ up /\ session = FALSE
        /\ status = "authenticating" /\ thread["closer"].job = "none"
        /\ \A s \in Threads : ~Holding(thread[s]) /\ thread[s].at # "exchange"
        /\ sent = None /\ answer = "none" /\ ~forgotten
    BY SignInAlone
  <1>3. TypeOK'
    <2>1. \A s \in Threads : lock' = s <=> Holding(thread'[s])
      BY <1>1, <1>2, ThreadFacts
    <2>2. {up, closing, pressed, reused, broken, forgotten}' \subseteq BOOLEAN
      BY DEF SignInInv, TypeOK, process
    <2> QED BY <1>1, <1>2, <2>1, <2>2
         DEF SignInInv, TypeOK, Thread, Holding, process, Flow, Statuses
  <1>4. Roles'
    <2>1. \A s \in Threads : Role(s, thread'[s])
      BY <1>1 DEF SignInInv, Roles
    <2> QED BY <1>1, <1>2, <2>1, ThreadFacts DEF SignInInv, Roles, process
  <1>5. Standing'
    BY <1>1, <1>2, ThreadFacts DEF Standing
  <1>6. Sent'
    BY <1>1, <1>2 DEF Sent
  <1>7. Forgotten'
    BY <1>2 DEF Forgotten, SignOutSticks
  <1> QED BY <1>1, <1>2, <1>3, <1>4, <1>5, <1>6, <1>7

LEMMA ClearKeeps ==
  ASSUME SignInInv, NEW t \in Threads, Clear(t)
  PROVE  SignInInv'
  <1>1. /\ thread[t].at = "clear" /\ thread[t].at \in FlowSteps \union {"save"}
        /\ "bind" \in Steps
    BY DEF Clear, FlowSteps, Steps
  <1>2. /\ t = "worker" /\ thread[t].job = "login" /\ Role(t, thread[t])
        /\ lock = "none" /\ sent = None
    BY <1>1, SignInAlone
  <1>3. PICK k \in Thread : Moved(t, k) /\ k.at = "bind" /\ k.job = "login"
    BY <1>1, <1>2, GoMoves DEF SignInInv, Clear
  <1>4. Role(t, k) /\ ~Holding(k)
    BY <1>2, <1>3 DEF Role, FlowSteps, Holding
  <1>5. /\ flow.number \in Nat /\ flow.number < MaxFlows
        /\ flow' \in Flow /\ flow'.number = flow.number + 1
    <2>1. flow.number < MaxFlows
      BY <1>1, <1>2 DEF SignInInv, Flown
    <2>2. flow \in Flow /\ flow.number \in 0..MaxFlows
      BY DEF SignInInv, TypeOK, Flow
    <2>3. flow.number \in Nat /\ flow.number + 1 \in 0..MaxFlows
      BY <2>1, <2>2, SignInAssumption
    <2>4. flow' = [flow EXCEPT !.cancelled = FALSE, !.number = @ + 1]
      BY DEF Clear
    <2>5. flow'.number = flow.number + 1 /\ flow' \in Flow
      BY <2>2, <2>3, <2>4 DEF Flow
    <2> QED BY <2>1, <2>3, <2>5
  <1>6. /\ UNCHANGED <<server, vault, memory, lock, sent, answer, status, session, process,
                       faults, pressed, reused, broken, forgotten>>
    BY DEF Clear, ghosts
  <1>7. /\ TypeOK' /\ Roles' /\ Standing' /\ Sent' /\ Forgotten'
        /\ thread'["worker"] = k
    BY <1>1, <1>2, <1>3, <1>4, <1>5, <1>6, SignInMoves
       DEF SignInInv, TypeOK, server, process, Statuses
  <1>8. Flown'
    <2>1. vault[1] <= flow.number /\ vault[1] \in Nat
      BY NoneFacts DEF SignInInv, TypeOK, Flown, Families
    <2>2. flow'.number \in Families
      BY <1>5, SignInAssumption DEF Families
    <2>3. \A f \in Families : f > flow'.number => turn[f] = 0
      BY <1>5 DEF SignInInv, Flown, Families
    <2>4. turn[flow'.number] = 0
      BY <1>5, <2>2 DEF SignInInv, Flown
    <2> QED BY <1>2, <1>3, <1>5, <1>6, <1>7, <2>1, <2>3, <2>4, NoneFacts
         DEF Flown, Numbered, FlowSteps, server
  <1>9. Unspent'
    BY <1>6 DEF SignInInv, Unspent, ReuseNeedsFault, server
  <1>10. Cancelled'
    BY <1>1, <1>2, <1>6 DEF SignInInv, Cancelled, Numbered
  <1> QED BY <1>7, <1>8, <1>9, <1>10 DEF SignInInv

LEMMA CodeKeeps ==
  ASSUME SignInInv, NEW t \in Threads, Code(t)
  PROVE  SignInInv'
  <1> DEFINE n == flow.number
  <1>1. thread[t].at = "code" /\ thread[t].at \in FlowSteps \union {"save"}
        /\ "save" \in Steps
    BY DEF Code, FlowSteps, Steps
  <1>2. /\ t = "worker" /\ thread[t].job = "login" /\ Role(t, thread[t])
        /\ lock = "none" /\ sent = None /\ answer = "none"
    BY <1>1, SignInAlone
  <1>3. /\ n \in Families /\ vault \in Tokens /\ vault[1] \in Families /\ vault[1] < n
        /\ turn[n] = 0 /\ turn \in [Families -> 0..MaxTurns]
        /\ \A f \in Families : f > n => turn[f] = 0
        /\ good \in [Families -> BOOLEAN]
    BY <1>1, <1>2, NoneFacts
       DEF SignInInv, TypeOK, Flown, Numbered, FlowSteps, Families
  <1>4. /\ UNCHANGED <<vault, memory, sent, answer, session, process, faults,
                       pressed, reused, broken, forgotten>>
    BY DEF Code, ghosts
  <1>5. PICK outcome \in Exchanged :
          /\ Made(outcome)
          /\ IF outcome = "tokens" /\ ~flow.cancelled
             THEN Go(t, "save") /\ UNCHANGED <<status, flow, lock>>
             ELSE LoginFails(t)
    BY DEF Code
  <1>6. /\ turn' \in [Families -> 0..MaxTurns] /\ good' \in [Families -> BOOLEAN]
        /\ \A f \in Families : f # n => turn'[f] = turn[f]
        /\ outcome = "tokens" => turn'[n] = 1
    <2>1. CASE outcome = "refused"
      BY <1>3, <1>5, <2>1 DEF Made, server
    <2>2. CASE outcome # "refused"
      <3>1. good' = [good EXCEPT ![n] = TRUE] /\ turn' = [turn EXCEPT ![n] = 1]
        BY <1>5, <2>2 DEF Made
      <3>2. 1 \in 0..MaxTurns
        BY SignInAssumption
      <3> QED BY <1>3, <3>1, <3>2
    <2> QED BY <2>1, <2>2
  <1>7. ASSUME NEW k \in Thread, Moved(t, k), Role(t, k), lock' = "none", ~Holding(k),
               k.job = "login" => UNCHANGED status, status' \in Statuses,
               flow' \in Flow, flow'.number = n, flow'.cancelled = flow.cancelled,
               \/ k.job = "none" /\ k.at = "idle"
               \/ k.job = "login" /\ k.at = "save" /\ turn'[n] = 1 /\ ~flow.cancelled
        PROVE  SignInInv'
    <2>1. k.job \in {"none", "login"} /\ k.at # "exchange"
      BY <1>7
    <2>2. /\ TypeOK' /\ Roles' /\ Standing' /\ Sent' /\ Forgotten'
          /\ thread'["worker"] = k
      BY <1>1, <1>3, <1>4, <1>6, <1>7, <2>1, SignInMoves
         DEF SignInInv, TypeOK
    <2>3. Flown'
      <3>1. vault' = vault /\ sent' = None /\ vault'[1] <= n /\ sent'[1] <= n
        BY <1>2, <1>3, <1>4, NoneFacts DEF Families
      <3>2. \A f \in Families : f > n => turn'[f] = 0
        BY <1>3, <1>6 DEF Families
      <3>3. k.at \notin FlowSteps
        BY <1>7 DEF FlowSteps
      <3> QED BY <1>3, <1>7, <2>2, <3>1, <3>2, <3>3 DEF Flown, Numbered, FlowSteps
    <2>4. Unspent'
      <3>1. turn'[vault[1]] = turn[vault[1]]
        BY <1>3, <1>6 DEF Families
      <3> QED BY <1>4, <3>1 DEF SignInInv, Unspent, ReuseNeedsFault
    <2>5. Cancelled'
      BY <1>2, <1>4, <1>7, <2>2 DEF SignInInv, Cancelled
    <2> QED BY <2>2, <2>3, <2>4, <2>5 DEF SignInInv
  <1>8. CASE outcome = "tokens" /\ ~flow.cancelled
    <2>1. PICK k \in Thread : Moved(t, k) /\ k.at = "save" /\ k.job = "login"
      BY <1>1, <1>2, <1>5, <1>8, GoMoves DEF SignInInv
    <2>2. Role(t, k) /\ ~Holding(k)
      BY <1>2, <2>1 DEF Role, Holding
    <2>3. /\ flow' \in Flow /\ flow' = flow /\ UNCHANGED status
          /\ status' \in Statuses /\ lock' = "none"
      BY <1>2, <1>5, <1>8 DEF SignInInv, TypeOK, Flow, Statuses
    <2> QED BY <1>6, <1>7, <1>8, <2>1, <2>2, <2>3
  <1>9. CASE ~(outcome = "tokens" /\ ~flow.cancelled)
    <2>1. LoginFails(t)
      BY <1>5, <1>9
    <2>2. /\ flow' \in Flow /\ flow'.number = n /\ flow'.cancelled = flow.cancelled
          /\ status' \in Statuses /\ lock' = "none" /\ Moved(t, Idle)
      BY <2>1, FinishMoves DEF SignInInv, TypeOK, LoginFails, Flow, Statuses
    <2> QED BY <1>7, <2>2, IdleFacts DEF Holding
  <1> QED BY <1>8, <1>9

LEMMA SaveKeeps ==
  ASSUME SignInInv, NEW t \in Threads, Save(t)
  PROVE  SignInInv'
  <1>1. thread[t].at = "save" /\ thread[t].at \in FlowSteps \union {"save"}
        /\ "me" \in Steps /\ thread[t].at # "idle" /\ thread[t].at # "exchange"
    BY DEF Save, FlowSteps, Steps
  <1>2. /\ t = "worker" /\ thread[t].job = "login" /\ Role(t, thread[t])
        /\ lock = "none" /\ sent = None /\ answer = "none" /\ ~forgotten
    BY <1>1, SignInAlone
  <1>3. /\ UNCHANGED <<server, sent, answer, session, process, pressed, reused, forgotten>>
    BY DEF Save
  <1>4. CASE /\ vault' = <<flow.number, 1>> /\ memory' = TRUE /\ lock' = t
             /\ Go(t, "me") /\ UNCHANGED <<status, flow, faults, broken>>
    <2>1. PICK k \in Thread : Moved(t, k) /\ k.at = "me" /\ k.job = "login"
      BY <1>1, <1>2, <1>4, GoMoves DEF SignInInv
    <2>2. Role(t, k) /\ Holding(k)
      BY <1>2, <2>1 DEF Role, Holding
    <2>3. /\ flow.number \in Families /\ turn[flow.number] = 1
          /\ \A f \in Families : f > flow.number => turn[f] = 0
      BY <1>1, <1>2 DEF SignInInv, TypeOK, Flown, Families
    <2>4. vault' \in Tokens /\ vault'[1] = flow.number /\ vault'[2] = 1
      BY <1>4, <2>3, SignInAssumption DEF Tokens
    <2>5. /\ TypeOK' /\ Roles' /\ Standing' /\ Sent' /\ Forgotten'
          /\ thread'["worker"] = k
      <3>1. /\ turn' \in [Families -> 0..MaxTurns] /\ good' \in [Families -> BOOLEAN]
            /\ memory' \in BOOLEAN /\ faults' \in 0..MaxFaults
            /\ broken' \in BOOLEAN /\ flow' \in Flow /\ status' \in Statuses
        BY <1>3, <1>4 DEF SignInInv, TypeOK, server, Flow, Statuses
      <3> QED BY <1>1, <1>3, <1>4, <2>1, <2>2, <2>4, <3>1, SignInMoves
    <2>6. Flown'
      BY <1>2, <1>3, <1>4, <2>1, <2>3, <2>4, <2>5, NoneFacts
         DEF Flown, Numbered, FlowSteps, server, Families
    <2>7. Unspent'
      BY <1>3, <1>4, <2>3, <2>4 DEF SignInInv, Unspent, ReuseNeedsFault, server
    <2>8. Cancelled'
      BY <1>1, <1>2, <1>3 DEF SignInInv, Cancelled, Numbered, FlowSteps
    <2> QED BY <2>5, <2>6, <2>7, <2>8 DEF SignInInv
  <1>5. CASE /\ faults < MaxFaults
             /\ vault' \in {None} \union (IF faults + 2 <= MaxFaults THEN {vault} ELSE {})
             /\ faults' = IF vault' = None THEN faults + 1 ELSE faults + 2
             /\ memory' = FALSE /\ broken' = TRUE /\ LoginFails(t)
    <2>1. Lands(t, Idle) /\ Stands(t, Idle) /\ Signs(t, Idle)
      BY <1>1, <1>2, <1>3, <1>5, LoginFailsLands
    <2>2. vault' \in {vault, None} /\ faults' \in 0..MaxFaults
      BY <1>5, SignInAssumption DEF SignInInv, TypeOK
    <2>3. Loses(t, Idle)
      BY <1>1, <1>2, <1>3, <1>5, <2>2, IdleFacts DEF Loses, Free
    <2>4. forgotten' \in BOOLEAN /\ (forgotten' => forgotten)
      BY <1>3 DEF SignInInv, TypeOK
    <2> QED BY <1>3, <2>1, <2>3, <2>4, IdleFacts, LossKeeps
  <1> QED BY <1>4, <1>5 DEF Save

(***************************************************************************)
(* The window, the browser, the identity service, and the process.         *)
(***************************************************************************)
LEMMA LaunchKeeps ==
  ASSUME SignInInv, Launch
  PROVE  SignInInv'
  <1> DEFINE k == [Idle EXCEPT !.job = "restore", !.at = "restore"]
  <1>1. k \in Thread /\ k.job = "restore" /\ k.at = "restore" /\ Role("worker", k)
        /\ ~Holding(k) /\ ~Holding(Idle)
    BY ThreadFacts DEF Idle, Thread, Jobs, Steps, Role, Holding
  <1>2. thread' \in [Threads -> Thread] /\ thread'["worker"] = k
        /\ thread'["closer"] = Idle
    BY <1>1, IdleFacts, ThreadFacts DEF Launch
  <1> HIDE DEF k
  <1>3. /\ up' = TRUE /\ closing' = FALSE /\ memory' = FALSE /\ lock' = "none"
        /\ sent' = None /\ answer' = "none" /\ status' = "signed_out" /\ session' = FALSE
        /\ forgotten' = FALSE /\ pressed' = FALSE
        /\ UNCHANGED <<turn, good, vault, faults, reused, broken>>
        /\ ~up
    BY DEF Launch, server
  <1>4. flow' \in Flow /\ flow'.number = flow.number
    BY DEF SignInInv, TypeOK, Launch, Flow
  <1>5. TypeOK'
    <2>1. launches' \in 0..MaxLaunches
      BY SignInAssumption DEF SignInInv, TypeOK, Launch
    <2>2. \A t \in Threads : lock' = t <=> Holding(thread'[t])
      BY <1>1, <1>2, <1>3, ThreadFacts
    <2>3. {up, closing, pressed, reused, broken, forgotten}' \subseteq BOOLEAN
      BY <1>3 DEF SignInInv, TypeOK
    <2> QED BY <1>2, <1>3, <1>4, <2>1, <2>2, <2>3, NoneFacts
         DEF SignInInv, TypeOK, Thread, Flow, Holding
  <1>6. Roles'
    <2>1. \A t \in Threads : Role(t, thread'[t])
      BY <1>1, <1>2, IdleFacts, ThreadFacts
    <2> QED BY <1>2, <1>3, <2>1, IdleFacts DEF Roles
  <1>7. Standing'
    BY <1>1, <1>2, <1>3 DEF Standing
  <1>8. Flown'
    BY <1>1, <1>2, <1>3, <1>4, NoneFacts
       DEF SignInInv, TypeOK, Flown, Numbered, FlowSteps, Families
  <1>9. Sent'
    BY <1>1, <1>2, <1>3, IdleFacts, ThreadFacts DEF Sent
  <1>10. Unspent'
    <2>1. \A t \in Threads : thread[t].at # "exchange"
      BY <1>3 DEF SignInInv, Roles, Role
    <2>2. ~broken => answer # "rotated"
      BY <1>3, <2>1 DEF SignInInv, Sent
    <2> QED BY <1>3, <2>2 DEF SignInInv, Unspent, ReuseNeedsFault
  <1>11. Forgotten' /\ Cancelled'
    BY <1>3 DEF Forgotten, SignOutSticks, Cancelled
  <1> QED BY <1>5, <1>6, <1>7, <1>8, <1>9, <1>10, <1>11 DEF SignInInv

LEMMA SubmitKeeps ==
  ASSUME SignInInv, NEW job \in {"login", "heartbeat", "probe", "coupon", "signout"},
         Submit(job)
  PROVE  SignInInv'
  <1> DEFINE place == IF job = "login" THEN "clear"
                      ELSE IF job = "signout" /\ ~session THEN "forget" ELSE "token"
             k == [Idle EXCEPT !.job = job, !.at = place]
  <1>1. /\ k \in Thread /\ k.job = job /\ Role("worker", k) /\ ~Holding(k)
        /\ (k.at = "clear" <=> job = "login")
        /\ k.at \in {"clear", "token", "forget"}
    <2>1. /\ place \in {"clear", "token", "forget"} /\ (place = "clear" <=> job = "login")
          /\ place \in Steps /\ job \in Jobs
      BY DEF Steps, FlowSteps, Jobs
    <2> HIDE DEF place
    <2>2. k \in Thread /\ k.job = job /\ k.at = place
      BY <2>1 DEF Idle, Thread
    <2> QED BY <2>1, <2>2 DEF FlowSteps, Role, Holding
  <1>2. Moved("worker", k)
    BY DEF Submit, Moved
  <1> HIDE DEF place, k
  <1>3. /\ thread' \in [Threads -> Thread] /\ thread'["worker"] = k
        /\ \A s \in Threads \ {"worker"} : thread'[s] = thread[s]
    BY <1>1, <1>2, MovedFields, ThreadFacts DEF SignInInv
  <1>4. /\ up /\ ~closing /\ thread["worker"].job = "none"
        /\ thread["closer"].job = "none"
        /\ job = "login" => status \in {"signed_out", "failed"} /\ flow.number < MaxFlows
        /\ job = "coupon" => status = "authenticated"
        /\ status' = (IF job = "login" THEN "authenticating" ELSE status)
        /\ pressed' = FALSE
        /\ UNCHANGED <<turn, good, vault, memory, lock, sent, answer, session, flow,
                       launches, up, closing, faults, reused, broken>>
    BY DEF SignInInv, Roles, Submit, server, process
  <1>5. forgotten' \in BOOLEAN /\ (forgotten' => forgotten /\ job # "login")
    BY DEF SignInInv, TypeOK, Submit
  <1>6. \A t \in Threads : thread[t].at = "idle"
    BY <1>4, ThreadFacts DEF SignInInv, Roles, Role
  <1>7. TypeOK'
    <2>1. \A t \in Threads : lock' = t <=> Holding(thread'[t])
      BY <1>1, <1>3, <1>4, <1>6, ThreadFacts DEF SignInInv, TypeOK, Holding
    <2>2. {up, closing, pressed, reused, broken, forgotten}' \subseteq BOOLEAN
      BY <1>4, <1>5 DEF SignInInv, TypeOK
    <2> QED BY <1>3, <1>4, <2>1, <2>2
         DEF SignInInv, TypeOK, Thread, Holding
  <1>8. Roles'
    <2>1. \A t \in Threads : Role(t, thread'[t])
      BY <1>1, <1>3, ThreadFacts DEF SignInInv, Roles
    <2> QED BY <1>3, <1>4, <2>1, ThreadFacts DEF Roles
  <1>9. Standing'
    BY <1>1, <1>3, <1>4, ThreadFacts DEF SignInInv, Standing
  <1>10. Flown'
    BY <1>1, <1>3, <1>4 DEF SignInInv, Flown, Numbered, FlowSteps
  <1>11. Sent'
    <2>1. \A t \in Threads : thread'[t].at = "exchange" <=> thread[t].at = "exchange"
      BY <1>1, <1>3, <1>6, ThreadFacts
    <2> QED BY <1>4, <2>1 DEF SignInInv, Sent
  <1>12. Unspent'
    BY <1>4 DEF SignInInv, Unspent, ReuseNeedsFault
  <1>13. Forgotten' /\ Cancelled'
    BY <1>1, <1>3, <1>4, <1>5 DEF SignInInv, Forgotten, SignOutSticks, Cancelled
  <1> QED BY <1>7, <1>8, <1>9, <1>10, <1>11, <1>12, <1>13 DEF SignInInv

\* What only the listener or the cancel flag change keeps.
LEMMA ListenerKeeps ==
  ASSUME SignInInv, flow' \in Flow, flow'.number = flow.number,
         flow.cancelled => flow'.cancelled,
         pressed' \in BOOLEAN,
         pressed' => \/ pressed
                     \/ flow'.cancelled /\ thread["worker"].at \in Numbered,
         UNCHANGED <<server, vault, memory, lock, thread, sent, answer, status, session,
                     process, faults, reused, broken, forgotten>>
  PROVE  SignInInv'
  <1>1. TypeOK'
    <2>1. {up, closing, pressed, reused, broken, forgotten}' \subseteq BOOLEAN
      BY DEF SignInInv, TypeOK, process
    <2> QED BY <2>1 DEF SignInInv, TypeOK, Flow, server, process
  <1>2. Roles' /\ Standing' /\ Sent' /\ Unspent' /\ Forgotten'
    BY DEF SignInInv, Roles, Standing, Sent, Unspent, Forgotten,
           SignOutSticks, ReuseNeedsFault, server, process
  <1>3. Flown' /\ Cancelled'
    BY DEF SignInInv, Flown, Cancelled, server
  <1> QED BY <1>1, <1>2, <1>3 DEF SignInInv

LEMMA CancelKeeps ==
  ASSUME SignInInv, Cancel
  PROVE  SignInInv'
  <1>1. flow' \in Flow /\ flow'.number = flow.number /\ flow'.cancelled = TRUE
    BY DEF SignInInv, TypeOK, Cancel, Flow
  <1>2. pressed' \in BOOLEAN /\ (pressed' => pressed \/ thread["worker"].at \in Numbered)
    BY DEF SignInInv, TypeOK, Cancel, Numbered
  <1> QED BY <1>1, <1>2, ListenerKeeps DEF Cancel

LEMMA CallbackKeeps ==
  ASSUME SignInInv, Callback \/ Teardown
  PROVE  SignInInv'
  <1>1. flow' \in Flow /\ flow'.number = flow.number /\ flow'.cancelled = flow.cancelled
    BY DEF SignInInv, TypeOK, Callback, Teardown, Flow
  <1>2. pressed' \in BOOLEAN /\ (pressed' => pressed)
    BY DEF SignInInv, TypeOK, Callback, Teardown, ghosts
  <1> QED BY <1>1, <1>2, ListenerKeeps DEF Callback, Teardown, ghosts

LEMMA RotateKeeps ==
  ASSUME SignInInv, Rotate
  PROVE  SignInInv'
  <1> DEFINE f == sent[1]
  <1>1. PICK t \in Threads : lock = t /\ thread[t].at = "exchange"
    BY DEF Rotate
  <1>2. /\ sent # None /\ sent = vault /\ answer = "none" /\ up
        /\ sent \in Tokens /\ f \in Families /\ f <= flow.number
        /\ turn \in [Families -> 0..MaxTurns] /\ good \in [Families -> BOOLEAN]
        /\ turn[f] \in 0..MaxTurns /\ sent[2] \in 0..MaxTurns
        /\ reused \in BOOLEAN
    BY <1>1, NoneFacts DEF SignInInv, TypeOK, Sent, Flown, Rotate
  <1>3. UNCHANGED <<vault, memory, lock, thread, sent, status, session, flow,
                    launches, up, closing, faults, pressed, broken, forgotten>>
    BY DEF Rotate, process
  <1>4. thread["worker"].at \notin FlowSteps \union {"save"}
    BY <1>1, SignInAlone, ThreadFacts DEF Holding
  <1>5. ASSUME answer' \in {"rotated", "refused"},
               turn' \in [Families -> 0..MaxTurns], good' \in [Families -> BOOLEAN],
               reused' \in BOOLEAN,
               reused' => reused \/ sent[2] < turn[f],
               \A g \in Families : g # f => turn'[g] = turn[g],
               \/ answer' = "rotated" /\ turn'[f] = sent[2] + 1
               \/ answer' = "refused" /\ UNCHANGED turn
        PROVE  SignInInv'
    <2>1. TypeOK'
      <3>1. {up, closing, pressed, reused, broken, forgotten}' \subseteq BOOLEAN
        BY <1>3, <1>5 DEF SignInInv, TypeOK
      <3> QED BY <1>3, <1>5, <3>1 DEF SignInInv, TypeOK
    <2>2. Roles' /\ Standing' /\ Forgotten' /\ Cancelled'
      BY <1>3 DEF SignInInv, Roles, Standing, Forgotten, SignOutSticks, Cancelled
    <2>3. Flown'
      <3>1. \A g \in Families : g > flow.number => turn'[g] = 0
        <4>1. \A g \in Families : g > flow.number => g # f
          BY <1>2 DEF SignInInv, TypeOK, Families
        <4> QED BY <1>5, <4>1 DEF SignInInv, Flown
      <3> QED BY <1>3, <1>4, <3>1 DEF SignInInv, Flown, Numbered, FlowSteps
    <2>4. Sent'
      BY <1>2, <1>3, <1>5 DEF SignInInv, Sent
    <2>5. Unspent'
      <3>1. ASSUME ~broken
            PROVE  turn[f] = sent[2] /\ ~reused
        <4>1. turn[vault[1]] = vault[2]
          BY <1>2, <3>1 DEF SignInInv, Unspent
        <4>2. ~reused
          BY <3>1 DEF SignInInv, Unspent, ReuseNeedsFault
        <4> QED BY <1>2, <4>1, <4>2
      <3>2. ReuseNeedsFault'
        <4> SUFFICES ASSUME ~broken, reused' PROVE FALSE
          BY <1>3, <1>5 DEF ReuseNeedsFault
        <4> QED BY <1>2, <1>5, <3>1
      <3> QED BY <1>2, <1>3, <1>5, <3>1, <3>2 DEF Unspent
    <2> QED BY <2>1, <2>2, <2>3, <2>4, <2>5 DEF SignInInv
  <1>6. CASE good[f] /\ sent[2] = turn[f]
    <2>1. /\ turn[f] < MaxTurns /\ turn' = [turn EXCEPT ![f] = @ + 1]
          /\ answer' = "rotated" /\ UNCHANGED <<good, reused>>
      BY <1>6 DEF Rotate
    <2>2. turn[f] + 1 \in 0..MaxTurns
      BY <1>2, <2>1, SignInAssumption
    <2> QED BY <1>2, <1>5, <1>6, <2>1, <2>2
  <1>7. CASE ~(good[f] /\ sent[2] = turn[f])
    <2>1. /\ good' = [good EXCEPT ![f] = @ /\ sent[2] >= turn[f]]
          /\ reused' = (reused \/ (good[f] /\ sent[2] < turn[f]))
          /\ answer' = "refused" /\ UNCHANGED turn
      BY <1>7 DEF Rotate
    <2>2. good' \in [Families -> BOOLEAN]
      BY <1>2, <2>1
    <2>3. reused' \in BOOLEAN /\ (reused' => reused \/ sent[2] < turn[f])
      BY <1>2, <2>1
    <2> QED BY <1>2, <1>5, <2>1, <2>2, <2>3
  <1> QED BY <1>6, <1>7

LEMMA CloseKeeps ==
  ASSUME SignInInv, Close
  PROVE  SignInInv'
  <1> DEFINE k == IF session THEN [Idle EXCEPT !.job = "release", !.at = "token"] ELSE Idle
  <1>1. /\ k \in Thread /\ k.job \in {"none", "release"} /\ k.at \in {"idle", "token"}
        /\ Role("closer", k)
        /\ session \/ k.job = "none"
    BY DEF Idle, Thread, Jobs, Steps, FlowSteps, Role
  <1>2. thread["closer"].job = "none" /\ thread["closer"].at = "idle"
    BY ThreadFacts DEF SignInInv, Roles, Role, Close
  <1>3. /\ \A s \in Threads \ {"closer"} : thread'[s] = thread[s]
        /\ thread' \in [Threads -> Thread]
        /\ thread'["closer"].job \in {"none", "release"}
        /\ thread'["closer"].at \in {"idle", "token"} /\ Role("closer", thread'["closer"])
        /\ session \/ thread'["closer"].job = "none"
    <2>1. thread \in [Threads -> Thread]
      BY DEF SignInInv, TypeOK, Thread
    <2>2. CASE session
      <3>1. Moved("closer", k)
        BY <2>2 DEF Close, Moved
      <3> HIDE DEF k
      <3> QED BY <1>1, <2>2, <3>1, MovedFields, ThreadFacts DEF SignInInv
    <2>3. CASE ~session
      BY <1>2, <2>1, <2>3, ThreadFacts DEF SignInInv, Roles, Close
    <2> QED BY <2>2, <2>3
  <1>4. /\ up /\ closing' = TRUE /\ session' = FALSE
        /\ UNCHANGED <<turn, good, vault, memory, lock, sent, answer, status,
                       launches, up, faults, pressed, reused, broken, forgotten>>
    BY DEF Close, server, ghosts
  <1>5. flow' \in Flow /\ flow'.number = flow.number /\ flow'.cancelled = TRUE
    BY DEF SignInInv, TypeOK, Close, Flow
  <1>6. thread'["worker"] = thread["worker"]
    BY <1>3, ThreadFacts
  <1>7. TypeOK'
    <2>1. \A t \in Threads : lock' = t <=> Holding(thread'[t])
      BY <1>2, <1>3, <1>4, ThreadFacts DEF SignInInv, TypeOK, Holding
    <2>2. {up, closing, pressed, reused, broken, forgotten}' \subseteq BOOLEAN
      BY <1>4 DEF SignInInv, TypeOK
    <2> QED BY <1>3, <1>4, <1>5, <2>1, <2>2 DEF SignInInv, TypeOK, Thread, Flow, Holding
  <1>8. Roles'
    <2>1. \A t \in Threads : Role(t, thread'[t])
      BY <1>3, ThreadFacts DEF SignInInv, Roles
    <2> QED BY <1>4, <2>1 DEF Roles
  <1>9. Standing'
    <2>1. thread["worker"].job = "login" => ~session
      BY DEF SignInInv, Standing
    <2> QED BY <1>3, <1>4, <1>6, <2>1 DEF SignInInv, Standing
  <1>10. Flown'
    BY <1>4, <1>5, <1>6 DEF SignInInv, Flown
  <1>11. Sent'
    <2>1. \A t \in Threads : thread'[t].at = "exchange" <=> thread[t].at = "exchange"
      BY <1>2, <1>3, ThreadFacts
    <2> QED BY <1>4, <2>1 DEF SignInInv, Sent
  <1>12. Unspent' /\ Forgotten' /\ Cancelled'
    BY <1>4, <1>5, <1>6
       DEF SignInInv, Unspent, ReuseNeedsFault, Forgotten, SignOutSticks, Cancelled
  <1> QED BY <1>7, <1>8, <1>9, <1>10, <1>11, <1>12 DEF SignInInv

LEMMA EndsKeeps ==
  ASSUME SignInInv, Ends
  PROVE  SignInInv'
  <1>1. /\ \A t \in Threads : thread'[t] = Idle
        /\ thread' \in [Threads -> Thread]
    BY IdleFacts DEF Ends
  <1>2. /\ up' = FALSE
        /\ UNCHANGED <<turn, good, vault, memory, lock, sent, answer, status, session,
                       flow, launches, closing, faults, pressed, reused, forgotten>>
    BY DEF Ends, server
  <1>3. /\ broken' \in BOOLEAN /\ (broken => broken')
        /\ (\E t \in Threads : thread[t].at = "exchange") => broken'
    BY DEF SignInInv, TypeOK, Ends
  <1>4. TypeOK'
    <2>1. {up, closing, pressed, reused, broken, forgotten}' \subseteq BOOLEAN
      BY <1>2, <1>3 DEF SignInInv, TypeOK
    <2> QED BY <1>1, <1>2, <2>1 DEF SignInInv, TypeOK, Thread
  <1>5. Roles'
    BY <1>1, IdleFacts, ThreadFacts DEF Roles
  <1>6. Standing'
    BY <1>1, <1>2, IdleFacts, ThreadFacts DEF SignInInv, Standing
  <1>7. Flown'
    BY <1>1, <1>2, IdleFacts, ThreadFacts
       DEF SignInInv, Flown, Numbered, FlowSteps
  <1>8. Sent'
    BY <1>1, <1>2, <1>3, IdleFacts DEF SignInInv, Sent, Ends
  <1>9. Unspent'
    BY <1>2, <1>3 DEF SignInInv, Unspent, ReuseNeedsFault
  <1>10. Forgotten' /\ Cancelled'
    BY <1>1, <1>2, IdleFacts, ThreadFacts DEF Forgotten, SignOutSticks, Cancelled
  <1> QED BY <1>4, <1>5, <1>6, <1>7, <1>8, <1>9, <1>10 DEF SignInInv

(***************************************************************************)
(* The theorems.                                                           *)
(***************************************************************************)
LEMMA SignInInit == Init => SignInInv
  <1> SUFFICES ASSUME Init PROVE SignInInv
    OBVIOUS
  <1>1. \A t \in Threads : thread[t] = Idle
    BY DEF Init
  <1>2. vault \in Tokens /\ vault[1] = 0 /\ (vault # None => vault[2] = 1)
    BY SignInAssumption, NoneFacts DEF Init, Tokens, None, Families
  <1>3. TypeOK
    <2>1. /\ turn \in [Families -> 0..MaxTurns] /\ good \in [Families -> BOOLEAN]
      BY SignInAssumption DEF Init
    <2>2. flow \in Flow /\ launches \in 0..MaxLaunches /\ faults \in 0..MaxFaults
      BY SignInAssumption DEF Init, Flow, NoFlow
    <2>3. thread \in [Threads -> Thread]
      BY IdleFacts DEF Init
    <2> QED BY <1>2, <2>1, <2>2, <2>3, NoneFacts DEF Init, TypeOK, Thread, Flow
  <1>4. Roles
    BY <1>1, IdleFacts, ThreadFacts DEF Roles
  <1>5. Standing /\ Cancelled /\ Forgotten
    BY <1>1, IdleFacts, ThreadFacts
       DEF Init, Standing, Cancelled, Forgotten, SignOutSticks
  <1>6. Flown
    BY <1>1, <1>2, IdleFacts, ThreadFacts, NoneFacts, SignInAssumption
       DEF Init, Flown, NoFlow, Numbered, FlowSteps, Families
  <1>7. Sent
    BY <1>1, IdleFacts DEF Init, Sent
  <1>8. Unspent
    BY <1>2, NoneFacts DEF Init, Unspent, ReuseNeedsFault
  <1> QED BY <1>3, <1>4, <1>5, <1>6, <1>7, <1>8 DEF SignInInv

LEMMA SignInNext == SignInInv /\ [Next]_vars => SignInInv'
  <1> SUFFICES ASSUME SignInInv, [Next]_vars PROVE SignInInv'
    OBVIOUS
  <1>1. CASE Launch
    BY <1>1, LaunchKeeps
  <1>2. CASE \E job \in {"login", "heartbeat", "probe", "coupon", "signout"} : Submit(job)
    BY <1>2, SubmitKeeps
  <1>3. CASE Cancel \/ Callback \/ Teardown
    BY <1>3, CancelKeeps, CallbackKeeps
  <1>4. CASE Rotate
    BY <1>4, RotateKeeps
  <1>5. ASSUME NEW t \in Threads, Step(t) PROVE SignInInv'
    BY <1>5, ClearKeeps, BindKeeps, BrowserKeeps, WaitKeeps, CodeKeeps, SaveKeeps,
       RestoreKeeps, MeKeeps, TokenKeeps, CallKeeps, RefreshKeeps, LoadKeeps,
       DiscardKeeps, KeepKeeps, ForgetKeeps
       DEF Step
  <1>6. CASE Close \/ Ends
    BY <1>6, CloseKeeps, EndsKeeps
  <1>7. CASE UNCHANGED vars
    BY <1>7 DEF vars, SignInInv, TypeOK, Roles, Standing, Flown, Sent, Unspent,
                Forgotten, Cancelled, SignOutSticks, ReuseNeedsFault
  <1> QED BY <1>1, <1>2, <1>3, <1>4, <1>5, <1>6, <1>7 DEF Next

\* The inductive invariant: one thread at a time exchanges, what it sends is what
\* is stored, and unless something broke, what is stored has not been used.
THEOREM SignInHolds == Spec => []SignInInv
  BY SignInInit, SignInNext, PTL DEF Spec

\* One holder of the token lock, and no used refresh token is presented again
\* before a vault failed, an error answer broke off or the launcher ended inside an
\* exchange: _refresh_locked saves the new token before anybody may send one, and
\* clears what it could not replace.
THEOREM TokensAreUsedOnce == Spec => []VaultOK
  <1>1. SignInInv => VaultOK
    BY DEF SignInInv, Unspent, VaultOK
  <1> QED BY <1>1, SignInHolds, PTL

\* After sign_out or clear_local_session nothing of the credential is left, and no
\* thread that was on its way brings it back: every writer of the vault takes the
\* lock, and finds the vault empty.
THEOREM SignedOutStaysSo == Spec => []SignOutSticks
  <1>1. SignInInv => SignOutSticks
    BY DEF SignInInv, Forgotten
  <1> QED BY <1>1, SignInHolds, PTL

\* A sign-in that the user cancelled before its tokens came does not leave the
\* browser flow but to fail: the flag outlives the listener's, and is read again
\* after the exchange of the code.
THEOREM CancelledNeverSignsIn == Spec => []CancelHonoured
  <1>1. SignInInv => CancelHonoured
    BY DEF SignInInv, Cancelled, CancelHonoured, Numbered
  <1> QED BY <1>1, SignInHolds, PTL
=============================================================================
