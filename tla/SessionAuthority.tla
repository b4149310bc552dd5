--------------------------- MODULE SessionAuthority ---------------------------
(***************************************************************************)
(* The server's side of a proxy session, for one user: claim, heartbeat,   *)
(* release and the two transactions behind a launch permit, as the         *)
(* statements of PostgreSQL transactions at READ COMMITTED.  A statement   *)
(* sees what was committed when it started, now() is the time the          *)
(* transaction started, and an advisory lock may have been waited for in   *)
(* between.  A launcher that lost patience calls again while its earlier   *)
(* call still waits, so a call is not its caller.                          *)
(***************************************************************************)
EXTENDS Integers, Sequences, FiniteSets

CONSTANTS Launchers,    \* the web sessions of the user
          Calls,        \* calls the server works on at a time
          None,
          Lapse,        \* the 90 seconds a session lives without a heartbeat
          Window,       \* PERMIT_RATE_WINDOW_SECONDS
          Limit,        \* PERMIT_RATE_LIMIT
          MaxTime, MaxClaims, MaxAttempts   \* bounds of the instance

ASSUME ServerAssumption ==
  /\ None \notin Launchers \cup Calls
  /\ {Lapse, Window, Limit} \subseteq Nat \ {0}
  /\ {MaxTime, MaxClaims, MaxAttempts} \subseteq Nat

VARIABLES
  now,        \* the server's clock
  live,       \* the web sessions not revoked, linked and not expired
  standing,   \* "good", "restricted": the profile, "unlicensed": the licence
  sessions,   \* launcher_v2.sessions, in the order of insertion
  attempts,   \* launcher_v2.permit_attempts
  call,       \* the calls under way
  userLock,   \* pg_advisory_xact_lock(user): the call that holds it
  rateLock,   \* pg_advisory_xact_lock(permit-rate:user)
  told,       \* a positive answer just given: the session, and `since` of its call
  violated    \* an insert met sessions_one_active_per_user_idx

rows == <<sessions, attempts>>
locks == <<userLock, rateLock>>
world == <<now, live, standing>>
vars == <<world, rows, call, locks, told, violated>>

Standings == {"good", "restricted", "unlicensed"}
Sessions == [by: Launchers, seen: 0..MaxTime, revoked: BOOLEAN]
Attempts == [at: 0..MaxTime, allowed: BOOLEAN]
Steps == {"claim", "inserting", "beat", "release",
          "count", "counted", "permit", "sign"}

\* `since` is the number of sessions when a call that may be told something
\* arrived, `start` the start of its current transaction, `arg` what its last
\* statement read.
CallRecords == [step: Steps, by: Launchers, since: 0..MaxClaims,
                start: 0..MaxTime, arg: {None} \cup 0..MaxClaims
                                        \cup 0..MaxAttempts]

TypeOK ==
  /\ now \in 0..MaxTime /\ live \subseteq Launchers /\ standing \in Standings
  /\ sessions \in Seq(Sessions) /\ Len(sessions) <= MaxClaims
  /\ attempts \in Seq(Attempts) /\ Len(attempts) <= MaxAttempts
  /\ call \in [Calls -> {None} \cup CallRecords]
  /\ userLock \in {None} \cup Calls /\ rateLock \in {None} \cup Calls
  /\ told \in {None} \cup (1..MaxClaims) \X (0..MaxClaims)
  /\ violated \in BOOLEAN

Init ==
  /\ now = 0 /\ live = Launchers /\ standing = "good"
  /\ sessions = <<>> /\ attempts = <<>>
  /\ call = [c \in Calls |-> None] /\ userLock = None /\ rateLock = None
  /\ told = None /\ violated = FALSE

(***************************************************************************)
(* Transactions.                                                           *)
(***************************************************************************)
Arrive(c, by, step, arg) ==
  /\ call[c] = None
  /\ call' = [call EXCEPT ![c] =
       [step |-> step, by |-> by, start |-> now, arg |-> arg,
        since |-> IF step \in {"beat", "count"} THEN Len(sessions) ELSE 0]]

At(c, step) == call[c] # None /\ call[c].step = step
GoesTo(c, step, arg) ==
  call' = [call EXCEPT ![c].step = step, ![c].arg = arg]

\* The transaction ends, whatever it answers, and with it its locks.
Ends(c) ==
  /\ call' = [call EXCEPT ![c] = None]
  /\ userLock' = IF userLock = c THEN None ELSE userLock
  /\ rateLock' = IF rateLock = c THEN None ELSE rateLock

Unrevoked == {s \in DOMAIN sessions : ~sessions[s].revoked}
Revoking(S) ==
  [s \in DOMAIN sessions |->
     IF s \in S THEN [sessions[s] EXCEPT !.revoked = TRUE] ELSE sessions[s]]

\* seen > now() - interval '90 seconds', in the transaction of c.
Fresh(c, s) == sessions[s].seen > call[c].start - Lapse

Tells(c, s) == told' = <<s, call[c].since>>

(***************************************************************************)
(* claim_session.                                                          *)
(***************************************************************************)
Claim(c, by) ==
  /\ by \in live /\ Len(sessions) < MaxClaims
  /\ Arrive(c, by, "claim", None)
  /\ UNCHANGED <<world, rows, locks, violated>> /\ told' = None

\* account_restricted or license_invalid, read under the lock.
RefuseClaim(c) ==
  /\ At(c, "claim") /\ userLock = None /\ standing # "good"
  /\ Ends(c)
  /\ UNCHANGED <<world, rows, violated>> /\ told' = None

\* The update of the unrevoked session; nobody else sees it yet.
RevokeOthers(c) ==
  /\ At(c, "claim") /\ standing = "good"
  /\ GoesTo(c, "inserting",
            IF Unrevoked = {} THEN 0 ELSE CHOOSE s \in Unrevoked : TRUE)
  /\ UNCHANGED <<world, rows, violated>> /\ told' = None

\* Mutant: nothing orders two claims of one user.
ClaimUnlocked(c) == RevokeOthers(c) /\ UNCHANGED locks

LockClaim(c) ==
  /\ userLock = None /\ userLock' = c
  /\ RevokeOthers(c)
  /\ UNCHANGED rateLock

\* The insert and the commit; a second unrevoked session is refused.
InsertSession(c) ==
  /\ At(c, "inserting")
  /\ LET mine == {call[c].arg} IN
       IF Unrevoked \subseteq mine /\ Len(sessions) < MaxClaims
       THEN /\ sessions' = Append(Revoking(mine),
                 [by |-> call[c].by, seen |-> call[c].start, revoked |-> FALSE])
            /\ violated' = violated
       ELSE /\ sessions' = sessions
            /\ violated' = (violated \/ ~(Unrevoked \subseteq mine))
  /\ Ends(c)
  /\ UNCHANGED <<world, attempts>> /\ told' = None

(***************************************************************************)
(* heartbeat_session: one statement, no advisory lock.                     *)
(***************************************************************************)
Heartbeat(c, by, s) ==
  /\ s \in DOMAIN sessions /\ sessions[s].by = by
  /\ Arrive(c, by, "beat", s)
  /\ UNCHANGED <<world, rows, locks, violated>> /\ told' = None

Beat(c) ==
  /\ At(c, "beat")
  /\ LET s == call[c].arg IN
       IF /\ ~sessions[s].revoked /\ Fresh(c, s)
          /\ call[c].by \in live /\ standing # "unlicensed"
       THEN /\ sessions' = [sessions EXCEPT ![s].seen = call[c].start]
            /\ Tells(c, s)
       ELSE UNCHANGED sessions /\ told' = None
  /\ Ends(c)
  /\ UNCHANGED <<world, attempts, violated>>

(***************************************************************************)
(* release_session.                                                        *)
(***************************************************************************)
Release(c, by, s) ==
  /\ s \in DOMAIN sessions /\ sessions[s].by = by
  /\ Arrive(c, by, "release", s)
  /\ UNCHANGED <<world, rows, locks, violated>> /\ told' = None

\* Under the lock, in one statement.  It does not ask whether the identity is
\* still linked, so a web session that is not live may release all the same.
ReleaseSession(c) ==
  /\ At(c, "release") /\ userLock = None
  /\ \/ sessions' = Revoking({call[c].arg})
     \/ call[c].by \notin live /\ UNCHANGED sessions
  /\ Ends(c)
  /\ UNCHANGED <<world, attempts, violated>> /\ told' = None

(***************************************************************************)
(* issue_launch_permit: consume_permit_attempt, which only asks whether    *)
(* the web session is revoked, authorize_launch_permit, the signature.     *)
(***************************************************************************)
RequestPermit(c, by) ==
  /\ Len(attempts) < MaxAttempts
  /\ Arrive(c, by, "count", None)
  /\ UNCHANGED <<world, rows, locks, violated>> /\ told' = None

CountAttempts(c) ==
  /\ At(c, "count")
  /\ GoesTo(c, "counted",
       Cardinality({a \in DOMAIN attempts :
                      attempts[a].at > call[c].start - Window}))
  /\ UNCHANGED <<world, rows, violated>> /\ told' = None

LockRate(c) ==
  /\ rateLock = None /\ rateLock' = c
  /\ CountAttempts(c)
  /\ UNCHANGED userLock

\* The insert and the commit; a new transaction begins when it is allowed.
RecordAttempt(c) ==
  /\ At(c, "counted") /\ Len(attempts) < MaxAttempts
  /\ LET allowed == call[c].arg < Limit IN
       /\ attempts' = Append(attempts, [at |-> call[c].start,
                                        allowed |-> allowed])
       /\ IF allowed
          THEN /\ call' = [call EXCEPT ![c].step = "permit", ![c].start = now,
                                       ![c].arg = None]
               /\ rateLock' = IF rateLock = c THEN None ELSE rateLock
               /\ UNCHANGED userLock
          ELSE Ends(c)
  /\ UNCHANGED <<world, sessions, violated>> /\ told' = None

\* AuthorizationInvalid, SessionMismatch, SessionInactive, HeartbeatStale or
\* EntitlementInactive unless the one session is the caller's and fresh.
Permitted(c, s) ==
  /\ call[c].by \in live /\ standing = "good"
  /\ \A t \in Unrevoked : sessions[t].by = call[c].by
  /\ s \in Unrevoked /\ Fresh(c, s)

\* Both under the lock: no claim is between its statements.
RefusePermit(c) ==
  /\ At(c, "permit") /\ userLock = None
  /\ ~\E s \in DOMAIN sessions : Permitted(c, s)
  /\ Ends(c)
  /\ UNCHANGED <<world, rows, violated>> /\ told' = None

Authorize(c) ==
  /\ At(c, "permit") /\ userLock = None
  /\ \E s \in DOMAIN sessions : Permitted(c, s) /\ GoesTo(c, "sign", s)
  /\ UNCHANGED <<world, rows, locks, violated>> /\ told' = None

\* The configuration is read and signed after the transaction.
SignPermit(c) ==
  /\ At(c, "sign")
  /\ Tells(c, call[c].arg)
  /\ Ends(c)
  /\ UNCHANGED <<world, rows, violated>>

(***************************************************************************)
(* The world.                                                              *)
(***************************************************************************)
Tick ==
  /\ now < MaxTime
  /\ now' = now + 1
  /\ UNCHANGED <<live, standing, rows, call, locks, violated>> /\ told' = None

\* The operator, an expiry or a sign-out of the web session.
WebSessionEnds(by) ==
  /\ by \in live
  /\ live' = live \ {by}
  /\ UNCHANGED <<now, standing, rows, call, locks, violated>> /\ told' = None

\* bridge_record_web_session: a recorded session is taken up again.
WebSessionBegins(by) ==
  /\ by \notin live
  /\ live' = live \cup {by}
  /\ UNCHANGED <<now, standing, rows, call, locks, violated>> /\ told' = None

\* A claim holds the profile and the licence for share until it commits.
StandingChanges ==
  /\ \A c \in Calls : ~At(c, "inserting")
  /\ standing' \in Standings \ {standing}
  /\ UNCHANGED <<now, live, rows, call, locks, violated>> /\ told' = None

\* The connection breaks or the function is stopped: the transaction is
\* rolled back; a permit that was authorised is never signed.
Breaks(c) ==
  /\ call[c] # None
  /\ Ends(c)
  /\ UNCHANGED <<world, rows, violated>> /\ told' = None

Works(c) ==
  \/ LockClaim(c) \/ RefuseClaim(c) \/ InsertSession(c)
  \/ Beat(c) \/ ReleaseSession(c)
  \/ LockRate(c) \/ RecordAttempt(c)
  \/ RefusePermit(c) \/ Authorize(c) \/ SignPermit(c)

Next ==
  \/ \E c \in Calls, by \in Launchers :
       \/ Claim(c, by) \/ RequestPermit(c, by)
       \/ \E s \in DOMAIN sessions : Heartbeat(c, by, s) \/ Release(c, by, s)
  \/ \E c \in Calls : Works(c) \/ Breaks(c)
  \/ Tick \/ StandingChanges
  \/ \E by \in Launchers : WebSessionEnds(by) \/ WebSessionBegins(by)

Spec == Init /\ [][Next]_vars

(***************************************************************************)
(* Properties.                                                             *)
(***************************************************************************)
\* The latest claim wins: no claim ever fails for another's sake, at most
\* the last session is unrevoked, and a launcher whose session had been
\* replaced before its call arrived is never told that it lives, by a
\* heartbeat, nor given a permit, however long its call waited.
LatestClaimWins ==
  /\ ~violated
  /\ Unrevoked \subseteq {Len(sessions)}
  /\ told # None => told[1] >= told[2]

\* In no window of time are more permits allowed than the limit, whatever
\* order the transactions started and took the lock in.
RateHolds ==
  \A t \in 0..MaxTime :
    Cardinality({a \in DOMAIN attempts :
       attempts[a].allowed /\ attempts[a].at > t - Window /\ attempts[a].at <= t})
      <= Limit

\* The types, the sessions and the permits of one user.
AuthorityOK == TypeOK /\ LatestClaimWins /\ RateHolds
=============================================================================
