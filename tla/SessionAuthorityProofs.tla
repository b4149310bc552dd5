------------------------ MODULE SessionAuthorityProofs ------------------------
(***************************************************************************)
(* The server's promises to a user, for every number of launchers, calls   *)
(* and rows.  Everything rests on what a call may rely on between two of   *)
(* its statements: CallInv.                                                *)
(***************************************************************************)
EXTENDS SessionAuthority, FiniteSetTheorems, TLAPS

Counted(t) == {a \in DOMAIN attempts : attempts[a].at > t - Window}

\* A claim between its statements holds the user's lock, and nobody revoked or
\* began a session since it looked.
Inserting(c) ==
  At(c, "inserting") => userLock = c /\ Unrevoked \subseteq {call[c].arg}

\* A call names a session that exists; what will be told is about the latest one
\* at its arrival, or a later one.
Names(c) ==
  /\ At(c, "beat") \/ At(c, "release") => call[c].arg \in DOMAIN sessions
  /\ At(c, "sign") => /\ call[c].arg \in DOMAIN sessions
                      /\ call[c].arg >= call[c].since
  /\ call[c] # None => call[c].since <= Len(sessions)

\* Nobody recorded an attempt since this call counted them.
Counting(c) ==
  At(c, "counted") => /\ rateLock = c
                      /\ call[c].arg = Cardinality(Counted(call[c].start))

SessionInv == \A c \in Calls : Inserting(c) /\ Names(c)
RateInv == \A c \in Calls : Counting(c)
IInv == TypeOK /\ LatestClaimWins /\ SessionInv /\ RateHolds /\ RateInv

-----------------------------------------------------------------------------
(* The rows.                                                               *)

LEMMA RevokingRows ==
  ASSUME sessions \in Seq(Sessions), NEW S
  PROVE  /\ Revoking(S) \in Seq(Sessions)
         /\ Len(Revoking(S)) = Len(sessions)
         /\ \A s \in DOMAIN sessions :
              /\ s \in DOMAIN Revoking(S)
              /\ ~Revoking(S)[s].revoked => ~sessions[s].revoked /\ s \notin S
<1>1. DOMAIN sessions = 1..Len(sessions) /\ Len(sessions) \in Nat
  OBVIOUS
<1>2. ASSUME NEW s \in DOMAIN sessions
      PROVE  /\ Revoking(S)[s] \in Sessions
             /\ ~Revoking(S)[s].revoked => ~sessions[s].revoked /\ s \notin S
  <2>1. sessions[s] \in Sessions
    BY <1>2
  <2>2. [sessions[s] EXCEPT !.revoked = TRUE] \in Sessions
    BY <2>1 DEF Sessions
  <2>3. [sessions[s] EXCEPT !.revoked = TRUE].revoked = TRUE
    BY <2>1 DEF Sessions
  <2>4. QED
    BY <2>1, <2>2, <2>3 DEF Revoking
<1>3. Revoking(S) = [s \in DOMAIN sessions |-> Revoking(S)[s]]
  BY DEF Revoking
<1>4. Revoking(S) \in [1..Len(sessions) -> Sessions]
  BY <1>1, <1>2, <1>3
<1>5. Revoking(S) \in Seq(Sessions) /\ Len(Revoking(S)) = Len(sessions)
  BY <1>1, <1>4
<1>6. QED
  BY <1>1, <1>2, <1>4, <1>5
-----------------------------------------------------------------------------
(* The calls: what an arrival, a step and an end of one call leave of all. *)

CallType == [Calls -> {None} \cup CallRecords]
Args == {None} \cup 0..MaxClaims \cup 0..MaxAttempts
Locked(lock) == lock \in {None} \cup Calls

LEMMA Arrives ==
  ASSUME TypeOK, NEW c \in Calls, NEW by \in Launchers, NEW step \in Steps,
         NEW arg \in Args, Arrive(c, by, step, arg)
  PROVE  /\ call' \in CallType
         /\ call'[c].step = step /\ call'[c].arg = arg
         /\ call'[c].since <= Len(sessions)
         /\ \A d \in Calls \ {c} : call'[d] = call[d]
<1>1. Len(sessions) \in 0..MaxClaims /\ now \in 0..MaxTime
  BY ServerAssumption DEF TypeOK
<1> DEFINE r == [step |-> step, by |-> by, start |-> now, arg |-> arg,
                 since |-> IF step \in {"beat", "count"} THEN Len(sessions) ELSE 0]
<1>2. r \in CallRecords
  BY <1>1, ServerAssumption DEF CallRecords, Args
<1>3. call' = [call EXCEPT ![c] = r]
  BY DEF Arrive
<1>4. r.step = step /\ r.arg = arg /\ r.since <= Len(sessions)
  BY <1>1
<1> HIDE DEF r
<1>5. QED
  BY <1>2, <1>3, <1>4 DEF TypeOK, CallType

LEMMA Goes ==
  ASSUME TypeOK, NEW c \in Calls, call[c] # None, NEW step \in Steps,
         NEW arg \in Args, GoesTo(c, step, arg)
  PROVE  /\ call' \in CallType
         /\ call'[c].step = step /\ call'[c].arg = arg
         /\ call'[c].since = call[c].since /\ call'[c].start = call[c].start
         /\ \A d \in Calls \ {c} : call'[d] = call[d]
<1> DEFINE r == [[call[c] EXCEPT !.step = step] EXCEPT !.arg = arg]
<1>1. call[c] \in CallRecords
  BY DEF TypeOK
<1>2. /\ r \in CallRecords
      /\ r.step = step /\ r.arg = arg
      /\ r.since = call[c].since /\ r.start = call[c].start
  BY <1>1 DEF CallRecords, Args
<1>3. call' = [call EXCEPT ![c] = r]
  BY <1>1 DEF GoesTo, TypeOK
<1> HIDE DEF r
<1>4. QED
  BY <1>2, <1>3 DEF TypeOK, CallType

LEMMA Ended ==
  ASSUME TypeOK, NEW c \in Calls, Ends(c)
  PROVE  /\ call' \in CallType /\ call'[c] = None
         /\ \A d \in Calls \ {c} : call'[d] = call[d]
         /\ Locked(userLock') /\ Locked(rateLock')
         /\ \A d \in Calls \ {c} : /\ userLock = d => userLock' = d
                                   /\ rateLock = d => rateLock' = d
  BY DEF TypeOK, Ends, CallType, Locked

\* A call that is not touched, over rows that are not either.
LEMMA Frame ==
  ASSUME IInv, UNCHANGED rows, NEW d \in Calls, call'[d] = call[d],
         userLock = d => userLock' = d, rateLock = d => rateLock' = d
  PROVE  Inserting(d)' /\ Names(d)' /\ Counting(d)'
<1>1. Inserting(d) /\ Names(d) /\ Counting(d)
  BY DEF IInv, SessionInv, RateInv
<1>2. Inserting(d)'
  BY <1>1 DEF Inserting, At, Unrevoked, rows
<1>3. Names(d)'
  BY <1>1 DEF Names, At, rows
<1>4. Counting(d)'
  BY <1>1 DEF Counting, At, Counted, rows
<1>5. QED
  BY <1>2, <1>3, <1>4

\* A step of one call that leaves the rows alone.
LEMMA RowsKept ==
  ASSUME IInv, UNCHANGED <<world, rows, violated>>, NEW c \in Calls,
         call' \in CallType, Locked(userLock'), Locked(rateLock'),
         \A d \in Calls \ {c} : /\ call'[d] = call[d]
                                /\ userLock = d => userLock' = d
                                /\ rateLock = d => rateLock' = d,
         told' \in {None} \cup (1..MaxClaims) \X (0..MaxClaims),
         told' # None => told'[1] >= told'[2],
         Inserting(c)', Names(c)', Counting(c)'
  PROVE  IInv'
<1>1. TypeOK'
  BY DEF IInv, TypeOK, world, rows, CallType, Locked
<1>2. LatestClaimWins' /\ RateHolds'
  BY DEF IInv, LatestClaimWins, RateHolds, Unrevoked, rows
<1>3. ASSUME NEW d \in Calls
      PROVE  Inserting(d)' /\ Names(d)' /\ Counting(d)'
  <2>1. CASE d = c
    BY <2>1
  <2>2. CASE d # c
    BY <2>2, Frame DEF rows
  <2>3. QED
    BY <2>1, <2>2
<1>4. QED
  BY <1>1, <1>2, <1>3 DEF IInv, SessionInv, RateInv

\* The end of a call that leaves the rows alone.
LEMMA EndKept ==
  ASSUME IInv, UNCHANGED <<world, rows, violated>>, NEW c \in Calls, Ends(c),
         told' \in {None} \cup (1..MaxClaims) \X (0..MaxClaims),
         told' # None => told'[1] >= told'[2]
  PROVE  IInv'
<1>1. /\ call' \in CallType /\ call'[c] = None
      /\ \A d \in Calls \ {c} : call'[d] = call[d]
      /\ Locked(userLock') /\ Locked(rateLock')
      /\ \A d \in Calls \ {c} : /\ userLock = d => userLock' = d
                                /\ rateLock = d => rateLock' = d
  BY Ended DEF IInv
<1>2. Inserting(c)' /\ Names(c)' /\ Counting(c)'
  BY <1>1 DEF Inserting, Names, Counting, At
<1>3. QED
  BY <1>1, <1>2, RowsKept

-----------------------------------------------------------------------------
(* One lemma for each group of actions.                                    *)

LEMMA WorldKeeps ==
  ASSUME IInv, UNCHANGED <<rows, call, locks, violated>>, told' = None,
         now' \in 0..MaxTime, live' \subseteq Launchers, standing' \in Standings
  PROVE  IInv'
<1>1. TypeOK'
  BY DEF IInv, TypeOK, rows, locks
<1>2. LatestClaimWins' /\ RateHolds'
  BY DEF IInv, LatestClaimWins, RateHolds, Unrevoked, rows
<1>3. ASSUME NEW d \in Calls
      PROVE  Inserting(d)' /\ Names(d)' /\ Counting(d)'
  BY <1>3, Frame DEF locks
<1>4. QED
  BY <1>1, <1>2, <1>3 DEF IInv, SessionInv, RateInv

LEMMA ArrivalKeeps ==
  ASSUME IInv, NEW c \in Calls, NEW by \in Launchers,
         \/ Claim(c, by) \/ RequestPermit(c, by)
         \/ \E s \in DOMAIN sessions : Heartbeat(c, by, s) \/ Release(c, by, s)
  PROVE  IInv'
<1>1. PICK step \in {"claim", "beat", "release", "count"}, arg \in Args :
        /\ Arrive(c, by, step, arg)
        /\ step \in {"beat", "release"} => arg \in DOMAIN sessions
        /\ UNCHANGED <<world, rows, locks, violated>> /\ told' = None
  <2>1. ASSUME NEW s \in DOMAIN sessions PROVE s \in Args
    BY ServerAssumption DEF IInv, TypeOK, Args
  <2>2. None \in Args
    BY DEF Args
  <2>3. CASE Claim(c, by) \/ RequestPermit(c, by)
    BY <2>2, <2>3 DEF Claim, RequestPermit
  <2>4. CASE \E s \in DOMAIN sessions : Heartbeat(c, by, s) \/ Release(c, by, s)
    BY <2>1, <2>4 DEF Heartbeat, Release
  <2>5. QED
    BY <2>3, <2>4
<1>2. /\ call' \in CallType
      /\ call'[c].step = step /\ call'[c].arg = arg
      /\ call'[c].since <= Len(sessions)
      /\ \A d \in Calls \ {c} : call'[d] = call[d]
  BY <1>1, Arrives DEF IInv, Steps
<1>3. Inserting(c)' /\ Names(c)' /\ Counting(c)'
  BY <1>1, <1>2 DEF Inserting, Names, Counting, At, rows
<1>4. Locked(userLock') /\ Locked(rateLock')
  BY <1>1 DEF IInv, TypeOK, locks, Locked
<1>5. QED
  BY <1>1, <1>2, <1>3, <1>4, RowsKept DEF locks

LEMMA EndKeeps ==
  ASSUME IInv, NEW c \in Calls, RefuseClaim(c) \/ RefusePermit(c) \/ Breaks(c)
  PROVE  IInv'
<1>1. Ends(c) /\ UNCHANGED <<world, rows, violated>> /\ told' = None
  BY DEF RefuseClaim, RefusePermit, Breaks
<1>2. QED
  BY <1>1, EndKept

LEMMA SignKeeps ==
  ASSUME IInv, NEW c \in Calls, SignPermit(c)
  PROVE  IInv'
<1>1. /\ At(c, "sign") /\ Ends(c) /\ UNCHANGED <<world, rows, violated>>
      /\ told' = <<call[c].arg, call[c].since>>
  BY DEF SignPermit, Tells
<1>2. call[c].arg \in DOMAIN sessions /\ call[c].arg >= call[c].since
  BY <1>1 DEF IInv, SessionInv, Names
<1>3. call[c].arg \in 1..MaxClaims
  BY <1>2, ServerAssumption DEF IInv, TypeOK
<1>4. call[c].since \in 0..MaxClaims
  BY <1>1 DEF IInv, TypeOK, At, CallRecords
<1>5. QED
  BY <1>1, <1>2, <1>3, <1>4, EndKept

LEMMA LockClaimKeeps ==
  ASSUME IInv, NEW c \in Calls, LockClaim(c)
  PROVE  IInv'
<1> DEFINE seen == IF Unrevoked = {} THEN 0 ELSE CHOOSE s \in Unrevoked : TRUE
<1>1. /\ userLock = None /\ userLock' = c /\ rateLock' = rateLock
      /\ At(c, "claim") /\ GoesTo(c, "inserting", seen)
      /\ UNCHANGED <<world, rows, violated>> /\ told' = None
  BY DEF LockClaim, RevokeOthers
<1>2. Unrevoked \subseteq {Len(sessions)} /\ Unrevoked \subseteq DOMAIN sessions
  BY DEF IInv, LatestClaimWins, Unrevoked
<1>3. Unrevoked \subseteq {seen}
  BY <1>2
<1>4. seen \in Args
  <2>1. DOMAIN sessions \subseteq 0..MaxClaims
    BY ServerAssumption DEF IInv, TypeOK
  <2>2. seen \in Unrevoked \cup {0}
    OBVIOUS
  <2>3. QED
    BY <1>2, <2>1, <2>2, ServerAssumption DEF Args
<1> HIDE DEF seen
<1>5. /\ call' \in CallType
      /\ call'[c].step = "inserting" /\ call'[c].arg = seen
      /\ call'[c].since = call[c].since
      /\ \A d \in Calls \ {c} : call'[d] = call[d]
  BY <1>1, <1>4, Goes DEF IInv, At, Steps
<1>6. Inserting(c)'
  BY <1>1, <1>3, <1>5 DEF Inserting, Unrevoked, rows
<1>7. Names(c)' /\ Counting(c)'
  BY <1>1, <1>5 DEF Names, Counting, At, rows, IInv, SessionInv
<1>8. Locked(userLock') /\ Locked(rateLock')
  BY <1>1 DEF IInv, TypeOK, Locked
<1>9. \A d \in Calls \ {c} : userLock = d => userLock' = d
  BY <1>1, ServerAssumption
<1>10. QED
  BY <1>1, <1>5, <1>6, <1>7, <1>8, <1>9, RowsKept

LEMMA AuthorizeKeeps ==
  ASSUME IInv, NEW c \in Calls, Authorize(c)
  PROVE  IInv'
<1>1. PICK s \in DOMAIN sessions : Permitted(c, s) /\ GoesTo(c, "sign", s)
  BY DEF Authorize
<1>2. /\ At(c, "permit") /\ UNCHANGED <<world, rows, locks, violated>>
      /\ told' = None
  BY DEF Authorize
<1>3. s = Len(sessions)
  BY <1>1 DEF Permitted, IInv, LatestClaimWins
<1>4. s \in Args
  BY ServerAssumption DEF IInv, TypeOK, Args
<1>5. /\ call' \in CallType
      /\ call'[c].step = "sign" /\ call'[c].arg = s
      /\ call'[c].since = call[c].since
      /\ \A d \in Calls \ {c} : call'[d] = call[d]
  BY <1>1, <1>2, <1>4, Goes DEF IInv, At, Steps
<1>6. call[c].since <= Len(sessions) /\ call[c].since \in Nat
  BY <1>2, ServerAssumption DEF IInv, SessionInv, Names, At, TypeOK, CallRecords
<1>7. Inserting(c)' /\ Names(c)' /\ Counting(c)'
  BY <1>2, <1>3, <1>5, <1>6 DEF Inserting, Names, Counting, At, rows
<1>8. Locked(userLock') /\ Locked(rateLock')
  BY <1>2 DEF IInv, TypeOK, locks, Locked
<1>9. QED
  BY <1>2, <1>5, <1>7, <1>8, RowsKept DEF locks

\* The attempts a call counts are at most all of them.
LEMMA CountedBounded ==
  ASSUME TypeOK, NEW t \in Int
  PROVE  /\ IsFiniteSet(Counted(t))
         /\ Cardinality(Counted(t)) \in 0..MaxAttempts
<1>1. Len(attempts) \in 0..MaxAttempts /\ DOMAIN attempts = 1..Len(attempts)
  BY ServerAssumption DEF TypeOK
<1>2. /\ IsFiniteSet(1..Len(attempts))
      /\ Cardinality(1..Len(attempts)) = Len(attempts)
  <2>1. 1 \in Int /\ Len(attempts) \in Int
    BY <1>1
  <2>2. /\ IsFiniteSet(1..Len(attempts))
        /\ Cardinality(1..Len(attempts)) =
             IF 1 > Len(attempts) THEN 0 ELSE Len(attempts) - 1 + 1
    BY <2>1, FS_Interval
  <2>3. QED
    BY <1>1, <2>2, ServerAssumption
<1>3. Counted(t) \subseteq 1..Len(attempts)
  BY <1>1 DEF Counted
<1>4. /\ IsFiniteSet(Counted(t))
      /\ Cardinality(Counted(t)) <= Len(attempts)
  BY <1>2, <1>3, FS_Subset
<1>5. Cardinality(Counted(t)) \in Nat
  BY <1>4, FS_CardinalityType
<1>6. QED
  BY <1>1, <1>4, <1>5, ServerAssumption

LEMMA LockRateKeeps ==
  ASSUME IInv, NEW c \in Calls, LockRate(c)
  PROVE  IInv'
<1> DEFINE n == Cardinality(Counted(call[c].start))
<1>1. /\ rateLock = None /\ rateLock' = c /\ userLock' = userLock
      /\ At(c, "count") /\ GoesTo(c, "counted", n)
      /\ UNCHANGED <<world, rows, violated>> /\ told' = None
  BY DEF LockRate, CountAttempts, Counted
<1>2. call[c] \in CallRecords
  BY <1>1 DEF IInv, TypeOK, At
<1>3. call[c].start \in Int
  BY <1>2, ServerAssumption DEF CallRecords
<1>4. n \in Args
  BY <1>3, CountedBounded DEF IInv, Args
<1> HIDE DEF n
<1>5. /\ call' \in CallType
      /\ call'[c].step = "counted" /\ call'[c].arg = n
      /\ call'[c].since = call[c].since /\ call'[c].start = call[c].start
      /\ \A d \in Calls \ {c} : call'[d] = call[d]
  BY <1>1, <1>4, Goes DEF IInv, At, Steps
<1>6. Counting(c)'
  BY <1>1, <1>5 DEF Counting, Counted, rows, n
<1>7. Names(c)' /\ Inserting(c)'
  BY <1>1, <1>5 DEF Names, Inserting, At, rows, IInv, SessionInv
<1>8. Locked(userLock') /\ Locked(rateLock')
  BY <1>1 DEF IInv, TypeOK, Locked
<1>9. \A d \in Calls \ {c} : rateLock = d => rateLock' = d
  BY <1>1, ServerAssumption
<1>10. QED
  BY <1>1, <1>5, <1>6, <1>7, <1>8, <1>9, RowsKept

\* The end of a call that changed the sessions.
LEMMA SessionsKept ==
  ASSUME IInv, UNCHANGED <<world, attempts, violated>>, NEW c \in Calls, Ends(c),
         sessions' \in Seq(Sessions),
         Len(sessions') >= Len(sessions), Len(sessions') <= MaxClaims,
         told' \in {None} \cup (1..MaxClaims) \X (0..MaxClaims),
         told' # None => told'[1] >= told'[2],
         Unrevoked' \subseteq {Len(sessions')},
         \A d \in Calls \ {c} :
           At(d, "inserting") => Unrevoked' \subseteq {call[d].arg}
  PROVE  IInv'
<1>1. /\ call' \in CallType /\ call'[c] = None
      /\ \A d \in Calls \ {c} : call'[d] = call[d]
      /\ Locked(userLock') /\ Locked(rateLock')
      /\ \A d \in Calls \ {c} : /\ userLock = d => userLock' = d
                                /\ rateLock = d => rateLock' = d
  BY Ended DEF IInv
<1>2. TypeOK'
  BY <1>1 DEF IInv, TypeOK, world, CallType, Locked
<1>3. LatestClaimWins' /\ RateHolds'
  BY DEF IInv, LatestClaimWins, RateHolds
<1>4. Inserting(c)' /\ Names(c)' /\ Counting(c)'
  BY <1>1 DEF Inserting, Names, Counting, At
<1>5. ASSUME NEW d \in Calls \ {c}
      PROVE  Inserting(d)' /\ Names(d)' /\ Counting(d)'
  <2>1. Inserting(d) /\ Names(d) /\ Counting(d)
    BY DEF IInv, SessionInv, RateInv
  <2>2. call'[d] = call[d]
    BY <1>1
  <2>3. Inserting(d)'
    BY <1>1, <2>1, <2>2 DEF Inserting, At
  <2>4. DOMAIN sessions \subseteq DOMAIN sessions'
    BY DEF IInv, TypeOK
  <2>5. At(d, "sign")' \/ At(d, "beat")' \/ At(d, "release")' =>
          call[d].arg \in DOMAIN sessions'
    BY <2>1, <2>2, <2>4 DEF Names, At
  <2>6. call[d] # None => call[d].since <= Len(sessions')
    <3>1. SUFFICES ASSUME call[d] # None PROVE call[d].since <= Len(sessions')
      OBVIOUS
    <3>2. call[d].since \in Nat /\ Len(sessions) \in Nat /\ Len(sessions') \in Nat
      BY <3>1, ServerAssumption DEF IInv, TypeOK, CallRecords
    <3>3. QED
      BY <2>1, <3>1, <3>2 DEF Names
  <2>7. Names(d)'
    BY <2>1, <2>2, <2>5, <2>6 DEF Names, At
  <2>8. Counting(d)'
    BY <1>1, <2>1, <2>2 DEF Counting, At, Counted
  <2>9. QED
    BY <2>3, <2>7, <2>8
<1>6. QED
  BY <1>2, <1>3, <1>4, <1>5 DEF IInv, SessionInv, RateInv

LEMMA InsertKeeps ==
  ASSUME IInv, NEW c \in Calls, InsertSession(c)
  PROVE  IInv'
<1> DEFINE mine == {call[c].arg}
           row == [by |-> call[c].by, seen |-> call[c].start, revoked |-> FALSE]
<1>1. /\ At(c, "inserting") /\ Ends(c)
      /\ UNCHANGED <<world, attempts>> /\ told' = None
  BY DEF InsertSession
<1>2. userLock = c /\ Unrevoked \subseteq mine
  BY <1>1 DEF IInv, SessionInv, Inserting
<1>3. ASSUME NEW d \in Calls \ {c} PROVE ~At(d, "inserting")
  BY <1>2, <1>3 DEF IInv, SessionInv, Inserting
<1>4. violated' = violated
  <2>1. violated \in BOOLEAN
    BY DEF IInv, TypeOK
  <2>2. CASE Unrevoked \subseteq mine /\ Len(sessions) < MaxClaims
    BY <2>2 DEF InsertSession
  <2>3. CASE ~(Unrevoked \subseteq mine /\ Len(sessions) < MaxClaims)
    BY <1>2, <2>1, <2>3 DEF InsertSession
  <2>4. QED
    BY <2>2, <2>3
<1>5. CASE Len(sessions) < MaxClaims
  <2>1. sessions' = Append(Revoking(mine), row)
    BY <1>2, <1>5 DEF InsertSession
  <2>2. row \in Sessions
    BY <1>1 DEF Sessions, IInv, TypeOK, At, CallRecords
  <2>3. /\ Revoking(mine) \in Seq(Sessions)
        /\ Len(Revoking(mine)) = Len(sessions)
        /\ \A s \in DOMAIN sessions :
             ~Revoking(mine)[s].revoked => ~sessions[s].revoked /\ s \notin mine
    BY RevokingRows DEF IInv, TypeOK
  <2>4. \A s \in DOMAIN sessions : Revoking(mine)[s].revoked
    BY <1>2, <2>3 DEF Unrevoked
  <2> HIDE DEF row, mine
  <2>5. Len(sessions) \in Nat /\ DOMAIN sessions = 1..Len(sessions)
    BY DEF IInv, TypeOK
  <2>6. sessions' \in Seq(Sessions) /\ Len(sessions') = Len(sessions) + 1
    BY <2>1, <2>2, <2>3
  <2>7. \A s \in DOMAIN sessions : sessions'[s] = Revoking(mine)[s]
    BY <2>1, <2>2, <2>3, <2>5
  <2>8. DOMAIN sessions' = 1..(Len(sessions) + 1)
    BY <2>6
  <2>9. Unrevoked' \subseteq {Len(sessions')}
    BY <2>4, <2>5, <2>6, <2>7, <2>8 DEF Unrevoked
  <2>10. Len(sessions') >= Len(sessions) /\ Len(sessions') <= MaxClaims
    BY <1>5, <2>5, <2>6, ServerAssumption
  <2>11. QED
    BY <1>1, <1>3, <1>4, <2>6, <2>9, <2>10, SessionsKept
<1>6. CASE ~(Len(sessions) < MaxClaims)
  <2>1. sessions' = sessions
    BY <1>6 DEF InsertSession
  <2>2. QED
    BY <1>1, <1>4, <2>1, EndKept DEF rows
<1>7. QED
  BY <1>5, <1>6

LEMMA ReleaseKeeps ==
  ASSUME IInv, NEW c \in Calls, ReleaseSession(c)
  PROVE  IInv'
<1> DEFINE S == {call[c].arg}
<1>1. /\ At(c, "release") /\ userLock = None /\ Ends(c)
      /\ UNCHANGED <<world, attempts, violated>> /\ told' = None
      /\ sessions' = Revoking(S) \/ sessions' = sessions
  BY DEF ReleaseSession
<1> HIDE DEF S
<1>2. CASE sessions' = sessions
  BY <1>1, <1>2, EndKept DEF rows
<1>3. CASE sessions' = Revoking(S)
  <2>1. /\ Revoking(S) \in Seq(Sessions)
        /\ Len(Revoking(S)) = Len(sessions)
        /\ \A s \in DOMAIN sessions :
             ~Revoking(S)[s].revoked => ~sessions[s].revoked /\ s \notin S
    BY RevokingRows DEF IInv, TypeOK
  <2>2. DOMAIN sessions' = DOMAIN sessions
    BY <1>3, <2>1 DEF IInv, TypeOK
  <2>3. Unrevoked' \subseteq Unrevoked
    BY <1>3, <2>1, <2>2 DEF Unrevoked
  <2>4. Unrevoked' \subseteq {Len(sessions')}
    BY <1>3, <2>1, <2>3 DEF IInv, LatestClaimWins
  <2>5. \A d \in Calls \ {c} : ~At(d, "inserting")
    BY <1>1, ServerAssumption DEF IInv, SessionInv, Inserting
  <2>6. /\ sessions' \in Seq(Sessions)
        /\ Len(sessions') >= Len(sessions) /\ Len(sessions') <= MaxClaims
    BY <1>3, <2>1 DEF IInv, TypeOK
  <2>7. QED
    BY <1>1, <2>4, <2>5, <2>6, SessionsKept
<1>4. QED
  BY <1>1, <1>2, <1>3

LEMMA BeatKeeps ==
  ASSUME IInv, NEW c \in Calls, Beat(c)
  PROVE  IInv'
<1> DEFINE s == call[c].arg
<1>1. /\ At(c, "beat") /\ Ends(c)
      /\ UNCHANGED <<world, attempts, violated>>
  BY DEF Beat
<1>2. CASE UNCHANGED sessions /\ told' = None
  BY <1>1, <1>2, EndKept DEF rows
<1>3. CASE /\ ~sessions[s].revoked
           /\ sessions' = [sessions EXCEPT ![s].seen = call[c].start]
           /\ told' = <<s, call[c].since>>
  <2>1. s \in DOMAIN sessions /\ call[c].since <= Len(sessions)
    BY <1>1 DEF IInv, SessionInv, Names, At
  <2>2. call[c].since \in 0..MaxClaims /\ call[c].start \in 0..MaxTime
    BY <1>1 DEF IInv, TypeOK, At, CallRecords
  <2> HIDE DEF s
  <2>3. s = Len(sessions)
    BY <1>3, <2>1 DEF IInv, LatestClaimWins, Unrevoked
  <2>4. s \in 1..MaxClaims
    BY <2>1, ServerAssumption DEF IInv, TypeOK
  <2>5. sessions[s] \in Sessions
    BY <2>1 DEF IInv, TypeOK
  <2>6. [sessions[s] EXCEPT !.seen = call[c].start] \in Sessions
    BY <2>2, <2>5 DEF Sessions
  <2>7. sessions' \in Seq(Sessions) /\ Len(sessions') = Len(sessions)
        /\ DOMAIN sessions' = DOMAIN sessions
    BY <1>3, <2>1, <2>6 DEF IInv, TypeOK
  <2>8. ASSUME NEW u \in DOMAIN sessions
        PROVE  sessions'[u].revoked = sessions[u].revoked
    <3>1. sessions[u] \in Sessions
      BY DEF IInv, TypeOK
    <3>2. QED
      BY <1>3, <2>1, <2>5, <3>1 DEF Sessions, IInv, TypeOK
  <2>9. Unrevoked' = Unrevoked
    BY <2>7, <2>8 DEF Unrevoked
  <2>10. Unrevoked' \subseteq {Len(sessions')}
    BY <2>7, <2>9 DEF IInv, LatestClaimWins
  <2>11. \A d \in Calls \ {c} :
           At(d, "inserting") => Unrevoked' \subseteq {call[d].arg}
    BY <2>9 DEF IInv, SessionInv, Inserting
  <2>12. Len(sessions') >= Len(sessions) /\ Len(sessions') <= MaxClaims
    BY <2>7 DEF IInv, TypeOK
  <2>13. /\ told' \in (1..MaxClaims) \X (0..MaxClaims)
         /\ told'[1] >= told'[2]
    BY <1>3, <2>1, <2>2, <2>3, <2>4
  <2>14. QED
    BY <1>1, <2>7, <2>10, <2>11, <2>12, <2>13, SessionsKept
<1>4. QED
  BY <1>2, <1>3 DEF Beat, Tells

\* The allowed attempts of the window that ends at t.
Granted(t) ==
  {a \in DOMAIN attempts :
     attempts[a].allowed /\ attempts[a].at > t - Window /\ attempts[a].at <= t}

\* An attempt that was counted before it is added keeps the limit.
LEMMA RateKept ==
  ASSUME TypeOK, RateHolds, NEW start \in 0..MaxTime, NEW allowed \in BOOLEAN,
         allowed => Cardinality(Counted(start)) < Limit,
         attempts' = Append(attempts, [at |-> start, allowed |-> allowed])
  PROVE  RateHolds'
<1> DEFINE n == Len(attempts) + 1
<1>1. /\ Len(attempts) \in Nat /\ n \in Nat /\ n \notin DOMAIN attempts
      /\ DOMAIN attempts' = DOMAIN attempts \cup {n}
      /\ attempts'[n].at = start /\ attempts'[n].allowed = allowed
      /\ \A a \in DOMAIN attempts : attempts'[a] = attempts[a]
  BY DEF TypeOK
<1>2. Window \in Nat /\ Limit \in Nat \ {0} /\ MaxTime \in Nat
  BY ServerAssumption
<1> HIDE DEF n
<1>3. SUFFICES ASSUME NEW t \in 0..MaxTime
               PROVE  Cardinality(Granted(t)') <= Limit
  BY DEF RateHolds, Granted
<1>4. /\ IsFiniteSet(Counted(t)) /\ Granted(t) \subseteq Counted(t)
      /\ Cardinality(Granted(t)) <= Limit
  <2>1. t \in Int /\ t \in 0..MaxTime
    BY <1>2, <1>3
  <2>2. IsFiniteSet(Counted(t))
    BY <2>1, CountedBounded
  <2>3. Granted(t) \subseteq Counted(t)
    BY DEF Granted, Counted
  <2>4. Cardinality(Granted(t)) <= Limit
    BY <2>1 DEF RateHolds, Granted
  <2>5. QED
    BY <2>2, <2>3, <2>4
<1>5. IsFiniteSet(Granted(t))
  BY <1>4, FS_Subset
<1>6. CASE allowed /\ start > t - Window /\ start <= t
  <2>1. Granted(t) \subseteq Counted(start)
    <3>1. SUFFICES ASSUME NEW a \in Granted(t) PROVE attempts[a].at > start - Window
      BY DEF Granted, Counted
    <3>2. a \in DOMAIN attempts /\ attempts[a].at > t - Window
      BY <3>1 DEF Granted
    <3>3. attempts[a] \in Attempts
      BY <3>2 DEF TypeOK
    <3>4. attempts[a].at \in Int /\ t \in Int /\ start \in Int
      BY <1>2, <1>3, <3>3 DEF Attempts
    <3>5. QED
      BY <1>2, <1>6, <3>2, <3>4
  <2>2. /\ IsFiniteSet(Counted(start))
        /\ Cardinality(Counted(start)) \in 0..MaxAttempts
        /\ Cardinality(Counted(start)) < Limit
    BY <1>2, <1>6, CountedBounded
  <2>3. Cardinality(Granted(t)) <= Cardinality(Counted(start))
    BY <2>1, <2>2, FS_Subset
  <2>4. Cardinality(Granted(t)) \in Nat
    BY <1>5, FS_CardinalityType
  <2>5. Granted(t)' = Granted(t) \cup {n}
    BY <1>1, <1>6 DEF Granted
  <2>6. n \notin Granted(t)
    BY <1>1 DEF Granted
  <2>7. Cardinality(Granted(t) \cup {n}) = Cardinality(Granted(t)) + 1
    BY <1>5, <2>6, FS_AddElement
  <2>8. Cardinality(Counted(start)) \in Nat
    BY <2>2, ServerAssumption
  <2>9. QED
    BY <1>2, <2>2, <2>3, <2>4, <2>5, <2>7, <2>8
<1>7. CASE ~(allowed /\ start > t - Window /\ start <= t)
  <2>1. Granted(t)' = Granted(t)
    BY <1>1, <1>7 DEF Granted
  <2>2. QED
    BY <1>4, <2>1
<1>8. QED
  BY <1>6, <1>7

LEMMA RecordKeeps ==
  ASSUME IInv, NEW c \in Calls, RecordAttempt(c)
  PROVE  IInv'
<1> DEFINE start == call[c].start
           allowed == call[c].arg < Limit
<1>1. /\ At(c, "counted") /\ Len(attempts) < MaxAttempts
      /\ attempts' = Append(attempts, [at |-> start, allowed |-> allowed])
      /\ UNCHANGED <<world, sessions, violated>> /\ told' = None
  BY DEF RecordAttempt
<1>2. call[c] \in CallRecords /\ start \in 0..MaxTime
  BY <1>1 DEF At, IInv, TypeOK, CallRecords
<1>3. rateLock = c /\ call[c].arg = Cardinality(Counted(start))
  BY <1>1 DEF IInv, RateInv, Counting
<1>4. Names(c) /\ call[c] # None
  BY <1>1 DEF IInv, SessionInv, At
<1>5. /\ call' \in CallType
      /\ Locked(userLock') /\ Locked(rateLock')
      /\ \A d \in Calls \ {c} : call'[d] = call[d] /\ (userLock = d => userLock' = d)
      /\ \/ call'[c] = None
         \/ call'[c].step = "permit" /\ call'[c].since = call[c].since
  <2>1. CASE allowed
    <3> DEFINE r == [call[c] EXCEPT !.step = "permit", !.start = now, !.arg = None]
    <3>1. call' = [call EXCEPT ![c].step = "permit", ![c].start = now, ![c].arg = None]
          /\ rateLock' = (IF rateLock = c THEN None ELSE rateLock)
          /\ userLock' = userLock
      BY <2>1 DEF RecordAttempt
    <3>2. call' = [call EXCEPT ![c] = r]
      BY <1>2, <3>1 DEF IInv, TypeOK
    <3>3. r \in CallRecords /\ r.step = "permit" /\ r.since = call[c].since
      BY <1>2 DEF CallRecords, Steps, IInv, TypeOK
    <3> HIDE DEF r
    <3>4. call \in CallType
      BY DEF IInv, TypeOK, CallType
    <3>5. call' \in CallType /\ call'[c] = r
          /\ \A d \in Calls \ {c} : call'[d] = call[d]
      BY <3>2, <3>3, <3>4 DEF CallType
    <3>6. Locked(userLock') /\ Locked(rateLock')
      BY <3>1 DEF IInv, TypeOK, Locked
    <3>7. QED
      BY <3>1, <3>3, <3>5, <3>6
  <2>2. CASE ~allowed
    <3>1. Ends(c)
      BY <2>2 DEF RecordAttempt
    <3>2. QED
      BY <3>1, Ended DEF IInv
  <2>3. QED
    BY <2>1, <2>2
<1>6. allowed \in BOOLEAN /\ (allowed => Cardinality(Counted(start)) < Limit)
  BY <1>3
<1> HIDE DEF start, allowed
<1>7. RateHolds'
  BY <1>1, <1>2, <1>6, RateKept DEF IInv
<1>8. [at |-> start, allowed |-> allowed] \in Attempts
  BY <1>2, <1>6 DEF Attempts
<1>9. attempts' \in Seq(Attempts) /\ Len(attempts') <= MaxAttempts
  BY <1>1, <1>8, ServerAssumption DEF IInv, TypeOK
<1>10. TypeOK'
  BY <1>1, <1>5, <1>9 DEF IInv, TypeOK, world, CallType, Locked
<1>11. LatestClaimWins'
  BY <1>1 DEF IInv, LatestClaimWins, Unrevoked
<1>12. Inserting(c)' /\ Names(c)' /\ Counting(c)'
  BY <1>1, <1>4, <1>5 DEF Inserting, Names, Counting, At
<1>13. ASSUME NEW d \in Calls \ {c}
       PROVE  Inserting(d)' /\ Names(d)' /\ Counting(d)'
  <2>1. Inserting(d) /\ Names(d) /\ Counting(d) /\ call'[d] = call[d]
    BY <1>5 DEF IInv, SessionInv, RateInv
  <2>2. Inserting(d)' /\ Names(d)'
    BY <1>1, <1>5, <2>1 DEF Inserting, Names, At, Unrevoked
  <2>3. ~At(d, "counted")'
    BY <1>3, <2>1 DEF Counting, At
  <2>4. QED
    BY <2>2, <2>3 DEF Counting
<1>14. QED
  BY <1>7, <1>10, <1>11, <1>12, <1>13 DEF IInv, SessionInv, RateInv

-----------------------------------------------------------------------------
LEMMA InitHolds == Init => IInv
<1> SUFFICES ASSUME Init PROVE IInv
  OBVIOUS
<1>1. /\ sessions = <<>> /\ attempts = <<>> /\ told = None
      /\ \A c \in Calls : call[c] = None
  BY DEF Init
<1>2. TypeOK
  <2>1. /\ sessions \in Seq(Sessions) /\ Len(sessions) = 0
        /\ attempts \in Seq(Attempts) /\ Len(attempts) = 0
    BY <1>1
  <2>2. call \in [Calls -> {None} \cup CallRecords]
    BY DEF Init
  <2>3. 0 \in 0..MaxTime /\ 0 <= MaxClaims /\ 0 <= MaxAttempts
    BY ServerAssumption
  <2>4. QED
    BY <2>1, <2>2, <2>3 DEF Init, TypeOK, Standings
<1>3. LatestClaimWins
  BY <1>1 DEF Init, LatestClaimWins, Unrevoked
<1>4. RateHolds
  <2>1. ASSUME NEW t PROVE Granted(t) = {}
    BY <1>1 DEF Granted
  <2>2. Cardinality({}) = 0 /\ Limit \in Nat
    BY FS_EmptySet, ServerAssumption
  <2>3. QED
    BY <2>1, <2>2 DEF RateHolds, Granted
<1>5. SessionInv /\ RateInv
  BY <1>1 DEF SessionInv, RateInv, Inserting, Names, Counting, At
<1>6. QED
  BY <1>2, <1>3, <1>4, <1>5 DEF IInv

LEMMA StepKeeps == IInv /\ [Next]_vars => IInv'
<1> SUFFICES ASSUME IInv, [Next]_vars PROVE IInv'
  OBVIOUS
<1>1. CASE \E c \in Calls, by \in Launchers :
             \/ Claim(c, by) \/ RequestPermit(c, by)
             \/ \E s \in DOMAIN sessions : Heartbeat(c, by, s) \/ Release(c, by, s)
  BY <1>1, ArrivalKeeps
<1>2. CASE \E c \in Calls : Works(c) \/ Breaks(c)
  BY <1>2, EndKeeps, SignKeeps, LockClaimKeeps, InsertKeeps, BeatKeeps,
     ReleaseKeeps, LockRateKeeps, RecordKeeps, AuthorizeKeeps DEF Works
<1>3. CASE Tick \/ StandingChanges
           \/ \E by \in Launchers : WebSessionEnds(by) \/ WebSessionBegins(by)
  <2>1. /\ UNCHANGED <<rows, call, locks, violated>> /\ told' = None
        /\ now' \in 0..MaxTime /\ live' \subseteq Launchers
        /\ standing' \in Standings
    BY <1>3, ServerAssumption
    DEF Tick, StandingChanges, WebSessionEnds, WebSessionBegins, IInv, TypeOK
  <2>2. QED
    BY <2>1, WorldKeeps
<1>4. CASE UNCHANGED vars
  <2>1. UNCHANGED <<world, rows, call, locks, told, violated>>
    BY <1>4 DEF vars
  <2>2. TypeOK'
    BY <2>1 DEF IInv, TypeOK, world, rows, locks
  <2>3. LatestClaimWins' /\ RateHolds'
    BY <2>1 DEF IInv, LatestClaimWins, RateHolds, Unrevoked, rows
  <2>4. \A d \in Calls : Inserting(d)' /\ Names(d)' /\ Counting(d)'
    BY <2>1, Frame DEF locks
  <2>5. QED
    BY <2>2, <2>3, <2>4 DEF IInv, SessionInv, RateInv
<1>5. QED
  BY <1>1, <1>2, <1>3, <1>4 DEF Next

\* The latest claim wins, no replaced session is told that it lives or given a
\* permit, and the rate limit holds in every window, for any number of
\* launchers, calls under way, sessions and attempts, whatever the clock, the
\* connections and the operator do (claim_session, heartbeat_session,
\* release_session, consume_permit_attempt, authorize_launch_permit).
THEOREM AuthorityHolds == Spec => []AuthorityOK
<1>1. IInv => AuthorityOK
  BY DEF IInv, AuthorityOK
<1>2. QED
  BY InitHolds, StepKeeps, <1>1, PTL DEF Spec

=============================================================================
