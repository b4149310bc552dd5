------------------------------ MODULE Reconnect ------------------------------
(***************************************************************************)
(* The launcher's AppState, as far as the proxy lifecycle reads it, and    *)
(* the operations of AutomaticProxyReconnectController, the bounded        *)
(* scheduler of automatic reconnects.                                      *)
(*                                                                         *)
(* Attempts are compared only for equality, so an attempt is a number that *)
(* no pending callback holds.  The cancellation event of the controller is *)
(* non-None exactly while an attempt is in flight; the events that were    *)
(* set are kept, by attempt, in the set `cancelled` of ProxySession.       *)
(***************************************************************************)
EXTENDS Naturals

CONSTANTS Attempts,    \* identities of reconnect attempts
          MaxAttempts, \* the number of backoff delays, the retry budget
          Sessions,    \* identities of claimed sessions
          None

ASSUME ReconnectAssumption == /\ MaxAttempts \in Nat \ {0}
                              /\ None \notin Attempts \cup Sessions

Statuses == {"stopped", "starting", "running", "reconnecting", "stopping",
             "failed"}

AppStates ==
  [signedIn: BOOLEAN, session: Sessions \cup {None}, entitled: BOOLEAN,
   status: Statuses, retrySafe: BOOLEAN, denied: BOOLEAN,
   suppressed: BOOLEAN, shuttingDown: BOOLEAN, game: BOOLEAN]

Ready(s) == s.signedIn /\ s.session # None /\ s.entitled

Eligible(s) == ~s.shuttingDown /\ ~s.suppressed /\ s.game /\ Ready(s)

\* What _mark_* ask of the state before they publish a status.
Markable(s) == ~s.shuttingDown /\ ~s.suppressed /\ s.game

Reconnects ==
  [armed: BOOLEAN, blocked: BOOLEAN, attempts: 0..MaxAttempts,
   scheduled: Attempts \cup {None}, inFlight: Attempts \cup {None}]

Unarmed == [armed |-> FALSE, blocked |-> FALSE, attempts |-> 0,
            scheduled |-> None, inFlight |-> None]

Pending(r) == r.scheduled # None \/ r.inFlight # None

OwnsRecovery(r) == Pending(r) \/ r.attempts > 0 \/ r.blocked

ObserveRunning(r) ==
  IF Pending(r) THEN r ELSE [Unarmed EXCEPT !.armed = TRUE]

\* Mutant: a request while an attempt is pending.
RequestPending(r, s) ==
  r.armed /\ ~r.blocked /\ r.attempts < MaxAttempts /\ Eligible(s)

CanRequest(r, s) == /\ r.armed /\ ~r.blocked /\ ~Pending(r)
                    /\ r.attempts < MaxAttempts
                    /\ Eligible(s)

Requested(r, attempt) ==
  [r EXCEPT !.attempts = @ + 1, !.scheduled = attempt]

Begun(r, attempt) == [r EXCEPT !.scheduled = None, !.inFlight = attempt]

Unscheduled(r) == [r EXCEPT !.scheduled = None]

Cancelled(r) == Unarmed

\* What complete() answers for the attempt in flight.
Outcome(r, s) ==
  CASE s.status = "running"                       -> "succeeded"
    [] s.status # "running" /\ s.denied           -> "blocked"
    [] s.status # "running" /\ ~s.denied
       /\ s.retrySafe /\ r.attempts < MaxAttempts -> "retry"
    [] s.status # "running" /\ ~s.denied
       /\ s.retrySafe /\ r.attempts = MaxAttempts -> "exhausted"
    [] s.status # "running" /\ ~s.denied
       /\ ~s.retrySafe                            -> "failed"

\* Mutant: an outcome that leaves the attempt in flight.
CompletedInFlight(r, outcome) == [r EXCEPT !.armed = FALSE]

Completed(r, outcome) ==
  CASE outcome = "succeeded" -> Unarmed
    [] outcome = "retry"     -> [r EXCEPT !.inFlight = None]
    [] OTHER                 -> [r EXCEPT !.inFlight = None,
                                          !.blocked = TRUE, !.armed = FALSE]
=============================================================================
