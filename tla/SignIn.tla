------------------------------- MODULE SignIn -------------------------------
(***************************************************************************)
(* Signing in with the browser, and the credential that comes of it:       *)
(* WebAuthClient (loopback listener, code exchange, cancellation),         *)
(* ProxyApiAuthGateway (access token in memory, rotating refresh token in  *)
(* the vault), call_with_access_token and the operations of                *)
(* LauncherService that use them.  They run on the one worker thread; a    *)
(* closing window releases the session on a thread of its own, and the     *)
(* process ends without waiting for either.                                *)
(*                                                                         *)
(* The identity service and the Proxy API are external.  A refresh token   *)
(* is the number of its family and its turn in it: every use makes the     *)
(* next turn, and a used turn that comes back ends the family.  Family 0   *)
(* is the credential an earlier launcher left; flow f makes family f.      *)
(***************************************************************************)
EXTENDS Naturals, TLC

CONSTANTS MaxFlows,        \* browser sign-ins
          MaxTurns,        \* refresh tokens of one family
          MaxLaunches,     \* launcher processes, one after another
          MaxFaults        \* vault operations that fail, error answers that break off

ASSUME SignInAssumption ==
    MaxFlows \in Nat /\ MaxTurns \in Nat \ {0} /\ MaxLaunches \in Nat /\ MaxFaults \in Nat

Threads == {"worker", "closer"}
Families == 0..MaxFlows
None == <<0, 0>>
Tokens == Families \X (0..MaxTurns)

VARIABLES
    turn, good,        \* the identity service: last turn of each family, and whether it lives
    vault, memory,     \* the stored refresh token; whether an access token is at hand
    lock, thread,      \* the gateway's RLock; what each thread does
    sent, answer,      \* the refresh exchange under the lock
    status, session,   \* AppState: auth_status and session_id
    flow,              \* the web sign-in: number, cancelled, and the listener's state
    launches, up, closing, faults,
    \* ghosts
    pressed,           \* the user cancelled the sign-in that is under way
    reused,            \* a used token was presented
    broken,            \* the vault failed, or the launcher ended, in an exchange
    forgotten          \* the launcher signed out, and nothing was begun since

vars == <<turn, good, vault, memory, lock, thread, sent, answer, status, session,
          flow, launches, up, closing, faults, pressed, reused, broken, forgotten>>
server == <<turn, good>>
process == <<launches, up, closing>>
ghosts == <<pressed, reused, broken, forgotten>>

\* "entry" and "reentry" are the claims that end a sign-in and a restore.
\* A start of the proxy first asks for a fresh heartbeat ("probe"), then for the permit.
Jobs == {"none", "restore", "reentry", "login", "entry", "heartbeat", "probe", "permit",
         "coupon", "claim", "signout", "release"}
Claims == {"entry", "reentry", "claim"}
FlowSteps == {"clear", "bind", "browser", "wait", "code"}
Steps == FlowSteps \union
    {"idle", "save", "restore", "me", "token", "call", "refresh", "load",
     "exchange", "forget"}
Idle == [job |-> "none", at |-> "idle", retried |-> FALSE]
NoFlow == [number |-> 0, cancelled |-> FALSE, listener |-> "none"]

Go(t, at) == thread' = [thread EXCEPT ![t].at = at]
Finish(t) == thread' = [thread EXCEPT ![t] = Idle]
Free(t) == lock \in {"none", t}

\* What a delete leaves when it may fail each of so many times.
AfterDelete(times) ==
    {<<None, faults>>} \union
    (IF faults + times <= MaxFaults THEN {<<vault, faults + times>>} ELSE {})

\* The vault is cleared, quietly; a delete that fails leaves what is there.
Cleared(times) == \E left \in AfterDelete(times) :
    /\ vault' = left[1] /\ faults' = left[2]
    /\ broken' = (broken \/ left[2] # faults)

LoginFails(t) ==
    /\ status' = "failed"
    /\ flow' = [flow EXCEPT !.listener = IF @ = "closing" THEN @ ELSE "none"]
    /\ lock' = "none"
    /\ Finish(t)

-----------------------------------------------------------------------------
(* What an operation is told: "ok", or the code of a ProxyApiError.        *)

Expired == {"invalid_token"}
AuthInvalid == Expired \union {"invalid_grant"}
TerminalAuth == AuthInvalid \union {"invalid_client", "insufficient_scope", "account_suspended"}
NoEntitlement == {"account_pending", "license_expired"}
Over == {"session_conflict", "account_suspended", "license_expired"}
Named == TerminalAuth \union NoEntitlement \union Over

\* The answer is whole, about something else than what was asked, or not what the
\* operation expects.
Bodies == {"sound", "foreign", "malformed"}

Fallback == 400 :> "invalid_request" @@ 401 :> "invalid_token" @@
            403 :> "insufficient_scope" @@ 404 :> "not_found" @@
            409 :> "session_conflict" @@ 429 :> "rate_limited" @@
            500 :> "upstream_unavailable"

Answers == [status : {200}, error : {"none"}, body : Bodies] \union
           [status : DOMAIN Fallback, error : Named \union {"none"}, body : {"sound"}]

\* A heartbeat must be of the session it was sent for, a permit of its correlation id.
Read(job, body) ==
    \/ body = "sound"
    \/ body = "foreign" /\ job \notin {"heartbeat", "probe", "permit"}

\* What the server names wins over what the status says.
CodeOf(job, a) ==
    IF a.status = 200
    THEN IF Read(job, a.body) THEN "ok" ELSE "invalid_response"
    ELSE IF a.error # "none" THEN a.error ELSE Fallback[a.status]

\* An answer that does not come, or is too large.
Unheard == {"timeout", "network_error", "invalid_response"}

\* What the client refuses to send: of its arguments only the coupon is typed in.
Unsendable(job) == IF job = "coupon" THEN {"invalid_request"} ELSE {}

\* No caller tells the others apart.
Told(codes) == {IF code \in Named \union {"ok"} THEN code ELSE "other" : code \in codes}

Outcomes == [job \in Jobs |->
    Told({CodeOf(job, a) : a \in Answers} \union Unheard \union Unsendable(job))]

\* The identity service refuses with a word of its own.
RefreshOutcomes(reply) == Told(Unheard \union
    CASE reply = "rotated" -> {}
      [] reply = "refused" -> {"invalid_grant"}
      [] OTHER -> {Fallback[s] : s \in DOMAIN Fallback} \union {"invalid_client"})

-----------------------------------------------------------------------------
(* Launching, and what the window submits.                                 *)

Launch ==
    /\ ~up /\ launches < MaxLaunches
    /\ up' = TRUE /\ launches' = launches + 1 /\ closing' = FALSE
    /\ thread' = [t \in Threads |->
         IF t = "worker" THEN [Idle EXCEPT !.job = "restore", !.at = "restore"] ELSE Idle]
    /\ memory' = FALSE /\ lock' = "none" /\ sent' = None /\ answer' = "none"
    /\ status' = "signed_out" /\ session' = FALSE
    /\ flow' = [flow EXCEPT !.cancelled = FALSE, !.listener = "none"]
    /\ forgotten' = FALSE /\ pressed' = FALSE
    /\ UNCHANGED <<server, vault, faults, reused, broken>>

Submit(job) ==
    /\ up /\ ~closing
    /\ thread["worker"].job = "none"
    /\ \/ job = "login" /\ status \in {"signed_out", "failed"} /\ flow.number < MaxFlows
       \/ job \in {"heartbeat", "probe"} /\ session
       \/ job \in {"coupon", "signout"} /\ status = "authenticated"
    /\ thread' = [thread EXCEPT !["worker"] =
         [Idle EXCEPT !.job = job, !.at = IF job = "login" THEN "clear"
                                          ELSE IF job = "signout" /\ ~session THEN "forget"
                                          ELSE "token"]]
    /\ status' = IF job = "login" THEN "authenticating" ELSE status
    /\ pressed' = FALSE
    /\ forgotten' = (forgotten /\ job # "login")
    /\ UNCHANGED <<server, vault, memory, lock, sent, answer, session, flow, process,
                   faults, reused, broken>>

-----------------------------------------------------------------------------
(* The browser flow: _authenticate_flow.                                   *)

\* cancel(): sets its own flag, and that of the listener that is there.
Cancel ==
    /\ up /\ thread["worker"].at \in FlowSteps
    /\ flow' = [flow EXCEPT !.cancelled = TRUE,
                            !.listener = IF @ = "open" THEN "cancelled" ELSE @]
    /\ pressed' = (pressed \/ thread["worker"].at # "clear")
    /\ UNCHANGED <<server, vault, memory, lock, thread, sent, answer, status, session,
                   process, faults, reused, broken, forgotten>>

\* The flag of an earlier cancel is cleared.
Clear(t) ==
    /\ thread[t].at = "clear"
    /\ flow' = [flow EXCEPT !.cancelled = FALSE, !.number = @ + 1]
    /\ Go(t, "bind")
    /\ UNCHANGED <<server, vault, memory, lock, sent, answer, status, session, process,
                   faults, ghosts>>

\* The port is exclusive: the teardown of the previous listener is awaited for a
\* while, and another program may hold it.
Bind(t) ==
    /\ thread[t].at = "bind"
    /\ \/ /\ flow.listener = "none"
          /\ flow' = [flow EXCEPT !.listener = "open"]
          /\ Go(t, "browser")
          /\ UNCHANGED <<status, lock>>
       \/ LoginFails(t)
    /\ UNCHANGED <<server, vault, memory, sent, answer, session, process, faults, ghosts>>

Browser(t) ==
    /\ thread[t].at = "browser"
    /\ \/ Go(t, "wait") /\ UNCHANGED <<status, lock, flow>>
       \/ LoginFails(t)
    /\ UNCHANGED <<server, vault, memory, sent, answer, session, process, faults, ghosts>>

\* Mutant: the wait for the browser has no deadline.
WaitForever(t) ==
    /\ thread[t].at = "wait"
    /\ flow.listener \in {"called", "cancelled"}
    /\ IF flow.cancelled THEN LoginFails(t)
       ELSE /\ flow' = [flow EXCEPT !.listener = "closing"]
            /\ Go(t, "code")
            /\ UNCHANGED <<status, lock>>
    /\ UNCHANGED <<server, vault, memory, sent, answer, session, process, faults, ghosts>>

\* The browser calls back with a code, once.
Callback ==
    /\ up /\ thread["worker"].at \in {"browser", "wait"}
    /\ flow.listener = "open"
    /\ flow' = [flow EXCEPT !.listener = "called"]
    /\ UNCHANGED <<server, vault, memory, lock, thread, sent, answer, status, session,
                   process, faults, ghosts>>

\* The callback, with a code or an error, a cancellation, or the deadline.
Wait(t) ==
    /\ thread[t].at = "wait"
    /\ \/ /\ flow.listener = "called" /\ ~flow.cancelled
          /\ flow' = [flow EXCEPT !.listener = "closing"]
          /\ Go(t, "code")
          /\ UNCHANGED <<status, lock>>
       \/ LoginFails(t)
    /\ UNCHANGED <<server, vault, memory, sent, answer, session, process, faults, ghosts>>

\* The listener's thread has ended and the port is free.
Teardown ==
    /\ flow.listener = "closing"
    /\ flow' = [flow EXCEPT !.listener = "none"]
    /\ UNCHANGED <<server, vault, memory, lock, thread, sent, answer, status, session,
                   process, faults, ghosts>>

\* The exchange of the code: the tokens came, they were made and the answer was lost
\* or not what it should be, or none were made.
Exchanged == {"tokens", "lost", "refused"}

Made(outcome) ==
    IF outcome = "refused" THEN UNCHANGED server
    ELSE /\ good' = [good EXCEPT ![flow.number] = TRUE]
         /\ turn' = [turn EXCEPT ![flow.number] = 1]

\* Mutant: a cancellation during the exchange is not looked at.
CodeRegardless(t) ==
    /\ thread[t].at = "code"
    /\ \E outcome \in Exchanged :
         /\ Made(outcome)
         /\ IF outcome = "tokens" THEN Go(t, "save") /\ UNCHANGED <<status, flow, lock>>
                                 ELSE LoginFails(t)
    /\ UNCHANGED <<vault, memory, sent, answer, session, process, faults, ghosts>>

\* _exchange_identity_code_tokens; then the cancellation is looked at again.
Code(t) ==
    /\ thread[t].at = "code"
    /\ \E outcome \in Exchanged :
         /\ Made(outcome)
         /\ IF outcome = "tokens" /\ ~flow.cancelled
            THEN Go(t, "save") /\ UNCHANGED <<status, flow, lock>>
            ELSE LoginFails(t)
    /\ UNCHANGED <<vault, memory, sent, answer, session, process, faults, ghosts>>

-----------------------------------------------------------------------------
(* sign_in_with_web and restore_session, under the lock.                   *)

Save(t) ==
    /\ thread[t].at = "save"
    /\ Free(t)
    /\ \/ /\ vault' = <<flow.number, 1>>
          /\ memory' = TRUE
          /\ lock' = t
          /\ Go(t, "me")
          /\ UNCHANGED <<status, flow, faults, broken>>
       \/ /\ faults < MaxFaults
          /\ vault' \in {None} \union (IF faults + 2 <= MaxFaults THEN {vault} ELSE {})
          /\ faults' = IF vault' = None THEN faults + 1 ELSE faults + 2
          /\ memory' = FALSE
          /\ broken' = TRUE
          /\ LoginFails(t)
    /\ UNCHANGED <<server, sent, answer, session, process, pressed, reused, forgotten>>

\* What is stored is refreshed, if there is anything.
Restore(t) ==
    /\ thread[t].at = "restore"
    /\ Free(t)
    /\ lock' = t
    /\ thread' = [thread EXCEPT ![t].at = "load", ![t].retried = TRUE]
    /\ UNCHANGED <<server, vault, memory, sent, answer, status, session, flow, process,
                   faults, ghosts>>

\* get_me and require_sign_in_allowed; the session is claimed next.
Admitted(t) ==
    /\ lock' = "none"
    /\ thread' = [thread EXCEPT ![t] =
         [Idle EXCEPT !.job = IF thread[t].job = "login" THEN "entry" ELSE "reentry",
                      !.at = "token"]]
    /\ UNCHANGED <<vault, memory, faults, broken, status, flow>>

\* A sign-in refreshes a token that is refused, once, and clears everything when it
\* fails; a restore refreshes nothing, and keeps the stored token unless the failure
\* is about the account.
Turned(t, code) ==
    IF thread[t].job = "login"
    THEN IF code \in Expired /\ ~thread[t].retried
         THEN /\ thread' = [thread EXCEPT ![t].at = "load", ![t].retried = TRUE]
              /\ UNCHANGED <<vault, memory, faults, broken, status, flow, lock>>
         ELSE memory' = FALSE /\ Cleared(1) /\ LoginFails(t)
    ELSE /\ memory' = FALSE
         /\ IF code \in TerminalAuth THEN Cleared(1) ELSE UNCHANGED <<vault, faults, broken>>
         /\ lock' = "none" /\ Finish(t)
         /\ UNCHANGED <<status, flow>>

Me(t) ==
    /\ thread[t].at = "me"
    /\ \E code \in Outcomes[thread[t].job] :
         IF code = "ok" THEN Admitted(t) ELSE Turned(t, code)
    /\ UNCHANGED <<server, sent, answer, session, process, pressed, reused, forgotten>>

-----------------------------------------------------------------------------
(* Calls with an access token, with at most one refresh.                   *)

Token(t) ==
    /\ thread[t].at = "token"
    /\ Free(t)
    /\ thread' = [thread EXCEPT ![t].at = IF memory THEN "call" ELSE "refresh",
                                ![t].retried = ~memory]
    /\ UNCHANGED <<server, vault, memory, lock, sent, answer, status, session, flow,
                   process, faults, ghosts>>

\* redeem_coupon: once the coupon is redeemed, the session is claimed anew.
Redeemed == [Idle EXCEPT !.job = "claim", !.at = "token"]

\* The operation did what it is for.
Succeeded(t) ==
    LET job == thread[t].job IN
    /\ thread' = [thread EXCEPT ![t] =
         IF job = "coupon" THEN Redeemed
         ELSE IF job = "probe" THEN [Idle EXCEPT !.job = "permit", !.at = "token"]
         ELSE IF job = "signout" THEN [@ EXCEPT !.at = "forget"] ELSE Idle]
    /\ session' = (session \/ job \in Claims)
    /\ status' = IF job \in {"entry", "reentry"} THEN "authenticated" ELSE status

\* A sign-in or a restore of an account that has no entitlement.
Unentitled(t) ==
    /\ status' = "authenticated"
    /\ Finish(t)
    /\ UNCHANGED session

\* Mutant: a credential that is gone counts as a connection that is down.
FatalOnlyOver(job, code) == job = "heartbeat" /\ code \in Over

\* The session or its credential is over: a heartbeat signs out by itself then, and
\* so does an automatic reconnect whose probe is told that the credential is.
Fatal(job, code) ==
    \/ job = "heartbeat" /\ code \in AuthInvalid \union Over
    \/ job = "probe" /\ code \in AuthInvalid

\* It failed.  A sign-out goes on all the same, a sign-in whose claim fails is a sign-in,
\* a restore whose claim fails is none; a start that the user asked for signs nobody out,
\* nor does one whose session is gone by now.
Failed(t, code) ==
    LET job == thread[t].job IN
    \/ job = "signout" /\ Go(t, "forget") /\ UNCHANGED <<session, status>>
    \/ /\ Fatal(job, code) /\ session
       /\ Go(t, "forget")
       /\ session' = FALSE
       /\ UNCHANGED status
    \/ /\ job # "signout" /\ ~(job = "heartbeat" /\ Fatal(job, code) /\ session)
       /\ Finish(t)
       /\ status' = IF job = "entry" THEN "authenticated" ELSE status
       /\ UNCHANGED session

\* An error answer whose body breaks off is no ProxyApiError: what reads it is outside
\* the handlers of the transport, and it passes those of the claim as well.
Escaped(t) ==
    /\ faults < MaxFaults
    /\ faults' = faults + 1
    /\ thread' = [thread EXCEPT ![t] =
         IF thread[t].job = "signout" THEN [@ EXCEPT !.at = "forget"] ELSE Idle]
    /\ UNCHANGED <<session, status>>

\* A token that is refused is refreshed once, and the operation done again.
Answered(t, code) ==
    LET job == thread[t].job
        again == code \in Expired /\ ~thread[t].retried
        missing == code \in NoEntitlement /\ job \in Claims
    IN
    \/ code = "ok" /\ Succeeded(t)
    \/ /\ again
       /\ thread' = [thread EXCEPT ![t].at = "refresh", ![t].retried = TRUE]
       /\ UNCHANGED <<session, status>>
    \/ missing /\ Unentitled(t)
    \/ code # "ok" /\ ~again /\ ~missing /\ Failed(t, code)

Call(t) ==
    /\ thread[t].at = "call"
    /\ \/ /\ \E code \in Outcomes[thread[t].job] : Answered(t, code)
          /\ UNCHANGED faults
       \/ Escaped(t)
    /\ UNCHANGED <<server, vault, memory, lock, sent, answer, flow, process, ghosts>>

-----------------------------------------------------------------------------
(* Refreshing the credential, under the lock.                              *)

Refresh(t) ==
    /\ thread[t].at = "refresh"
    /\ Free(t)
    /\ lock' = t
    /\ Go(t, "load")
    /\ UNCHANGED <<server, vault, memory, sent, answer, status, session, flow, process,
                   faults, ghosts>>

\* What becomes of the operation when the refresh failed.
Raised(t, code) ==
    \/ /\ thread[t].job = "login"
       /\ LoginFails(t)
       /\ UNCHANGED session
    \/ /\ thread[t].job # "login"
       /\ lock' = "none"
       /\ UNCHANGED flow
       /\ Failed(t, code)

\* How often the vault is cleared: a sign-in clears again what failed in it, a
\* restore what was refused.
Times(t, code) ==
    IF thread[t].job = "login" \/ (thread[t].job = "restore" /\ code \in TerminalAuth)
    THEN 2 ELSE 1

\* An empty vault is an invalid grant; one that cannot be read is a failure.
Load(t) ==
    /\ thread[t].at = "load"
    /\ \/ /\ vault # None
          /\ sent' = vault /\ answer' = "none"
          /\ Go(t, "exchange")
          /\ UNCHANGED <<vault, memory, lock, flow, status, session, faults, broken>>
       \/ /\ vault = None
          /\ memory' = (memory /\ thread[t].job # "login")
          /\ Raised(t, "invalid_grant")
          /\ UNCHANGED <<vault, sent, answer, faults, broken>>
       \/ /\ faults < MaxFaults
          /\ faults' = faults + 1 /\ broken' = TRUE
          /\ IF thread[t].job = "login" THEN memory' = FALSE /\ vault' = None
                                         ELSE UNCHANGED <<memory, vault>>
          /\ Raised(t, "credential_store_unavailable")
          /\ UNCHANGED <<sent, answer>>
    /\ UNCHANGED <<server, process, pressed, reused, forgotten>>

\* The identity service: the last turn makes the next; an earlier one is a reuse
\* that ends its family.
Rotate ==
    /\ up /\ sent # None /\ answer = "none"
    /\ \E t \in Threads : lock = t /\ thread[t].at = "exchange"
    /\ LET f == sent[1] IN
       IF good[f] /\ sent[2] = turn[f]
       THEN /\ turn[f] < MaxTurns
            /\ turn' = [turn EXCEPT ![f] = @ + 1]
            /\ answer' = "rotated"
            /\ UNCHANGED <<good, reused>>
       ELSE /\ good' = [good EXCEPT ![f] = @ /\ sent[2] >= turn[f]]
            /\ reused' = (reused \/ (good[f] /\ sent[2] < turn[f]))
            /\ answer' = "refused"
            /\ UNCHANGED turn
    /\ UNCHANGED <<vault, memory, lock, thread, sent, status, session, flow, process,
                   faults, pressed, broken, forgotten>>

\* Mutant: a failure that is not the server's refusal keeps the stored token.
DiscardRefusedOnly(t) ==
    /\ thread[t].at = "exchange"
    /\ memory' = FALSE
    /\ IF answer = "refused" THEN Cleared(1) ELSE UNCHANGED <<vault, faults, broken>>
    /\ sent' = None /\ answer' = "none"
    /\ \E code \in RefreshOutcomes(answer) : Raised(t, code)
    /\ UNCHANGED <<server, process, pressed, reused, forgotten>>

\* Any failure of the exchange - refused, timed out, or an answer lost after the
\* service had rotated - clears memory and vault; an error answer that breaks off
\* leaves both, unless it is a sign-in that fails.
Discard(t) ==
    /\ thread[t].at = "exchange"
    /\ sent' = None /\ answer' = "none"
    /\ \/ \E code \in RefreshOutcomes(answer) :
            memory' = FALSE /\ Cleared(Times(t, code)) /\ Raised(t, code)
       \/ /\ thread[t].job \notin {"login", "restore"}
          /\ Escaped(t)
          /\ lock' = "none" /\ broken' = TRUE
          /\ UNCHANGED <<vault, memory, flow>>
       \/ /\ thread[t].job = "restore" /\ faults < MaxFaults
          /\ faults' = faults + 1 /\ broken' = TRUE
          /\ memory' = FALSE /\ lock' = "none"
          /\ Finish(t)
          /\ UNCHANGED <<vault, flow, status, session>>
    /\ UNCHANGED <<server, process, pressed, reused, forgotten>>

\* The new token is saved before it is used; a vault that fails clears all.
Keep(t) ==
    /\ thread[t].at = "exchange"
    /\ answer = "rotated"
    /\ sent' = None /\ answer' = "none"
    /\ \/ /\ vault' = <<sent[1], sent[2] + 1>>
          /\ memory' = TRUE
          /\ LET signing == thread[t].job \in {"restore", "login"} IN
             /\ lock' = IF signing THEN t ELSE "none"
             /\ Go(t, IF signing THEN "me" ELSE "call")
          /\ UNCHANGED <<flow, status, session, faults, broken>>
       \/ /\ faults < MaxFaults
          /\ vault' \in {None} \union (IF faults + 2 <= MaxFaults THEN {vault} ELSE {})
          /\ faults' = IF vault' = None THEN faults + 1 ELSE faults + 2
          /\ memory' = FALSE
          /\ broken' = TRUE
          /\ Raised(t, "credential_store_unavailable")
    /\ UNCHANGED <<server, process, pressed, reused, forgotten>>

-----------------------------------------------------------------------------
(* Signing out, closing, and the end of the process.                       *)

\* Mutant: signing out does not wait for an exchange that is under way.
ForgetUnlocked(t) ==
    /\ thread[t].at = "forget"
    /\ memory' = FALSE /\ Cleared(2)
    /\ status' = "signed_out" /\ session' = FALSE
    /\ forgotten' = TRUE
    /\ Finish(t)
    /\ UNCHANGED <<server, lock, sent, answer, flow, process, pressed, reused>>

\* sign_out and clear_local_session: the vault is cleared twice.
Forget(t) ==
    /\ thread[t].at = "forget"
    /\ Free(t)
    /\ memory' = FALSE /\ Cleared(2)
    /\ status' = "signed_out" /\ session' = FALSE
    /\ forgotten' = TRUE
    /\ Finish(t)
    /\ UNCHANGED <<server, lock, sent, answer, flow, process, pressed, reused>>

\* _close: the sign-in is cancelled, and the session released by a thread.
Close ==
    /\ up /\ ~closing
    /\ closing' = TRUE
    /\ session' = FALSE
    /\ thread' = IF session THEN [thread EXCEPT !["closer"] =
                      [Idle EXCEPT !.job = "release", !.at = "token"]] ELSE thread
    /\ flow' = [flow EXCEPT !.cancelled = TRUE,
                            !.listener = IF @ = "open" THEN "cancelled" ELSE @]
    /\ UNCHANGED <<server, vault, memory, lock, sent, answer, status, launches, up,
                   faults, ghosts>>

\* os._exit after the window closed, or a kill at any moment.
Ends ==
    /\ up
    /\ up' = FALSE
    /\ broken' = (broken \/ \E t \in Threads : thread[t].at = "exchange")
    /\ thread' = [t \in Threads |-> Idle]
    /\ UNCHANGED <<server, vault, memory, lock, sent, answer, status, session, flow,
                   launches, closing, faults, pressed, reused, forgotten>>

-----------------------------------------------------------------------------
Init ==
    /\ turn = [f \in Families |-> IF f = 0 THEN 1 ELSE 0]
    /\ good = [f \in Families |-> f = 0]
    /\ vault \in {None, <<0, 1>>}
    /\ memory = FALSE /\ lock = "none" /\ thread = [t \in Threads |-> Idle]
    /\ sent = None /\ answer = "none"
    /\ status = "signed_out" /\ session = FALSE /\ flow = NoFlow
    /\ launches = 0 /\ up = FALSE /\ closing = FALSE /\ faults = 0
    /\ pressed = FALSE /\ reused = FALSE /\ broken = FALSE /\ forgotten = FALSE

Step(t) ==
    /\ up
    /\ \/ Clear(t) \/ Bind(t) \/ Browser(t) \/ Wait(t) \/ Code(t)
       \/ Save(t) \/ Restore(t) \/ Me(t) \/ Token(t) \/ Call(t)
       \/ Refresh(t) \/ Load(t) \/ Discard(t) \/ Keep(t) \/ Forget(t)

Next ==
    \/ Launch
    \/ \E job \in {"login", "heartbeat", "probe", "coupon", "signout"} : Submit(job)
    \/ Cancel \/ Callback \/ Teardown \/ Rotate
    \/ \E t \in Threads : Step(t)
    \/ Close \/ Ends

Spec == Init /\ [][Next]_vars

\* Every request and every wait has a deadline, and the window goes on asking for
\* heartbeats while there is a session.
FairSpec ==
    /\ Spec
    /\ \A t \in Threads : SF_vars(Step(t))
    /\ SF_vars(Submit("heartbeat"))

-----------------------------------------------------------------------------
TypeOK ==
    /\ turn \in [Families -> 0..MaxTurns] /\ good \in [Families -> BOOLEAN]
    /\ vault \in Tokens /\ memory \in BOOLEAN
    /\ lock \in Threads \union {"none"}
    /\ up => \A t \in Threads : lock = t <=> thread[t].at \in {"load", "exchange", "me"}
    /\ thread \in [Threads -> [job : Jobs, at : Steps, retried : BOOLEAN]]
    /\ sent \in Tokens /\ answer \in {"none", "rotated", "refused"}
    /\ status \in {"signed_out", "authenticating", "authenticated", "failed"}
    /\ session \in BOOLEAN
    /\ flow \in [number : 0..MaxFlows, cancelled : BOOLEAN,
                 listener : {"none", "open", "called", "cancelled", "closing"}]
    /\ launches \in 0..MaxLaunches /\ faults \in 0..MaxFaults
    /\ {up, closing, pressed, reused, broken, forgotten} \subseteq BOOLEAN

\* A used refresh token is presented again only after a vault that failed, an error
\* answer that broke off or a launcher that ended in the middle of an exchange: no
\* answer lost, late or refused, and no second thread makes it happen (fail closed).
ReuseNeedsFault == reused => broken

\* The types, one holder of the token lock, and the spent tokens.
VaultOK == TypeOK /\ ReuseNeedsFault

\* After a sign-out nothing of the credential is left, and nothing that was under
\* way when it happened brings it back.
SignOutSticks == up /\ forgotten /\ ~broken => vault = None /\ ~memory

\* A sign-in that was cancelled before its tokens came never signs in.
CancelHonoured ==
    pressed /\ thread["worker"].job = "login" => thread["worker"].at \in FlowSteps

\* Every sign-in that is begun ends, whatever browser, services and vault do.
LoginEnds == up /\ thread["worker"].job \in {"login", "entry"}
             ~> ~up \/ thread["worker"].job \notin {"login", "entry"}

\* A session whose credential was lost is noticed and given up.
LossNoticed == up /\ ~closing /\ session /\ vault = None /\ ~memory
               ~> ~up \/ closing \/ ~session \/ memory
=============================================================================
