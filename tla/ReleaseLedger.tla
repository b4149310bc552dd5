---------------------------- MODULE ReleaseLedger ----------------------------
(***************************************************************************)
(* The release authority (scripts/): the append-only sequence ledger, the  *)
(* custody of signed envelopes, and the GitHub releases they become.       *)
(* Controllers, one process each, reserve a sequence, sign its payload,    *)
(* publish it or supersede it, all under the ledger's file lock.  A        *)
(* controller may stop between any two writes, and a write of the ledger   *)
(* may itself be cut short.                                                *)
(*                                                                         *)
(* Sequence 0 stands for the genesis floor.  A payload is told apart only  *)
(* by what a rebuild of the same component set may change, its mandatory   *)
(* flag; an envelope is its signed payload, because Ed25519 with the one   *)
(* production key is a function of the payload.  Each reservation has a    *)
(* version, hence a tag and a draft, of its own.                           *)
(***************************************************************************)
EXTENDS Naturals, FiniteSets

CONSTANTS Process,        \* controller processes
          MaxSequence,    \* sequences above the floor
          Frozen,         \* sequences whose Core keeps its older version
          Views,          \* what a supersession is given: "provider", "custody"
          MaxFaults,      \* commands that fail, or controllers that stop
          MaxTorn,        \* ledger writes that are cut short
          MaxOpenFaults,  \* lock files that cannot be opened
          None            \* no envelope, no holder

ASSUME SequenceAssumption == MaxSequence \in Nat \ {0} /\ None \notin Process
ASSUME BudgetAssumption ==
    MaxFaults \in Nat /\ MaxTorn \in Nat /\ MaxOpenFaults \in Nat

VARIABLES file,     \* the ledger file: absent, whole, unterminated or torn
          book,     \* the last event of each sequence in the ledger
          head,     \* the number of events, standing for the head's digest
          index,    \* the custody index: the envelope of each sequence
          draft,    \* the GitHub draft of each sequence
          live,     \* the envelope published for each sequence
          holder,   \* who holds the lock of the ledger file
          marked,   \* processes whose own registry says the ledger is locked
          job,      \* what each process is doing
          faults, tears, openFaults

vars == <<file, book, head, index, draft, live, holder, marked, job,
          faults, tears, openFaults>>
world == <<index, draft, live>>
budgets == <<faults, tears, openFaults>>

Sequences == 1..MaxSequence
Envelopes == [seq : Sequences, mandatory : BOOLEAN]

ASSUME EnvelopeAssumption == None \notin Envelopes

Status == {"START", "RESERVED", "SIGNED", "PUBLISHED", "FAILED", "RETIRED"}
Steps == {"sign", "signed", "recorded", "publish", "created", "uploaded",
          "verified", "promoted", "relive", "supersede", "discard"}
Idle == [step |-> "idle", seq |-> 0, envelope |-> None, head |-> 0]

\* build_unsigned_baseline: the payload of a reservation.
Unsigned(s, mandatory) == [seq |-> s, mandatory |-> mandatory]

\* _ALLOWED_STATUS_TRANSITIONS.
Allowed(from) ==
    CASE from = "START" -> {"RESERVED"}
      [] from = "RESERVED" -> {"SIGNED", "FAILED"}
      [] from = "SIGNED" -> {"PUBLISHED", "FAILED"}
      [] from = "PUBLISHED" -> {"RETIRED"}
      [] OTHER -> {}

-----------------------------------------------------------------------------
(* The ledger file.                                                        *)

\* verify_ledger: a line without its newline still reads, because the lines
\* are split; any other cut is refused for good.
Readable == file \in {"whole", "unterminated"}

\* What a write of one line leaves: the line; the line without its newline; a
\* part of it; or nothing.  A line written after one that has no newline is
\* glued to it, so neither reads again.
Written == IF file = "unterminated" THEN "torn" ELSE "whole"

\* SequenceAuthoritySession.append: the head is the one the caller read, the
\* transition is legal, the signed envelope never changes, and then one write.
CanAppend(h, s, status, envelope) ==
    /\ Readable
    /\ h = head
    /\ status \in Allowed(book[s].status)
    /\ book[s].envelope \in {None, envelope}

Append(s, status, envelope) ==
    /\ file' = Written
    /\ book' = [book EXCEPT ![s] = [status |-> status, envelope |-> envelope]]
    /\ head' = head + 1

\* The same write by a controller that dies in it.
CutAppend(s, status, envelope) ==
    /\ tears < MaxTorn
    /\ tears' = tears + 1
    /\ \/ /\ file' = "torn"
          /\ UNCHANGED <<book, head>>
       \/ /\ file = "whole"
          /\ file' = "unterminated"
          /\ book' = [book EXCEPT ![s] = [status |-> status, envelope |-> envelope]]
          /\ head' = head + 1

-----------------------------------------------------------------------------
(* The authenticated history and its reconciliation with the ledger.       *)

\* CompositeAuthenticatedHistoryProvider.load over the custody index and the
\* published releases.  A supersession that is given a custody directory instead
\* sees no published release, and no sequence of the index either: it reads the
\* number under a name the payload does not have.
Bound(view, s) == view = "provider" /\ (index[s] # None \/ live[s] # None)
Seen(view, s) == IF view = "provider" THEN live[s] ELSE None
Conflict(view, s) ==
    /\ view = "provider"
    /\ index[s] # None /\ live[s] # None /\ index[s] # live[s]

SignedAppendRequired(s) == book[s].status = "RESERVED" /\ Bound("provider", s)
PublishedAppendRequired(s) == book[s].status = "SIGNED" /\ live[s] # None
Pending == {s \in Sequences : SignedAppendRequired(s) \/ PublishedAppendRequired(s)}

\* reconcile_ledger_with_authenticated_history does not refuse, given the
\* status the ledger holds or, for a supersession, would hold.
ReconcilesAs(view, status) == \A s \in Sequences :
    /\ ~Conflict(view, s)
    /\ status[s] \in {"SIGNED", "PUBLISHED", "RETIRED"} => Bound(view, s)
    /\ Bound(view, s) =>
        /\ status[s] # "START"
        /\ book[s].envelope # None =>
            {index[s], Seen(view, s)} \subseteq {None, book[s].envelope}
        /\ status[s] \in {"FAILED", "RETIRED"} => Seen(view, s) = None

Reconciles ==
    /\ Readable
    /\ ReconcilesAs("provider", [s \in Sequences |-> book[s].status])
    /\ Cardinality(Pending) <= 1

Consumed == {s \in Sequences : book[s].status # "START"}
Authenticated == {s \in Sequences : Bound("provider", s)}
Highest == CHOOSE n \in 0..MaxSequence :
    /\ n \in Consumed \union Authenticated \union {0}
    /\ \A t \in Consumed \union Authenticated : t <= n
NextUnused == Highest + 1

NotOvertakenIgnored(s) == TRUE              \* Mutant: the two comparisons dropped.

\* highest_authenticated and highest_consumed of the authority against the
\* sequence a controller works on.
NotOvertaken(s) == \A t \in Consumed \union Authenticated : t <= s

-----------------------------------------------------------------------------
(* The lock.                                                               *)

\* SequenceAuthoritySession.__enter__: the registry of the process first, then
\* a non-blocking lock of the file.
CanEnter(p) == job[p] = Idle /\ p \notin marked /\ holder = None

Hold(p, step, s, envelope) ==
    /\ holder' = p
    /\ marked' = marked \union {p}
    /\ job' = [job EXCEPT ![p] =
                 [step |-> step, seq |-> s, envelope |-> envelope, head |-> head]]

\* __exit__, after the operation ended or raised.
Leave(p) ==
    /\ holder' = IF holder = p THEN None ELSE holder
    /\ marked' = marked \ {p}
    /\ job' = [job EXCEPT ![p] = Idle]

\* The registry is marked before the lock file is opened, and an error of the
\* open is not caught: the process refuses its own ledger from then on.
OpenFails(p) ==
    /\ job[p] = Idle
    /\ p \notin marked
    /\ openFaults < MaxOpenFaults
    /\ openFaults' = openFaults + 1
    /\ marked' = marked \union {p}
    /\ UNCHANGED <<file, book, head, holder, job, world, faults, tears>>

\* The registry dies with the process, and a controller is started again.
Restart(p) ==
    /\ job[p] = Idle
    /\ p \in marked
    /\ marked' = marked \ {p}
    /\ UNCHANGED <<file, book, head, holder, job, world, budgets>>

-----------------------------------------------------------------------------
(* Genesis, reservation and signature.                                     *)

\* bootstrap_sequence_ledger: only while the floor is the highest release.
Bootstrap(p) ==
    /\ CanEnter(p)
    /\ file = "absent"
    /\ Authenticated = {}
    /\ \/ /\ file' = "whole"
          /\ UNCHANGED tears
       \/ /\ tears < MaxTorn
          /\ tears' = tears + 1
          /\ file' \in {"torn", "unterminated"}
    /\ UNCHANGED <<book, head, holder, marked, job, world, faults, openFaults>>

\* Mutant: the recovery action of the reconciled authority is not looked at.
ReserveRegardless(p) ==
    /\ CanEnter(p)
    /\ Reconciles
    /\ NextUnused <= MaxSequence
    /\ Append(NextUnused, "RESERVED", None)
    /\ UNCHANGED <<holder, marked, job, world, budgets>>

\* reserve_release_sequence: refused while a recovery is pending.
Reserve(p) ==
    /\ CanEnter(p)
    /\ Reconciles
    /\ Pending = {}
    /\ NextUnused <= MaxSequence
    /\ \/ /\ CanAppend(head, NextUnused, "RESERVED", None)
          /\ Append(NextUnused, "RESERVED", None)
          /\ UNCHANGED tears
       \/ CutAppend(NextUnused, "RESERVED", None)
    /\ UNCHANGED <<holder, marked, job, world, faults, openFaults>>

\* The last write of an operation: the event, or a write cut short by the death
\* of the process; either way the lock is free again.
Finish(p, status) ==
    LET j == job[p] IN
    /\ \/ /\ CanAppend(j.head, j.seq, status, j.envelope)
          /\ Append(j.seq, status, j.envelope)
          /\ UNCHANGED tears
       \/ CutAppend(j.seq, status, j.envelope)
    /\ Leave(p)
    /\ UNCHANGED <<world, faults, openFaults>>

\* sign_reserved_baseline, up to the signature: the newest sequence, reserved,
\* with nothing authenticated at or above it.
SignBegin(p, s, mandatory) ==
    /\ CanEnter(p)
    /\ Reconciles
    /\ book[s].status # "START"
    /\ Pending = {}
    /\ s \notin Authenticated
    /\ NotOvertaken(s)
    /\ Hold(p, "signed", s, Unsigned(s, mandatory))
    /\ UNCHANGED <<file, book, head, world, budgets>>

\* append_custody_record: the envelope file, then the index; both are replaced
\* atomically, and the file alone is seen by nobody.
Record(p) ==
    LET j == job[p] IN
    /\ j.step = "signed"
    /\ index[j.seq] \in {None, j.envelope}
    /\ index' = [index EXCEPT ![j.seq] = j.envelope]
    /\ job' = [job EXCEPT ![p].step = "recorded"]
    /\ UNCHANGED <<file, book, head, draft, live, holder, marked, budgets>>

\* The history is read again, and must call for exactly this SIGNED event.
SignDone(p) ==
    /\ job[p].step = "recorded"
    /\ Reconciles
    /\ Pending = {job[p].seq}
    /\ Finish(p, "SIGNED")

\* Mutant: the payload in custody is not compared with the one at hand.
SignRecoversAnything(p, s, mandatory) ==
    /\ CanEnter(p)
    /\ Reconciles
    /\ Pending = {s}
    /\ SignedAppendRequired(s)
    /\ Hold(p, "recorded", s, Unsigned(s, mandatory))
    /\ UNCHANGED <<file, book, head, world, budgets>>

\* The recovery of a signature the ledger does not know yet: the envelope in
\* custody must be the payload at hand, and the event is appended from it.
SignRecovers(p, s, mandatory) ==
    /\ CanEnter(p)
    /\ Reconciles
    /\ Pending = {s}
    /\ SignedAppendRequired(s)
    /\ index[s] = Unsigned(s, mandatory)
    /\ Hold(p, "recorded", s, index[s])
    /\ UNCHANGED <<file, book, head, world, budgets>>

-----------------------------------------------------------------------------
(* Publication.                                                            *)

\* _validate_manifest, over the staged files: the version of the Core may be
\* older than the tag.
StagingAccepts(s, envelope) == envelope.seq = s

\* verify_unified_release_assets, over the hosted files: the version of every
\* component is the tag's, the Core's too.
HostedAccepts(s, envelope) == envelope.seq = s /\ s \notin Frozen

\* publish_unified_release under the lock: a sequence recorded SIGNED, with
\* this very envelope, overtaken by nothing, and no other recovery pending.
MayPublish(p, s, mandatory) ==
    /\ CanEnter(p)
    /\ Reconciles
    /\ book[s].status = "SIGNED"
    /\ book[s].envelope = Unsigned(s, mandatory)
    /\ NotOvertaken(s)

PublishBegin(p, s, mandatory) ==
    /\ MayPublish(p, s, mandatory)
    /\ live[s] = None
    /\ Pending = {}
    /\ Hold(p, "publish", s, Unsigned(s, mandatory))
    /\ UNCHANGED <<file, book, head, world, budgets>>

\* Mutant: a release that is out already is taken for published.
PublishRecoversNothing(p, s, mandatory) == FALSE

\* The release is out already: it is verified read-only, and what is left is
\* the PUBLISHED event.
PublishRecovers(p, s, mandatory) ==
    /\ MayPublish(p, s, mandatory)
    /\ live[s] = Unsigned(s, mandatory)
    /\ HostedAccepts(s, live[s])
    /\ Pending = {s}
    /\ Hold(p, "relive", s, Unsigned(s, mandatory))
    /\ UNCHANGED <<file, book, head, world, budgets>>

\* stage_draft_release: a draft of the tag that is there already makes the
\* creation fail, or the search for exactly one draft.
CreateDraft(p) ==
    LET j == job[p] IN
    /\ j.step = "publish"
    /\ StagingAccepts(j.seq, j.envelope)
    /\ \/ /\ draft[j.seq] = "none"
          /\ draft' = [draft EXCEPT ![j.seq] = "empty"]
          /\ job' = [job EXCEPT ![p].step = "created"]
          /\ UNCHANGED <<holder, marked>>
       \/ /\ draft[j.seq] # "none"
          /\ Leave(p)
          /\ UNCHANGED draft
    /\ UNCHANGED <<file, book, head, index, live, budgets>>

Upload(p) ==
    LET j == job[p] IN
    /\ j.step = "created"
    /\ draft' = [draft EXCEPT ![j.seq] = "full"]
    /\ job' = [job EXCEPT ![p].step = "uploaded"]
    /\ UNCHANGED <<file, book, head, index, live, holder, marked, budgets>>

\* The draft is read back asset by asset, compared with the staged files, and
\* read once more.
Verify(p) ==
    LET j == job[p] IN
    /\ j.step = "uploaded"
    /\ draft[j.seq] = "full"
    /\ \/ /\ HostedAccepts(j.seq, j.envelope)
          /\ job' = [job EXCEPT ![p].step = "verified"]
          /\ UNCHANGED <<holder, marked>>
       \/ /\ ~HostedAccepts(j.seq, j.envelope)
          /\ Leave(p)
    /\ UNCHANGED <<file, book, head, world, budgets>>

Promote(p) ==
    LET j == job[p] IN
    /\ j.step = "verified"
    /\ draft' = [draft EXCEPT ![j.seq] = "none"]
    /\ live' = [live EXCEPT ![j.seq] = j.envelope]
    /\ job' = [job EXCEPT ![p].step = "promoted"]
    /\ UNCHANGED <<file, book, head, index, holder, marked, budgets>>

\* The promoted release, or the one that was out already, is in the history
\* with this envelope.
PublishDone(p) ==
    /\ job[p].step \in {"promoted", "relive"}
    /\ live[job[p].seq] = job[p].envelope
    /\ Finish(p, "PUBLISHED")

-----------------------------------------------------------------------------
(* Supersession, and what goes wrong.                                      *)

\* Mutant: the lock is not taken for the reading.
SupersedeUnlocked(p, s, view) ==
    /\ job[p] = Idle
    /\ Readable
    /\ book[s].status = "SIGNED"
    /\ Seen(view, s) = None
    /\ ReconcilesAs(view, [t \in Sequences |-> IF t = s THEN "FAILED" ELSE book[t].status])
    /\ Hold(p, "supersede", s, book[s].envelope)
    /\ UNCHANGED <<file, book, head, world, budgets>>

\* prepare_signed_release_supersession: a signed sequence the given view does
\* not show as published, and whose FAILED event the history would agree with.
\* Over a custody directory it discards what it cannot see.
SupersedeBegin(p, s, view) ==
    /\ CanEnter(p)
    /\ Readable
    /\ book[s].status = "SIGNED"
    /\ Seen(view, s) = None
    /\ ReconcilesAs(view, [t \in Sequences |-> IF t = s THEN "FAILED" ELSE book[t].status])
    /\ Hold(p, IF view = "provider" THEN "supersede" ELSE "discard", s, book[s].envelope)
    /\ UNCHANGED <<file, book, head, world, budgets>>

SupersedeDone(p) ==
    /\ job[p].step \in {"supersede", "discard"}
    /\ Finish(p, "FAILED")

\* A command fails, a history cannot be read, or the process stops.
Fail(p) ==
    /\ job[p] # Idle
    /\ faults < MaxFaults
    /\ faults' = faults + 1
    /\ Leave(p)
    /\ UNCHANGED <<file, book, head, world, tears, openFaults>>

\* Somebody removes a draft an earlier attempt left.
DeleteDraft(s) ==
    /\ draft[s] # "none"
    /\ \A p \in Process : job[p].step \in {"idle", "publish"} \/ job[p].seq # s
    /\ draft' = [draft EXCEPT ![s] = "none"]
    /\ UNCHANGED <<file, book, head, index, live, holder, marked, job, budgets>>

-----------------------------------------------------------------------------
Init ==
    /\ file = "absent"
    /\ book = [s \in Sequences |-> [status |-> "START", envelope |-> None]]
    /\ head = 0
    /\ index = [s \in Sequences |-> None]
    /\ draft = [s \in Sequences |-> "none"]
    /\ live = [s \in Sequences |-> None]
    /\ holder = None
    /\ marked = {}
    /\ job = [p \in Process |-> Idle]
    /\ faults = 0 /\ tears = 0 /\ openFaults = 0

Begin(p) ==
    \/ Bootstrap(p)
    \/ Reserve(p)
    \/ \E s \in Sequences, mandatory \in BOOLEAN :
        \/ SignBegin(p, s, mandatory)
        \/ SignRecovers(p, s, mandatory)
        \/ PublishBegin(p, s, mandatory)
        \/ PublishRecovers(p, s, mandatory)
    \/ \E s \in Sequences, view \in Views : SupersedeBegin(p, s, view)

Work(p) ==
    \/ Record(p) \/ SignDone(p)
    \/ CreateDraft(p) \/ Upload(p) \/ Verify(p) \/ Promote(p) \/ PublishDone(p)
    \/ SupersedeDone(p)

Next ==
    \/ \E p \in Process : Begin(p) \/ Work(p) \/ Fail(p) \/ OpenFails(p) \/ Restart(p)
    \/ \E s \in Sequences : DeleteDraft(s)

Spec == Init /\ [][Next]_vars

\* A controller that is running goes on, one that refuses its ledger is started
\* again, and whoever pursues the newest release tries again with the payload
\* it was built with.
\* (Only the newest sequence can be signed or published, so one condition for
\* all of them is as strong as one for each.)
Pursue(s) == \E p \in Process, mandatory \in BOOLEAN :
    \/ SignBegin(p, s, mandatory) \/ SignRecovers(p, s, mandatory)
    \/ PublishBegin(p, s, mandatory) \/ PublishRecovers(p, s, mandatory)

Retries ==
    /\ WF_vars(\E p \in Process : Work(p))
    /\ WF_vars(\E p \in Process : Restart(p))
    /\ SF_vars(\E s \in Sequences : Pursue(s))

RetrySpec == Spec /\ Retries

\* Leftover drafts are removed as well.
TidySpec == RetrySpec /\ SF_vars(\E s \in Sequences : DeleteDraft(s))

-----------------------------------------------------------------------------
TypeOK ==
    /\ file \in {"absent", "whole", "unterminated", "torn"}
    /\ book \in [Sequences -> [status : Status, envelope : Envelopes \union {None}]]
    /\ head \in Nat
    /\ index \in [Sequences -> Envelopes \union {None}]
    /\ draft \in [Sequences -> {"none", "empty", "full"}]
    /\ live \in [Sequences -> Envelopes \union {None}]
    /\ holder \in Process \union {None}
    /\ marked \in SUBSET Process
    /\ job \in [Process -> [step : Steps \union {"idle"}, seq : 0..MaxSequence,
                            envelope : Envelopes \union {None}, head : Nat]]
    /\ faults \in 0..MaxFaults /\ tears \in 0..MaxTorn /\ openFaults \in 0..MaxOpenFaults

\* A sequence has one envelope: the one in custody, the one the ledger recorded
\* as signed and the one published are the same, however often the signing was
\* cut off and tried again with a rebuilt payload (sign_reserved_baseline).
OneEnvelope == \A s \in Sequences :
    /\ Cardinality({index[s], book[s].envelope, live[s]} \ {None}) <= 1
    /\ live[s] # None \/ book[s].envelope # None => index[s] # None

\* A published release is recorded signed or published; or it is one that a
\* supersession discarded unseen, and then the newest of all: nothing was
\* reserved, signed or published above it, before or since.
LiveAccounted == \A s \in Sequences :
    live[s] # None =>
        \/ book[s].status \in {"SIGNED", "PUBLISHED"}
        \/ book[s].status = "FAILED" /\ NotOvertaken(s)

\* What a stopped controller left half done is the newest sequence and the only
\* such one, so a retry is not refused as overtaken (the recovery branches).
PendingIsNewest == \A s \in Pending : Pending = {s} /\ NotOvertaken(s)

\* The types and how ledger and repository agree at every moment.
LedgerOK == TypeOK /\ LiveAccounted /\ PendingIsNewest

\* A supersession that is decided over the published releases gives up none of
\* them, whatever it races with: only one over a custody directory records a
\* published release as failed.
OnlyUnseenDiscarded == [][\A s \in Sequences :
    live[s] # None /\ book[s].status # "FAILED" /\ book'[s].status = "FAILED" =>
        \E p \in Process : job[p].step = "discard" /\ job[p].seq = s]_vars

\* Releases go out in the order of their sequences: none is published below one
\* that was published or reserved before it.
LiveInOrder == [][\A s \in Sequences :
    live[s] = None /\ live'[s] # None =>
        \A t \in Sequences : live[t] # None \/ book[t].status # "START" => t <= s]_vars

\* What was published keeps its place: it came out above all others, and no
\* command that was told of it gives it up.
LiveHonoured == LiveInOrder /\ OnlyUnseenDiscarded

\* The newest sequence does not stay reserved, or signed, for ever, whatever
\* step its controllers stopped at: it moves on, is overtaken, or the ledger
\* file was cut short and is refused.  A release with a frozen Core cannot.
Settles == \A s \in Sequences \ Frozen, status \in {"RESERVED", "SIGNED"} :
    book[s].status = status ~>
        \/ book[s].status # status
        \/ ~NotOvertaken(s)
        \/ ~Readable
=============================================================================
