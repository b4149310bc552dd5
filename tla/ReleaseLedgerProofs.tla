------------------------- MODULE ReleaseLedgerProofs -------------------------
(***************************************************************************)
(* One envelope per sequence, a ledger that agrees with what is public,    *)
(* and releases that go out in order, for any number of controllers,       *)
(* sequences, deaths and cut writes.  The lock gives one controller at a   *)
(* time (Exclusive); Custody is what it relies on between its writes for   *)
(* the envelope of its sequence, and Order for the place of it.            *)
(***************************************************************************)
EXTENDS ReleaseLedger, FiniteSetTheorems, WellFoundedInduction, TLAPS

Exclusive == \A p \in Process : job[p] # Idle => holder = p

\* Ledger, custody and repository know one envelope.
Entry(s) ==
  /\ book[s].envelope \in {None, index[s]}
  /\ live[s] \in {None, index[s]}
  /\ book[s].status \in {"START", "RESERVED"} => book[s].envelope = None
  /\ book[s].status \in {"SIGNED", "PUBLISHED", "FAILED"} =>
       book[s].envelope = index[s] /\ index[s] # None
  /\ book[s].status # "RETIRED"

Releasing == {"publish", "created", "uploaded", "verified"}
Released == {"promoted", "relive"}

Custody(p) ==
  LET s == job[p].seq IN
  /\ job[p].step # "idle" => s \in Sequences /\ job[p].envelope \in Envelopes
  /\ job[p].step = "signed" => index[s] = None /\ book[s].status = "RESERVED"
  /\ job[p].step = "recorded" =>
       index[s] = job[p].envelope /\ book[s].status = "RESERVED"
  /\ job[p].step \in Releasing \cup Released \cup {"supersede", "discard"} =>
       book[s].envelope = job[p].envelope /\ book[s].status = "SIGNED"

EnvelopeInv ==
  /\ TypeOK /\ Exclusive
  /\ \A s \in Sequences : Entry(s)
  /\ \A p \in Process : Custody(p)

\* The published releases the ledger has as failed.
Discarded == {s \in Sequences : live[s] # None /\ book[s].status = "FAILED"}

Order(p) ==
  LET s == job[p].seq IN
  /\ job[p].step \in {"signed"} \cup Releasing =>
       Pending = {} /\ NotOvertaken(s) /\ Discarded = {}
  /\ job[p].step \in {"recorded"} \cup Released => Pending = {s} /\ NotOvertaken(s)
  /\ job[p].step \in Releasing \cup {"supersede"} => live[s] = None

OrderInv == LiveAccounted /\ PendingIsNewest /\ \A p \in Process : Order(p)

-----------------------------------------------------------------------------
(* The highest sequence.                                                   *)

LEMMA HighestIs ==
  ASSUME NEW S \in SUBSET (0..MaxSequence), S # {}
  PROVE  \E n \in S : \A t \in S : t <= n
<1> DEFINE R == OpToRel(<, Nat)
           T == {m \in 0..MaxSequence : MaxSequence - m \in S}
<1>1. MaxSequence \in Nat
  BY SequenceAssumption
<1>2. T \subseteq Nat /\ T # {}
  <2>1. PICK n \in S : n \in 0..MaxSequence
    OBVIOUS
  <2>2. MaxSequence - n \in 0..MaxSequence /\ MaxSequence - (MaxSequence - n) = n
    BY <1>1, <2>1
  <2>3. MaxSequence - n \in T
    BY <2>1, <2>2
  <2>4. T \subseteq 0..MaxSequence /\ 0..MaxSequence \subseteq Nat
    BY <1>1
  <2>5. QED
    BY <2>3, <2>4
<1>3. IsWellFoundedOn(R, Nat)
  BY NatLessThanWellFounded
<1> HIDE DEF R, T
<1>4. PICK m \in T : \A k \in T : ~(<<k, m>> \in R)
  BY <1>2, <1>3, WFMin
<1>5. ASSUME NEW k \in T PROVE m <= k
  <2>1. k \in Nat /\ m \in Nat
    BY <1>2
  <2>2. ~(k < m)
    <3>1. k < m => <<k, m>> \in R
      BY <2>1 DEF R, OpToRel
    <3>2. QED
      BY <1>4, <3>1
  <2>3. QED
    BY <2>1, <2>2
<1>6. MaxSequence - m \in S /\ m \in 0..MaxSequence
  BY <1>4 DEF T
<1>7. ASSUME NEW t \in S PROVE t <= MaxSequence - m
  <2>1. MaxSequence - t \in T
    BY <1>1 DEF T
  <2>2. m <= MaxSequence - t
    BY <1>5, <2>1
  <2>3. QED
    BY <1>1, <1>6, <2>2
<1>8. QED
  BY <1>6, <1>7

LEMMA NextIsNew ==
  /\ Highest \in 0..MaxSequence
  /\ \A t \in Consumed \cup Authenticated : t <= Highest
<1> DEFINE S == Consumed \cup Authenticated \cup {0}
<1>1. S \in SUBSET (0..MaxSequence) /\ S # {}
  BY SequenceAssumption DEF Consumed, Authenticated, Sequences
<1>2. \E n \in 0..MaxSequence : n \in S /\ \A t \in Consumed \cup Authenticated : t <= n
  BY <1>1, HighestIs
<1>3. QED
  BY <1>2 DEF Highest

-----------------------------------------------------------------------------
(* One controller moves at a time.                                         *)

JobType == [Process -> [step : Steps \cup {"idle"}, seq : 0..MaxSequence,
                        envelope : Envelopes \cup {None}, head : Nat]]
Others(p) == Process \ {p}

LEMMA Alone ==
  ASSUME Exclusive, NEW p \in Process, job[p].step # "idle" \/ holder = None
  PROVE  \A q \in Others(p) : job[q] = Idle
  BY SequenceAssumption DEF Exclusive, Idle, Others

LEMMA Unsigneds ==
  ASSUME NEW s \in Sequences, NEW mandatory \in BOOLEAN
  PROVE  Unsigned(s, mandatory) \in Envelopes
  BY DEF Unsigned, Envelopes

LEMMA Held ==
  ASSUME TypeOK, NEW p \in Process, NEW step \in Steps, NEW s \in Sequences,
         NEW envelope \in Envelopes, Hold(p, step, s, envelope)
  PROVE  /\ job' \in JobType /\ holder' = p /\ marked' \in SUBSET Process
         /\ job'[p].step = step /\ job'[p].seq = s
         /\ job'[p].envelope = envelope
         /\ \A q \in Others(p) : job'[q] = job[q]
<1> DEFINE r == [step |-> step, seq |-> s, envelope |-> envelope, head |-> head]
<1>1. s \in 0..MaxSequence /\ head \in Nat
  BY SequenceAssumption DEF Sequences, TypeOK
<1>2. r \in [step : Steps \cup {"idle"}, seq : 0..MaxSequence,
             envelope : Envelopes \cup {None}, head : Nat]
  BY <1>1
<1>3. /\ job' = [job EXCEPT ![p] = r] /\ holder' = p
      /\ marked' \in SUBSET Process
  BY DEF Hold, TypeOK
<1>4. r.step = step /\ r.seq = s /\ r.envelope = envelope
  OBVIOUS
<1> HIDE DEF r
<1>5. job \in JobType
  BY DEF TypeOK, JobType
<1>6. QED
  BY <1>2, <1>3, <1>4, <1>5 DEF JobType, Others

LEMMA Left ==
  ASSUME TypeOK, NEW p \in Process, Leave(p)
  PROVE  /\ job' \in JobType /\ holder' \in Process \cup {None}
         /\ marked' \in SUBSET Process
         /\ job'[p] = Idle /\ job'[p].step = "idle"
         /\ \A q \in Others(p) : job'[q] = job[q]
<1>1. Idle \in [step : Steps \cup {"idle"}, seq : 0..MaxSequence,
                envelope : Envelopes \cup {None}, head : Nat]
  BY SequenceAssumption DEF Idle
<1>2. Idle.step = "idle" /\ job \in JobType
  BY DEF Idle, TypeOK, JobType
<1>3. job' = [job EXCEPT ![p] = Idle]
  BY DEF Leave
<1>4. holder' \in Process \cup {None} /\ marked' \in SUBSET Process
  BY DEF Leave, TypeOK
<1>5. QED
  BY <1>1, <1>2, <1>3, <1>4 DEF JobType, Others

LEMMA Moved ==
  ASSUME TypeOK, NEW p \in Process, NEW step \in Steps,
         job' = [job EXCEPT ![p].step = step]
  PROVE  /\ job' \in JobType
         /\ job'[p].step = step /\ job'[p].seq = job[p].seq
         /\ job'[p].envelope = job[p].envelope
         /\ \A q \in Others(p) : job'[q] = job[q]
<1> DEFINE r == [job[p] EXCEPT !.step = step]
<1>1. job \in JobType
  BY DEF TypeOK, JobType
<1>2. /\ r \in [step : Steps \cup {"idle"}, seq : 0..MaxSequence,
                envelope : Envelopes \cup {None}, head : Nat]
      /\ r.step = step /\ r.seq = job[p].seq /\ r.envelope = job[p].envelope
  BY <1>1 DEF JobType
<1>3. job' = [job EXCEPT ![p] = r]
  BY <1>1 DEF JobType
<1> HIDE DEF r
<1>4. QED
  BY <1>1, <1>2, <1>3 DEF JobType, Others

\* What one controller must see to, for the promises about all of them.
LEMMA OneMoves ==
  ASSUME NEW p \in Process, \A q \in Others(p) : job'[q] = Idle,
         job'[p] # Idle => holder' = p, Custody(p)'
  PROVE  Exclusive' /\ \A q \in Process : Custody(q)'
<1>1. ASSUME NEW q \in Others(p) PROVE Custody(q)'
  BY <1>1 DEF Custody, Idle, Releasing, Released
<1>2. QED
  BY <1>1 DEF Exclusive, Others

LEMMA OneOrders ==
  ASSUME NEW p \in Process, \A q \in Others(p) : job'[q] = Idle, Order(p)'
  PROVE  \A q \in Process : Order(q)'
<1>1. ASSUME NEW q \in Others(p) PROVE Order(q)'
  BY <1>1 DEF Order, Idle, Releasing, Released
<1>2. QED
  BY <1>1 DEF Others

-----------------------------------------------------------------------------
(* One envelope.                                                           *)

\* Steps that change neither ledger, custody nor repository, nor any job.
LEMMA IdleKeepsEnvelopes ==
  ASSUME EnvelopeInv, UNCHANGED <<book, head, index, live, job, holder>>,
         file' \in {"absent", "whole", "unterminated", "torn"},
         draft' \in [Sequences -> {"none", "empty", "full"}],
         marked' \in SUBSET Process, faults' \in 0..MaxFaults,
         tears' \in 0..MaxTorn, openFaults' \in 0..MaxOpenFaults
  PROVE  EnvelopeInv'
<1>1. TypeOK'
  BY DEF EnvelopeInv, TypeOK
<1>2. Exclusive' /\ \A s \in Sequences : Entry(s)'
  BY DEF EnvelopeInv, Exclusive, Entry
<1>3. \A p \in Process : Custody(p)'
  BY DEF EnvelopeInv, Custody
<1>4. QED
  BY <1>1, <1>2, <1>3 DEF EnvelopeInv

\* Steps that change a job and leave the rows alone.
LEMMA JobKeepsEnvelopes ==
  ASSUME EnvelopeInv, NEW p \in Process, UNCHANGED <<file, book, head, index, live>>,
         job' \in JobType, \A q \in Others(p) : job'[q] = Idle,
         job'[p] # Idle => holder' = p, holder' \in Process \cup {None},
         Custody(p)',
         draft' \in [Sequences -> {"none", "empty", "full"}],
         marked' \in SUBSET Process, faults' \in 0..MaxFaults,
         UNCHANGED <<tears, openFaults>>
  PROVE  EnvelopeInv'
<1>1. TypeOK'
  BY DEF EnvelopeInv, TypeOK, JobType
<1>2. \A s \in Sequences : Entry(s)'
  BY DEF EnvelopeInv, Entry
<1>3. Exclusive' /\ \A q \in Process : Custody(q)'
  BY OneMoves
<1>4. QED
  BY <1>1, <1>2, <1>3 DEF EnvelopeInv

LEMMA BeginsKeepEnvelopes ==
  ASSUME EnvelopeInv, NEW p \in Process, NEW s \in Sequences,
         NEW mandatory \in BOOLEAN,
         \/ SignBegin(p, s, mandatory) \/ SignRecovers(p, s, mandatory)
         \/ PublishBegin(p, s, mandatory) \/ PublishRecovers(p, s, mandatory)
         \/ \E view \in Views : SupersedeBegin(p, s, view)
  PROVE  EnvelopeInv'
<1>1. Entry(s) /\ TypeOK /\ Exclusive
  BY DEF EnvelopeInv
<1>2. /\ holder = None /\ UNCHANGED <<file, book, head, world, budgets>>
  BY DEF SignBegin, SignRecovers, PublishBegin, PublishRecovers, MayPublish,
         SupersedeBegin, CanEnter
<1>3. PICK step \in Steps, envelope \in Envelopes :
        /\ Hold(p, step, s, envelope)
        /\ step = "signed" => index[s] = None /\ book[s].status = "RESERVED"
        /\ step = "recorded" => index[s] = envelope /\ book[s].status = "RESERVED"
        /\ step \in Releasing \cup Released \cup {"supersede", "discard"} =>
             book[s].envelope = envelope /\ book[s].status = "SIGNED"
  <2>1. Unsigned(s, mandatory) \in Envelopes
    BY Unsigneds
  <2>2. CASE SignBegin(p, s, mandatory)
    <3>1. index[s] = None
      BY <2>2 DEF SignBegin, Authenticated, Bound
    <3>2. book[s].status \in {"RESERVED", "PUBLISHED", "SIGNED", "FAILED", "RETIRED"}
      BY <1>1, <2>2 DEF SignBegin, TypeOK, Status
    <3>3. book[s].status = "RESERVED"
      BY <1>1, <3>1, <3>2 DEF Entry
    <3>4. Hold(p, "signed", s, Unsigned(s, mandatory))
      BY <2>2 DEF SignBegin
    <3>5. QED
      BY <2>1, <3>1, <3>3, <3>4 DEF Steps, Releasing, Released
  <2>3. CASE SignRecovers(p, s, mandatory)
    BY <2>1, <2>3 DEF SignRecovers, SignedAppendRequired, Steps, Releasing, Released
  <2>4. CASE PublishBegin(p, s, mandatory)
    BY <2>1, <2>4 DEF PublishBegin, MayPublish, Steps, Releasing, Released
  <2>5. CASE PublishRecovers(p, s, mandatory)
    BY <2>1, <2>5 DEF PublishRecovers, MayPublish, Steps, Releasing, Released
  <2>6. CASE \E view \in Views : SupersedeBegin(p, s, view)
    <3>1. PICK step \in {"supersede", "discard"} :
            Hold(p, step, s, book[s].envelope) /\ book[s].status = "SIGNED"
      BY <2>6 DEF SupersedeBegin
    <3>2. book[s].envelope \in Envelopes
      BY <1>1, <3>1 DEF Entry, TypeOK
    <3>3. QED
      BY <3>1, <3>2 DEF Steps, Releasing, Released
  <2>7. QED
    BY <2>2, <2>3, <2>4, <2>5, <2>6
<1>4. /\ job' \in JobType /\ holder' = p /\ marked' \in SUBSET Process
      /\ job'[p].step = step /\ job'[p].seq = s /\ job'[p].envelope = envelope
      /\ \A q \in Others(p) : job'[q] = job[q]
  BY <1>1, <1>3, Held
<1>5. \A q \in Others(p) : job'[q] = Idle
  BY <1>1, <1>2, <1>4, Alone
<1>6. UNCHANGED <<index, draft, live, faults, tears, openFaults>>
  BY <1>2 DEF world, budgets
<1>7. Custody(p)'
  BY <1>2, <1>3, <1>4, <1>6 DEF Custody
<1>8. QED
  BY <1>1, <1>2, <1>4, <1>5, <1>6, <1>7, JobKeepsEnvelopes DEF TypeOK

\* A controller that stops, or gives its operation up.
LEMMA LeavingKeepsEnvelopes ==
  ASSUME EnvelopeInv, NEW p \in Process, job[p].step # "idle" \/ job[p] # Idle,
         Leave(p), UNCHANGED <<file, book, head, index, live>>,
         draft' = draft, faults' \in 0..MaxFaults, UNCHANGED <<tears, openFaults>>
  PROVE  EnvelopeInv'
<1>1. TypeOK /\ Exclusive
  BY DEF EnvelopeInv
<1>2. /\ job' \in JobType /\ holder' \in Process \cup {None}
      /\ marked' \in SUBSET Process
      /\ job'[p] = Idle /\ job'[p].step = "idle"
      /\ \A q \in Others(p) : job'[q] = job[q]
  BY <1>1, Left
<1>3. \A q \in Others(p) : job[q] = Idle
  BY <1>1 DEF Exclusive, Others, Idle
<1>4. Custody(p)'
  BY <1>2 DEF Custody, Releasing, Released
<1>5. QED
  BY <1>1, <1>2, <1>3, <1>4, JobKeepsEnvelopes DEF TypeOK

LEMMA StagingKeepsEnvelopes ==
  ASSUME EnvelopeInv, NEW p \in Process, CreateDraft(p) \/ Upload(p) \/ Verify(p)
  PROVE  EnvelopeInv'
<1>1. /\ TypeOK /\ Exclusive /\ Custody(p)
      /\ job[p].step \in {"publish", "created", "uploaded"}
      /\ UNCHANGED <<file, book, head, index, live, budgets>>
  BY DEF EnvelopeInv, CreateDraft, Upload, Verify, world
<1>2. draft' \in [Sequences -> {"none", "empty", "full"}]
  BY <1>1 DEF TypeOK, CreateDraft, Upload, Verify, world
<1>3. UNCHANGED <<faults, tears, openFaults>>
  BY <1>1 DEF budgets
<1>4. CASE Leave(p) /\ draft' = draft
  BY <1>1, <1>3, <1>4, LeavingKeepsEnvelopes DEF TypeOK
<1>5. CASE \E step \in Releasing : /\ job' = [job EXCEPT ![p].step = step]
                                   /\ UNCHANGED <<holder, marked>>
  <2>1. PICK step \in Releasing : job' = [job EXCEPT ![p].step = step]
    BY <1>5
  <2>2. step \in Steps
    BY DEF Releasing, Steps
  <2>3. /\ job' \in JobType
        /\ job'[p].step = step /\ job'[p].seq = job[p].seq
        /\ job'[p].envelope = job[p].envelope
        /\ \A q \in Others(p) : job'[q] = job[q]
    BY <1>1, <2>1, <2>2, Moved
  <2>4. \A q \in Others(p) : job'[q] = Idle
    BY <1>1, <2>3, Alone
  <2>5. holder' = p /\ holder' \in Process \cup {None} /\ marked' \in SUBSET Process
    BY <1>1, <1>5 DEF Exclusive, TypeOK, Idle
  <2>6. Custody(p)'
    BY <1>1, <2>3 DEF Custody, Releasing, Released
  <2>7. QED
    BY <1>1, <1>2, <1>3, <2>3, <2>4, <2>5, <2>6, JobKeepsEnvelopes DEF TypeOK
<1>6. QED
  BY <1>4, <1>5 DEF CreateDraft, Upload, Verify, world, Releasing

\* One row of the ledger is appended while no controller is left in its work.
LEMMA AppendKeepsEnvelopes ==
  ASSUME EnvelopeInv, NEW s \in Sequences, NEW status \in Status,
         NEW envelope \in Envelopes \cup {None},
         \A q \in Process : job'[q] = Idle, job' \in JobType,
         holder' \in Process \cup {None}, marked' \in SUBSET Process,
         UNCHANGED <<index, draft, live, faults, openFaults>>,
         \/ Append(s, status, envelope) /\ tears' = tears
         \/ CutAppend(s, status, envelope),
         \/ status = "RESERVED" /\ envelope = None
         \/ /\ status \in {"SIGNED", "PUBLISHED", "FAILED"}
            /\ envelope = index[s] /\ index[s] # None
  PROVE  EnvelopeInv'
<1>1. TypeOK
  BY DEF EnvelopeInv
<1>2. /\ file' \in {"absent", "whole", "unterminated", "torn"}
      /\ tears' \in 0..MaxTorn
  BY <1>1, BudgetAssumption DEF TypeOK, Append, CutAppend, Written
<1> DEFINE row == [status |-> status, envelope |-> envelope]
<1>3. \/ book' = book /\ head' = head
      \/ book' = [book EXCEPT ![s] = row] /\ head' = head + 1
  BY DEF Append, CutAppend
<1>4. row \in [status : Status, envelope : Envelopes \cup {None}]
  OBVIOUS
<1>5. book' \in [Sequences -> [status : Status, envelope : Envelopes \cup {None}]]
      /\ head' \in Nat
  BY <1>1, <1>3, <1>4 DEF TypeOK
<1>6. TypeOK'
  BY <1>1, <1>2, <1>5 DEF TypeOK, JobType
<1>7. ASSUME NEW t \in Sequences PROVE Entry(t)'
  <2>1. Entry(t)
    BY DEF EnvelopeInv
  <2>2. CASE book'[t] = book[t]
    BY <2>1, <2>2 DEF Entry
  <2>3. CASE t = s /\ book'[t] = row
    BY <2>1, <2>3 DEF Entry
  <2>4. QED
    BY <1>1, <1>3, <2>2, <2>3 DEF TypeOK
<1>8. Exclusive' /\ \A q \in Process : Custody(q)'
  BY DEF Exclusive, Custody, Idle, Releasing, Released
<1>9. QED
  BY <1>6, <1>7, <1>8 DEF EnvelopeInv

LEMMA ReserveKeepsEnvelopes ==
  ASSUME EnvelopeInv, NEW p \in Process, Reserve(p)
  PROVE  EnvelopeInv'
<1>1. /\ TypeOK /\ Exclusive /\ holder = None /\ job[p] = Idle
      /\ NextUnused <= MaxSequence
      /\ UNCHANGED <<holder, marked, job, world, faults, openFaults>>
  BY DEF EnvelopeInv, Reserve, CanEnter
<1>2. \A q \in Process : job'[q] = Idle
  BY <1>1, Alone DEF Others
<1>3. NextUnused \in Sequences
  BY <1>1, NextIsNew, SequenceAssumption DEF NextUnused, Sequences
<1>4. \/ Append(NextUnused, "RESERVED", None) /\ tears' = tears
      \/ CutAppend(NextUnused, "RESERVED", None)
  BY DEF Reserve
<1>5. UNCHANGED <<index, draft, live, faults, openFaults, job, holder, marked>>
  BY <1>1 DEF world
<1>6. job' \in JobType /\ holder' \in Process \cup {None} /\ marked' \in SUBSET Process
  BY <1>1, <1>5 DEF TypeOK, JobType
<1>7. "RESERVED" \in Status
  BY DEF Status
<1> HIDE DEF NextUnused
<1>8. QED
  BY <1>2, <1>3, <1>4, <1>5, <1>6, <1>7, AppendKeepsEnvelopes

LEMMA FinishKeepsEnvelopes ==
  ASSUME EnvelopeInv, NEW p \in Process, job[p].step # "idle",
         NEW status \in {"SIGNED", "PUBLISHED", "FAILED"}, Finish(p, status),
         index[job[p].seq] = job[p].envelope
  PROVE  EnvelopeInv'
<1>1. TypeOK /\ Exclusive /\ Custody(p)
  BY DEF EnvelopeInv
<1> DEFINE s == job[p].seq
           envelope == job[p].envelope
<1>2. s \in Sequences /\ envelope \in Envelopes
  BY <1>1 DEF Custody
<1>3. /\ Leave(p) /\ UNCHANGED <<world, faults, openFaults>>
      /\ \/ Append(s, status, envelope) /\ tears' = tears
         \/ CutAppend(s, status, envelope)
  BY DEF Finish
<1>4. /\ job' \in JobType /\ holder' \in Process \cup {None}
      /\ marked' \in SUBSET Process /\ job'[p] = Idle
      /\ \A q \in Others(p) : job'[q] = job[q]
  BY <1>1, <1>3, Left
<1>5. \A q \in Process : job'[q] = Idle
  BY <1>1, <1>4, Alone DEF Others
<1>6. UNCHANGED <<index, draft, live, faults, openFaults>>
  BY <1>3 DEF world
<1>7. envelope # None /\ envelope = index[s] /\ status \in Status
  BY <1>2, EnvelopeAssumption DEF Status
<1> HIDE DEF s, envelope
<1>8. QED
  BY <1>2, <1>3, <1>4, <1>5, <1>6, <1>7, AppendKeepsEnvelopes

LEMMA WorkKeepsEnvelopes ==
  ASSUME EnvelopeInv, NEW p \in Process, Work(p)
  PROVE  EnvelopeInv'
<1>1. TypeOK /\ Exclusive /\ Custody(p)
  BY DEF EnvelopeInv
<1> DEFINE s == job[p].seq
<1>2. job[p].step # "idle"
  BY DEF Work, Record, SignDone, CreateDraft, Upload, Verify, Promote, PublishDone,
         SupersedeDone
<1>3. s \in Sequences /\ job[p].envelope \in Envelopes /\ Entry(s)
  BY <1>1, <1>2 DEF Custody, EnvelopeInv
<1>4. \A q \in Others(p) : job[q] = Idle
  BY <1>1, <1>2, Alone
<1>5. holder = p
  BY <1>1, <1>2 DEF Exclusive, Idle
<1>6. CASE Record(p)
  <2>1. /\ index[s] = None /\ book[s].status = "RESERVED"
        /\ index' = [index EXCEPT ![s] = job[p].envelope]
        /\ job' = [job EXCEPT ![p].step = "recorded"]
        /\ UNCHANGED <<file, book, head, draft, live, holder, marked, faults, tears,
                       openFaults>>
    BY <1>1, <1>6 DEF Record, Custody, budgets
  <2>2. /\ job' \in JobType
        /\ job'[p].step = "recorded" /\ job'[p].seq = s
        /\ job'[p].envelope = job[p].envelope
        /\ \A q \in Others(p) : job'[q] = job[q]
    BY <1>1, <2>1, Moved DEF Steps
  <2>3. TypeOK'
    BY <1>1, <1>3, <2>1, <2>2 DEF TypeOK, JobType
  <2>4. ASSUME NEW t \in Sequences PROVE Entry(t)'
    <3>1. Entry(t)
      BY DEF EnvelopeInv
    <3>2. CASE t = s
      BY <1>1, <1>3, <2>1, <3>2 DEF Entry, TypeOK
    <3>3. CASE t # s
      BY <1>1, <1>3, <2>1, <3>1, <3>3 DEF Entry, TypeOK
    <3>4. QED
      BY <3>2, <3>3
  <2>5. index'[s] = job[p].envelope
    BY <1>1, <1>3, <2>1 DEF TypeOK
  <2>6. Custody(p)'
    BY <1>3, <2>1, <2>2, <2>5 DEF Custody, Releasing, Released
  <2>7. Exclusive' /\ \A q \in Process : Custody(q)'
    BY <1>4, <1>5, <2>1, <2>2, <2>6, OneMoves
  <2>8. QED
    BY <2>3, <2>4, <2>7 DEF EnvelopeInv
<1>7. CASE Promote(p)
  <2>1. /\ book[s].envelope = job[p].envelope /\ book[s].status = "SIGNED"
        /\ live' = [live EXCEPT ![s] = job[p].envelope]
        /\ draft' = [draft EXCEPT ![s] = "none"]
        /\ job' = [job EXCEPT ![p].step = "promoted"]
        /\ UNCHANGED <<file, book, head, index, holder, marked, faults, tears,
                       openFaults>>
    BY <1>1, <1>7 DEF Promote, Custody, Releasing, Released, budgets
  <2>2. /\ job' \in JobType
        /\ job'[p].step = "promoted" /\ job'[p].seq = s
        /\ job'[p].envelope = job[p].envelope
        /\ \A q \in Others(p) : job'[q] = job[q]
    BY <1>1, <2>1, Moved DEF Steps
  <2>3. TypeOK'
    BY <1>1, <1>3, <2>1, <2>2 DEF TypeOK, JobType
  <2>4. ASSUME NEW t \in Sequences PROVE Entry(t)'
    <3>1. Entry(t)
      BY DEF EnvelopeInv
    <3>2. CASE t = s
      BY <1>1, <1>3, <2>1, <3>2 DEF Entry, TypeOK
    <3>3. CASE t # s
      BY <1>1, <1>3, <2>1, <3>1, <3>3 DEF Entry, TypeOK
    <3>4. QED
      BY <3>2, <3>3
  <2>5. Custody(p)'
    BY <1>3, <2>1, <2>2 DEF Custody, Releasing, Released
  <2>6. Exclusive' /\ \A q \in Process : Custody(q)'
    BY <1>4, <1>5, <2>1, <2>2, <2>5, OneMoves
  <2>7. QED
    BY <2>3, <2>4, <2>6 DEF EnvelopeInv
<1>8. CASE SignDone(p)
  BY <1>1, <1>2, <1>8, FinishKeepsEnvelopes DEF SignDone, Custody
<1>9. CASE PublishDone(p) \/ SupersedeDone(p)
  <2>1. index[s] = job[p].envelope
    BY <1>1, <1>3, <1>9 DEF PublishDone, SupersedeDone, Custody, Entry, Released
  <2>2. Finish(p, "PUBLISHED") \/ Finish(p, "FAILED")
    BY <1>9 DEF PublishDone, SupersedeDone
  <2>3. QED
    BY <1>2, <2>1, <2>2, FinishKeepsEnvelopes
<1>10. QED
  BY <1>6, <1>7, <1>8, <1>9, StagingKeepsEnvelopes DEF Work

LEMMA EnvelopesKept ==
  ASSUME EnvelopeInv, [Next]_vars
  PROVE  EnvelopeInv'
<1>1. TypeOK
  BY DEF EnvelopeInv
<1>2. CASE UNCHANGED vars
  BY <1>1, <1>2, IdleKeepsEnvelopes DEF vars, TypeOK
<1>3. ASSUME NEW p \in Process, Begin(p) PROVE EnvelopeInv'
  <2>1. CASE Bootstrap(p)
    <3>1. UNCHANGED <<book, head, index, live, job, holder, draft, marked, faults,
                      openFaults>>
      BY <2>1 DEF Bootstrap, world
    <3>2. /\ file' \in {"absent", "whole", "unterminated", "torn"}
          /\ tears' \in 0..MaxTorn
      BY <1>1, <2>1, BudgetAssumption DEF Bootstrap, TypeOK
    <3>3. QED
      BY <1>1, <3>1, <3>2, IdleKeepsEnvelopes DEF TypeOK
  <2>2. CASE Reserve(p)
    BY <2>2, ReserveKeepsEnvelopes
  <2>3. QED
    BY <1>3, <2>1, <2>2, BeginsKeepEnvelopes DEF Begin
<1>4. ASSUME NEW p \in Process, OpenFails(p) \/ Restart(p) PROVE EnvelopeInv'
  <2>1. UNCHANGED <<file, book, head, index, live, job, holder, draft, faults, tears>>
    BY <1>4 DEF OpenFails, Restart, world, budgets
  <2>2. marked' \in SUBSET Process /\ openFaults' \in 0..MaxOpenFaults
    BY <1>1, <1>4, BudgetAssumption DEF OpenFails, Restart, TypeOK, budgets
  <2>3. QED
    BY <1>1, <2>1, <2>2, IdleKeepsEnvelopes DEF TypeOK
<1>5. ASSUME NEW p \in Process, Fail(p) PROVE EnvelopeInv'
  <2>1. /\ job[p] # Idle /\ Leave(p)
        /\ UNCHANGED <<file, book, head, index, draft, live, tears, openFaults>>
    BY <1>5 DEF Fail, world
  <2>2. faults' \in 0..MaxFaults
    BY <1>1, <1>5, BudgetAssumption DEF Fail, TypeOK
  <2>3. QED
    BY <2>1, <2>2, LeavingKeepsEnvelopes
<1>6. ASSUME NEW s \in Sequences, DeleteDraft(s) PROVE EnvelopeInv'
  <2>1. UNCHANGED <<file, book, head, index, live, job, holder, marked, faults, tears,
                    openFaults>>
    BY <1>6 DEF DeleteDraft, budgets
  <2>2. draft' \in [Sequences -> {"none", "empty", "full"}]
    BY <1>1, <1>6 DEF DeleteDraft, TypeOK
  <2>3. QED
    BY <1>1, <2>1, <2>2, IdleKeepsEnvelopes DEF TypeOK
<1>7. QED
  BY <1>2, <1>3, <1>4, <1>5, <1>6, WorkKeepsEnvelopes DEF Next

LEMMA EnvelopesInitially == Init => EnvelopeInv
<1> SUFFICES ASSUME Init PROVE EnvelopeInv
  OBVIOUS
<1>1. TypeOK
  BY SequenceAssumption, BudgetAssumption DEF Init, TypeOK, Idle, Status
<1>2. Exclusive /\ \A s \in Sequences : Entry(s)
  BY DEF Init, Exclusive, Entry
<1>3. \A p \in Process : Custody(p)
  BY DEF Init, Custody, Idle, Releasing, Released
<1>4. QED
  BY <1>1, <1>2, <1>3 DEF EnvelopeInv

LEMMA AtMostOne ==
  ASSUME NEW S, NEW x, S \subseteq {x}
  PROVE  Cardinality(S) <= 1
<1>1. S = {} \/ S = {x}
  OBVIOUS
<1>2. Cardinality({}) = 0 /\ Cardinality({x}) = 1
  BY FS_EmptySet, FS_Singleton
<1>3. QED
  BY <1>1, <1>2

LEMMA EnvelopesMatch == EnvelopeInv => OneEnvelope
<1> SUFFICES ASSUME EnvelopeInv, NEW s \in Sequences
             PROVE  /\ Cardinality({index[s], book[s].envelope, live[s]} \ {None}) <= 1
                    /\ live[s] # None \/ book[s].envelope # None => index[s] # None
  BY DEF OneEnvelope
<1>1. book[s].envelope \in {None, index[s]} /\ live[s] \in {None, index[s]}
  BY DEF EnvelopeInv, Entry
<1>2. {index[s], book[s].envelope, live[s]} \ {None} \subseteq {index[s]}
  BY <1>1
<1>3. QED
  BY <1>1, <1>2, AtMostOne

\* A sequence has one envelope, whatever stopped, failed or was cut short, for
\* any number of controllers and sequences and either view of a supersession.
THEOREM EnvelopesHold == Spec => []OneEnvelope
<1>1. Init => EnvelopeInv
  BY EnvelopesInitially
<1>2. EnvelopeInv /\ [Next]_vars => EnvelopeInv'
  BY EnvelopesKept
<1>3. EnvelopeInv => OneEnvelope
  BY EnvelopesMatch
<1>4. QED
  BY <1>1, <1>2, <1>3, PTL DEF Spec

-----------------------------------------------------------------------------
(* The order of the releases.                                              *)

\* Where neither ledger nor history changes, nothing is overtaken.
LEMMA SameOrder ==
  ASSUME OrderInv, UNCHANGED <<book, index, live>>
  PROVE  /\ Pending' = Pending /\ \A s \in Sequences : NotOvertaken(s)' = NotOvertaken(s)
         /\ Discarded' = Discarded /\ LiveAccounted' /\ PendingIsNewest'
<1>1. Pending' = Pending
  BY DEF Pending, SignedAppendRequired, PublishedAppendRequired, Bound
<1>2. Consumed' = Consumed /\ Authenticated' = Authenticated
  BY DEF Consumed, Authenticated, Bound
<1>3. \A s : NotOvertaken(s)' = NotOvertaken(s)
  BY <1>2 DEF NotOvertaken
<1>4. LiveAccounted' /\ Discarded' = Discarded
  BY <1>3 DEF OrderInv, LiveAccounted, Discarded
<1>5. PendingIsNewest'
  BY <1>1, <1>3 DEF OrderInv, PendingIsNewest
<1>6. QED
  BY <1>1, <1>3, <1>4, <1>5

\* The reconciliation refuses a history with a published release that failed.
LEMMA NoneDiscarded ==
  ASSUME Reconciles
  PROVE  Discarded = {}
BY DEF Reconciles, ReconcilesAs, Bound, Seen, Discarded

LEMMA BeginsKeepOrder ==
  ASSUME EnvelopeInv, OrderInv, NEW p \in Process, NEW s \in Sequences,
         NEW mandatory \in BOOLEAN,
         \/ SignBegin(p, s, mandatory) \/ SignRecovers(p, s, mandatory)
         \/ PublishBegin(p, s, mandatory) \/ PublishRecovers(p, s, mandatory)
         \/ \E view \in Views : SupersedeBegin(p, s, view)
  PROVE  OrderInv'
<1>1. TypeOK /\ Exclusive
  BY DEF EnvelopeInv
<1>2. /\ holder = None /\ UNCHANGED <<book, index, live>>
  BY DEF SignBegin, SignRecovers, PublishBegin, PublishRecovers, MayPublish,
         SupersedeBegin, CanEnter, world
<1>3. PICK step \in Steps, envelope \in Envelopes :
        /\ Hold(p, step, s, envelope)
        /\ step \in {"signed"} \cup Releasing =>
             Pending = {} /\ NotOvertaken(s) /\ Discarded = {}
        /\ step \in {"recorded"} \cup Released => Pending = {s} /\ NotOvertaken(s)
        /\ step \in Releasing \cup {"supersede"} => live[s] = None
  <2>1. Unsigned(s, mandatory) \in Envelopes
    BY Unsigneds
  <2>2. CASE SignBegin(p, s, mandatory)
    BY <2>1, <2>2, NoneDiscarded DEF SignBegin, Steps, Releasing, Released
  <2>3. CASE SignRecovers(p, s, mandatory)
    <3>1. Pending = {s} /\ Hold(p, "recorded", s, Unsigned(s, mandatory))
      BY <2>3 DEF SignRecovers
    <3>2. NotOvertaken(s)
      BY <3>1 DEF OrderInv, PendingIsNewest
    <3>3. QED
      BY <2>1, <3>1, <3>2 DEF Steps, Releasing, Released
  <2>4. CASE PublishBegin(p, s, mandatory)
    BY <2>1, <2>4, NoneDiscarded DEF PublishBegin, MayPublish, Steps, Releasing, Released
  <2>5. CASE PublishRecovers(p, s, mandatory)
    BY <2>1, <2>5 DEF PublishRecovers, MayPublish, Steps, Releasing, Released
  <2>6. CASE \E view \in Views : SupersedeBegin(p, s, view)
    <3>1. PICK step \in {"supersede", "discard"} :
            /\ Hold(p, step, s, book[s].envelope)
            /\ book[s].status = "SIGNED"
            /\ step = "supersede" => live[s] = None
      BY <2>6 DEF SupersedeBegin, Seen
    <3>2. book[s].envelope \in Envelopes
      BY <1>1, <3>1 DEF EnvelopeInv, Entry, TypeOK
    <3>3. QED
      BY <3>1, <3>2 DEF Steps, Releasing, Released
  <2>7. QED
    BY <2>2, <2>3, <2>4, <2>5, <2>6
<1>4. /\ job'[p].step = step /\ job'[p].seq = s
      /\ \A q \in Others(p) : job'[q] = job[q]
  BY <1>1, <1>3, Held
<1>5. \A q \in Others(p) : job'[q] = Idle
  BY <1>1, <1>2, <1>4, Alone
<1>6. /\ Pending' = Pending /\ NotOvertaken(s)' = NotOvertaken(s)
      /\ Discarded' = Discarded /\ LiveAccounted' /\ PendingIsNewest'
  BY <1>2, SameOrder
<1>7. Order(p)'
  BY <1>2, <1>3, <1>4, <1>6 DEF Order
<1>8. QED
  BY <1>5, <1>6, <1>7, OneOrders DEF OrderInv

\* A new sequence is above all the others, and nothing is pending about it.
LEMMA ReserveKeepsOrder ==
  ASSUME EnvelopeInv, OrderInv, NEW p \in Process, Reserve(p)
  PROVE  OrderInv'
<1>1. /\ TypeOK /\ Exclusive /\ holder = None /\ job[p] = Idle /\ Pending = {}
      /\ Reconciles /\ NextUnused <= MaxSequence /\ UNCHANGED <<job, index, live>>
  BY DEF EnvelopeInv, Reserve, CanEnter, world
<1>2. \A q \in Process : Order(q)'
  <2>1. \A q \in Process : job[q] = Idle
    BY <1>1, Alone DEF Others
  <2>2. QED
    BY <1>1, <2>1 DEF Order, Idle, Releasing, Released
<1>3. PICK s \in Sequences : s = NextUnused
  BY <1>1, NextIsNew, SequenceAssumption DEF NextUnused, Sequences
<1>4. s \notin Consumed \cup Authenticated
  <2>1. Highest \in Nat /\ s = Highest + 1
    BY <1>3, NextIsNew, SequenceAssumption DEF NextUnused
  <2>2. ~(s <= Highest)
    BY <2>1
  <2>3. QED
    BY <2>2, NextIsNew
<1>5. index[s] = None /\ live[s] = None
  BY <1>4 DEF Authenticated, Bound
<1>6. \/ book' = book
      \/ book' = [book EXCEPT ![s] = [status |-> "RESERVED", envelope |-> None]]
  BY <1>3 DEF Reserve, Append, CutAppend
<1>7. \A t \in Sequences : t # s => book'[t] = book[t]
  BY <1>1, <1>6 DEF TypeOK
<1>8. book'[s] = book[s] \/ book'[s].status = "RESERVED"
  BY <1>1, <1>6 DEF TypeOK
<1>9. Pending' = {}
  BY <1>1, <1>5, <1>7, <1>8
     DEF Pending, SignedAppendRequired, PublishedAppendRequired, Bound
<1>10. LiveAccounted'
  BY <1>1, <1>5, <1>7, NoneDiscarded DEF OrderInv, LiveAccounted, Discarded
<1>11. PendingIsNewest'
  BY <1>9 DEF PendingIsNewest
<1>12. QED
  BY <1>2, <1>10, <1>11 DEF OrderInv

\* The row of a sequence ends in a status, or the write left no trace of it.
LEMMA FinishKeepsOrder ==
  ASSUME EnvelopeInv, OrderInv, NEW p \in Process, job[p].step # "idle",
         NEW status \in {"SIGNED", "PUBLISHED", "FAILED"}, Finish(p, status),
         \/ status = "SIGNED" /\ book[job[p].seq].status = "RESERVED"
         \/ status = "PUBLISHED" /\ book[job[p].seq].status = "SIGNED"
         \/ status = "FAILED" /\ book[job[p].seq].status = "SIGNED"
  PROVE  OrderInv'
<1> DEFINE row == [status |-> status, envelope |-> job[p].envelope]
<1>1. TypeOK /\ Exclusive /\ job[p].seq \in Sequences
  BY DEF EnvelopeInv, Custody
<1> PICK s \in Sequences : s = job[p].seq
  BY <1>1
<1>2. /\ Leave(p) /\ UNCHANGED <<index, live>>
      /\ \/ book' = book
         \/ book' = [book EXCEPT ![s] = row]
  BY DEF Finish, Append, CutAppend, world
<1>3. \A q \in Process : job'[q] = Idle
  <2>1. job'[p] = Idle /\ \A q \in Others(p) : job'[q] = job[q]
    BY <1>1, <1>2, Left
  <2>2. QED
    BY <1>1, <2>1, Alone DEF Others
<1>4. \A q \in Process : Order(q)'
  BY <1>3 DEF Order, Idle, Releasing, Released
<1>5. CASE book' = book
  BY <1>2, <1>4, <1>5, SameOrder DEF OrderInv
<1>6. CASE book' = [book EXCEPT ![s] = row]
  <2>1. /\ \A t \in Sequences : t # s => book'[t] = book[t]
        /\ book'[s].status = status
    BY <1>1, <1>6 DEF TypeOK
  <2>2. Consumed' = Consumed /\ Authenticated' = Authenticated
    BY <1>2, <2>1 DEF Consumed, Authenticated, Bound
  <2>3. \A t : NotOvertaken(t)' = NotOvertaken(t)
    BY <2>2 DEF NotOvertaken
  <2>4. book[s].status = "RESERVED" => live[s] = None
    BY <1>1 DEF OrderInv, LiveAccounted
  <2>5. Pending' \subseteq Pending
    BY <1>2, <2>1, <2>4
       DEF Pending, SignedAppendRequired, PublishedAppendRequired, Bound
  <2>6. LiveAccounted'
    <3>1. ASSUME NEW t \in Sequences, live[t] # None, t # s
          PROVE  \/ book'[t].status \in {"SIGNED", "PUBLISHED"}
                 \/ book'[t].status = "FAILED" /\ NotOvertaken(t)'
      BY <2>1, <2>3, <3>1 DEF OrderInv, LiveAccounted
    <3>2. ASSUME live[s] # None, status = "FAILED" PROVE NotOvertaken(s)'
      <4>1. s \in Pending
        BY <1>1, <3>2 DEF Pending, PublishedAppendRequired
      <4>2. NotOvertaken(s)
        BY <4>1 DEF OrderInv, PendingIsNewest
      <4>3. QED
        BY <2>3, <4>2
    <3>3. live[s] # None =>
            \/ book'[s].status \in {"SIGNED", "PUBLISHED"}
            \/ book'[s].status = "FAILED" /\ NotOvertaken(s)'
      BY <2>1, <3>2
    <3>4. QED
      BY <1>2, <3>1, <3>3 DEF LiveAccounted
  <2>7. PendingIsNewest'
    <3>1. ASSUME NEW t \in Pending' PROVE Pending' = {t} /\ NotOvertaken(t)'
      BY <2>3, <2>5 DEF OrderInv, PendingIsNewest
    <3>2. QED
      BY <3>1 DEF PendingIsNewest
  <2>8. QED
    BY <1>4, <2>6, <2>7 DEF OrderInv
<1>7. QED
  BY <1>2, <1>5, <1>6

\* A sequence above all others comes into custody, or goes out: it is what is
\* pending from then on, and alone.
LEMMA ShownKeepsOrder ==
  ASSUME EnvelopeInv, OrderInv, NEW p \in Process, Record(p) \/ Promote(p)
  PROVE  OrderInv'
<1>1. /\ TypeOK /\ Exclusive /\ Custody(p) /\ Order(p) /\ job[p].step # "idle"
      /\ book' = book
  BY DEF EnvelopeInv, OrderInv, Record, Promote
<1>2. /\ job[p].seq \in Sequences
      /\ job[p].envelope \in Envelopes /\ job[p].envelope # None
  BY <1>1, EnvelopeAssumption DEF Custody
<1> PICK s \in Sequences : s = job[p].seq
  BY <1>2
<1>3. Pending = {} /\ NotOvertaken(s) /\ Discarded = {}
  BY <1>1 DEF Record, Promote, Order, Releasing
<1>4. /\ \A t \in Sequences : t # s => index'[t] = index[t] /\ live'[t] = live[t]
      /\ \/ book[s].status = "RESERVED" /\ index'[s] # None /\ live' = live
         \/ book[s].status = "SIGNED" /\ live'[s] # None
  BY <1>1, <1>2 DEF Record, Promote, Custody, Releasing, TypeOK
<1>5. Pending' = {s}
  BY <1>1, <1>2, <1>3, <1>4
     DEF Pending, SignedAppendRequired, PublishedAppendRequired, Bound
<1>6. /\ Consumed' = Consumed
      /\ Authenticated' \subseteq Authenticated \cup {s}
  BY <1>1, <1>4 DEF Consumed, Authenticated, Bound
<1>7. NotOvertaken(s)'
  BY <1>3, <1>6, SequenceAssumption DEF NotOvertaken, Sequences
<1>8. LiveAccounted'
  BY <1>1, <1>3, <1>4 DEF OrderInv, LiveAccounted, Discarded
<1>9. PendingIsNewest'
  BY <1>5, <1>7 DEF PendingIsNewest
<1>10. PICK step \in {"recorded", "promoted"} : job' = [job EXCEPT ![p].step = step]
  BY DEF Record, Promote
<1>11. /\ job'[p].step = step /\ job'[p].seq = s
       /\ \A q \in Others(p) : job'[q] = job[q]
  BY <1>1, <1>10, Moved DEF Steps
<1>12. \A q \in Others(p) : job'[q] = Idle
  BY <1>1, <1>11, Alone
<1>13. Order(p)'
  BY <1>5, <1>7, <1>11 DEF Order, Releasing, Released
<1>14. QED
  BY <1>8, <1>9, <1>12, <1>13, OneOrders DEF OrderInv

LEMMA WorkKeepsOrder ==
  ASSUME EnvelopeInv, OrderInv, NEW p \in Process, Work(p)
  PROVE  OrderInv'
<1>1. TypeOK /\ Exclusive /\ Custody(p) /\ Order(p)
  BY DEF EnvelopeInv, OrderInv
<1>2. CASE Record(p) \/ Promote(p)
  BY <1>2, ShownKeepsOrder
<1>3. CASE CreateDraft(p) \/ Upload(p) \/ Verify(p)
  <2>1. /\ job[p].step \in Releasing /\ UNCHANGED <<book, index, live>>
    BY <1>3 DEF CreateDraft, Upload, Verify, Releasing, world
  <2>2. /\ Pending' = Pending /\ \A s \in Sequences : NotOvertaken(s)' = NotOvertaken(s)
        /\ Discarded' = Discarded /\ LiveAccounted' /\ PendingIsNewest'
    BY <2>1, SameOrder
  <2>3. \A q \in Others(p) : job[q] = Idle
    BY <1>1, <2>1, Alone DEF Releasing
  <2>4. CASE Leave(p)
    <3>1. job'[p].step = "idle" /\ \A q \in Others(p) : job'[q] = Idle
      BY <1>1, <2>3, <2>4, Left
    <3>2. Order(p)'
      BY <3>1 DEF Order, Releasing, Released
    <3>3. QED
      BY <2>2, <3>1, <3>2, OneOrders DEF OrderInv
  <2>5. CASE \E step \in Releasing : job' = [job EXCEPT ![p].step = step]
    <3>1. PICK step \in Releasing : job' = [job EXCEPT ![p].step = step]
      BY <2>5
    <3>2. /\ job'[p].step = step /\ job'[p].seq = job[p].seq
          /\ \A q \in Others(p) : job'[q] = job[q]
      BY <1>1, <3>1, Moved DEF Steps, Releasing
    <3>3. job[p].seq \in Sequences
      BY <1>1, <2>1 DEF Custody, Releasing
    <3>4. Order(p)'
      BY <1>1, <2>1, <2>2, <3>2, <3>3 DEF Order, Releasing, Released
    <3>5. QED
      BY <2>2, <2>3, <3>2, <3>4, OneOrders DEF OrderInv
  <2>6. QED
    BY <1>3, <2>4, <2>5 DEF CreateDraft, Upload, Verify, Releasing
<1>4. CASE SignDone(p)
  BY <1>1, <1>4, FinishKeepsOrder DEF SignDone, Custody
<1>5. CASE PublishDone(p)
  BY <1>1, <1>5, FinishKeepsOrder DEF PublishDone, Custody, Released
<1>6. CASE SupersedeDone(p)
  BY <1>1, <1>6, FinishKeepsOrder DEF SupersedeDone, Custody, Order
<1>7. QED
  BY <1>2, <1>3, <1>4, <1>5, <1>6 DEF Work

LEMMA OrderKept ==
  ASSUME EnvelopeInv, OrderInv, [Next]_vars
  PROVE  OrderInv'
<1>1. ASSUME UNCHANGED <<book, index, live, job>> PROVE OrderInv'
  BY <1>1, SameOrder DEF OrderInv, EnvelopeInv, Custody, Order, Releasing, Released
<1>2. ASSUME NEW p \in Process, Bootstrap(p) \/ OpenFails(p) \/ Restart(p) PROVE OrderInv'
  BY <1>1, <1>2 DEF Bootstrap, OpenFails, Restart, world
<1>3. ASSUME NEW p \in Process, Fail(p) PROVE OrderInv'
  <2>1. /\ job[p] # Idle /\ Leave(p) /\ UNCHANGED <<book, index, live>>
        /\ TypeOK /\ Exclusive
    BY <1>3 DEF Fail, world, EnvelopeInv
  <2>2. \A q \in Others(p) : job[q] = Idle
    BY <2>1 DEF Exclusive, Others, Idle
  <2>3. job'[p].step = "idle" /\ \A q \in Others(p) : job'[q] = Idle
    BY <2>1, <2>2, Left
  <2>4. Order(p)'
    BY <2>3 DEF Order, Releasing, Released
  <2>5. QED
    BY <2>1, <2>3, <2>4, SameOrder, OneOrders DEF OrderInv
<1>4. ASSUME NEW s \in Sequences, DeleteDraft(s) PROVE OrderInv'
  BY <1>1, <1>4 DEF DeleteDraft
<1>5. ASSUME NEW p \in Process, Begin(p) PROVE OrderInv'
  BY <1>2, <1>5, BeginsKeepOrder, ReserveKeepsOrder DEF Begin
<1>6. CASE UNCHANGED vars
  BY <1>1, <1>6 DEF vars
<1>7. QED
  BY <1>2, <1>3, <1>4, <1>5, <1>6, WorkKeepsOrder DEF Next

LEMMA OrderInitially == Init => OrderInv
<1> SUFFICES ASSUME Init PROVE OrderInv
  OBVIOUS
<1>1. Pending = {}
  BY DEF Init, Pending, SignedAppendRequired, PublishedAppendRequired
<1>2. LiveAccounted /\ PendingIsNewest
  BY <1>1 DEF Init, LiveAccounted, PendingIsNewest
<1>3. \A p \in Process : Order(p)
  BY DEF Init, Order, Idle, Releasing, Released
<1>4. QED
  BY <1>2, <1>3 DEF OrderInv

\* Only a promotion publishes, and only the newest sequence is promoted.
LEMMA PromotedInOrder ==
  ASSUME EnvelopeInv, OrderInv, [Next]_vars,
         NEW s \in Sequences, live[s] = None, live'[s] # None,
         NEW t \in Sequences, live[t] # None \/ book[t].status # "START"
  PROVE  t <= s
<1>1. live' # live
  OBVIOUS
<1>2. PICK p \in Process : Promote(p)
  <2>1. ASSUME NEW p \in Process, Begin(p) PROVE live' = live
    BY <2>1 DEF Begin, Bootstrap, Reserve, SignBegin, SignRecovers, PublishBegin,
                PublishRecovers, MayPublish, SupersedeBegin, world
  <2>2. ASSUME NEW p \in Process, Work(p) PROVE live' = live \/ Promote(p)
    BY <2>2 DEF Work, Record, SignDone, CreateDraft, Upload, Verify, PublishDone,
                SupersedeDone, Finish, world
  <2>3. ASSUME NEW p \in Process, Fail(p) \/ OpenFails(p) \/ Restart(p)
        PROVE  live' = live
    BY <2>3 DEF Fail, OpenFails, Restart, world
  <2>4. QED
    BY <1>1, <2>1, <2>2, <2>3 DEF Next, vars, DeleteDraft
<1>3. NotOvertaken(job[p].seq)
  BY <1>2 DEF Promote, OrderInv, Order, Releasing
<1>4. s = job[p].seq
  BY <1>2 DEF Promote, EnvelopeInv, TypeOK
<1>5. t \in Consumed \cup Authenticated
  BY DEF Consumed, Authenticated, Bound
<1>6. QED
  BY <1>3, <1>4, <1>5 DEF NotOvertaken

\* Only the end of a supersession records a failure, and one that was decided
\* over the published releases has found none for its sequence.
LEMMA DiscardedUnseen ==
  ASSUME EnvelopeInv, OrderInv, [Next]_vars,
         NEW s \in Sequences, live[s] # None,
         book[s].status # "FAILED", book'[s].status = "FAILED"
  PROVE  \E p \in Process : job[p].step = "discard" /\ job[p].seq = s
<1>1. book' # book /\ TypeOK
  BY DEF EnvelopeInv
<1>2. PICK p \in Process : SupersedeDone(p)
  <2>1. ASSUME NEW p \in Process, Reserve(p) PROVE FALSE
    <3>1. book' = [book EXCEPT ![NextUnused] =
                     [status |-> "RESERVED", envelope |-> None]]
      BY <1>1, <2>1 DEF Reserve, Append, CutAppend
    <3> HIDE DEF NextUnused
    <3>2. QED
      BY <1>1, <3>1 DEF TypeOK
  <2>2. ASSUME NEW p \in Process, Begin(p), ~Reserve(p) PROVE book' = book
    BY <2>2 DEF Begin, Bootstrap, SignBegin, SignRecovers, PublishBegin,
                PublishRecovers, MayPublish, SupersedeBegin
  <2>3. ASSUME NEW p \in Process, SignDone(p) \/ PublishDone(p) PROVE FALSE
    <3>1. PICK status \in {"SIGNED", "PUBLISHED"} :
            book' = [book EXCEPT ![job[p].seq] =
                       [status |-> status, envelope |-> job[p].envelope]]
      BY <1>1, <2>3 DEF SignDone, PublishDone, Finish, Append, CutAppend
    <3>2. QED
      BY <1>1, <3>1 DEF TypeOK
  <2>4. ASSUME NEW p \in Process, Work(p), ~SignDone(p), ~PublishDone(p)
        PROVE  book' = book \/ SupersedeDone(p)
    BY <2>4 DEF Work, Record, CreateDraft, Upload, Verify, Promote
  <2>5. ASSUME NEW p \in Process, Fail(p) \/ OpenFails(p) \/ Restart(p)
        PROVE  book' = book
    BY <2>5 DEF Fail, OpenFails, Restart
  <2>6. QED
    BY <1>1, <2>1, <2>2, <2>3, <2>4, <2>5 DEF Next, vars, DeleteDraft
<1>3. s = job[p].seq
  BY <1>1, <1>2 DEF SupersedeDone, Finish, Append, CutAppend, TypeOK
<1>4. job[p].step # "supersede"
  BY <1>3 DEF OrderInv, Order
<1>5. QED
  BY <1>2, <1>3, <1>4 DEF SupersedeDone

-----------------------------------------------------------------------------
(* What the specification promises, whatever view a supersession is given. *)

LEMMA OrderHolds == Spec => [](EnvelopeInv /\ OrderInv)
<1>1. Init => EnvelopeInv /\ OrderInv
  BY EnvelopesInitially, OrderInitially
<1>2. EnvelopeInv /\ OrderInv /\ [Next]_vars => (EnvelopeInv /\ OrderInv)'
  BY EnvelopesKept, OrderKept
<1>3. QED
  BY <1>1, <1>2, PTL DEF Spec

\* Ledger and repository agree at every moment: a published release is recorded
\* signed or published, or is the newest of all and was discarded unseen; and
\* what a stopped controller left half done is the newest release.
THEOREM LedgerHolds == Spec => []LedgerOK
<1>1. EnvelopeInv /\ OrderInv => LedgerOK
  BY DEF EnvelopeInv, OrderInv, LedgerOK
<1>2. QED
  BY <1>1, OrderHolds, PTL

\* A supersession that is decided over the published releases never records one
\* of them as failed, whatever it races with.
THEOREM SupersessionSees == Spec => OnlyUnseenDiscarded
<1> DEFINE Unseen ==
  \A s \in Sequences :
    live[s] # None /\ book[s].status # "FAILED" /\ book'[s].status = "FAILED" =>
      \E p \in Process : job[p].step = "discard" /\ job[p].seq = s
<1>1. EnvelopeInv /\ OrderInv /\ [Next]_vars => Unseen
  BY DiscardedUnseen
<1>2. EnvelopeInv /\ OrderInv /\ [Next]_vars => [Unseen]_vars
  BY <1>1
<1>3. Spec => [][Unseen]_vars
  BY <1>2, OrderHolds, PTL DEF Spec
<1>4. QED
  BY <1>3 DEF OnlyUnseenDiscarded

\* Releases go out in the order of their sequences.
THEOREM ReleasesInOrder == Spec => LiveInOrder
<1> DEFINE Newest ==
  \A s \in Sequences : live[s] = None /\ live'[s] # None =>
    \A t \in Sequences : live[t] # None \/ book[t].status # "START" => t <= s
<1>1. EnvelopeInv /\ OrderInv /\ [Next]_vars => Newest
  BY PromotedInOrder
<1>2. EnvelopeInv /\ OrderInv /\ [Next]_vars => [Newest]_vars
  BY <1>1
<1>3. Spec => [][Newest]_vars
  BY <1>2, OrderHolds, PTL DEF Spec
<1>4. QED
  BY <1>3 DEF LiveInOrder

\* A published release came out above all others and is never recorded failed
\* by a command that was told of it.
THEOREM LiveIsHonoured == Spec => LiveHonoured
BY ReleasesInOrder, SupersessionSees DEF LiveHonoured

=============================================================================
