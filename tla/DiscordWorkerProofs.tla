-------------------------- MODULE DiscordWorkerProofs --------------------------
(***************************************************************************)
(* What holds of DiscordWorker under Spec, for any number of messages,     *)
(* packets, faults, kills, deletions and changes of health.                *)
(***************************************************************************)
EXTENDS DiscordWorker, FiniteSetTheorems, TLAPS

(***************************************************************************)
(* The requests under way and the ids the processes know.                  *)
(***************************************************************************)
Creating(p) == call[p] # None /\ call[p].kind = "create"
CreateStored(p) == Creating(p) /\ call[p].stored
Alerting == call["worker"] # None /\ call["worker"].kind = "alert"
AlertStored == Alerting /\ call["worker"].stored
SummaryStored == /\ call["worker"] # None /\ call["worker"].kind = "summary"
                 /\ call["worker"].stored

\* What each process asks for fits what it knows.
WorkerCall ==
  ~Free("worker") =>
    /\ Up
    /\ call["worker"].kind = "create" =>
         worker.id = None /\ call["worker"].body \in Statuses
    /\ call["worker"].kind = "edit" =>
         /\ worker.id # None /\ call["worker"].id = worker.id
         /\ call["worker"].body \in Statuses
    /\ call["worker"].kind = "alert" =>
         /\ worker.confirmed # "UNKNOWN"
         /\ call["worker"].body = IF worker.confirmed = "DEGRADED"
                                  THEN "DEGRADED" ELSE "RECOVERY"
    /\ call["worker"].kind = "summary" => call["worker"].size = worker.bytes

MaintCall ==
  /\ ~Free("maint") <=> maint = "asking"
  /\ ~Free("maint") =>
       /\ call["maint"].kind \in {"create", "edit"}
       /\ call["maint"].body = "MAINTENANCE"
       /\ call["maint"].kind = "edit" =>
            loaded.id # None /\ call["maint"].id = loaded.id

\* A stopped unit does not run, and the file is then the controller's.
StoppedInv ==
  /\ stopped => ~Up
  /\ stopped /\ maint = "asking" => disk.id \in {None, loaded.id}

CallInv == WorkerCall /\ MaintCall /\ StoppedInv

\* Every id in use names a message that was born.
Born(i) == i # None => channel[i] # "free"
BornInv ==
  /\ Born(disk.id) /\ Born(loaded.id) /\ (Up => Born(worker.id))
  /\ \A p \in Processes : ~Free(p) => Born(call[p].id)

\* The id of a message just stored is known to nobody else.
UniqueInv ==
  \A p \in Processes : CreateStored(p) =>
    /\ call[p].id # None /\ call[p].id # disk.id
    /\ Up => call[p].id # worker.id
    /\ \A q \in Processes \ {p} : CreateStored(q) => call[q].id # call[p].id

IdsInv == BornInv /\ UniqueInv

(***************************************************************************)
(* The status messages.                                                    *)
(***************************************************************************)
Shown == {m \in Messages : channel[m] \notin {"free", "deleted"}}
Seen(messages, i) == i # None /\ messages[i] \notin {"free", "deleted"}
Visible(i) == Seen(channel, i)
One(b) == IF b THEN 1 ELSE 0

\* The worker will post a message, or would after a restart.
WorkerOwes ==
  IF ~Up THEN ~Visible(disk.id)
  ELSE IF CreateStored("worker") THEN ~Visible(call["worker"].id)
  ELSE ~Visible(worker.id) \/ ~Visible(disk.id)

\* The controller may, beside a worker that it could not stop.
Contended == maint \in {"publish", "asking"} /\ ~stopped
MaintOwes == ~(CreateStored("maint") /\ Visible(call["maint"].id))

Owed == IF stopped /\ Creating("maint") THEN One(MaintOwes)
        ELSE One(WorkerOwes) + One(Contended /\ MaintOwes)

CountInv == Cardinality(Shown) + Owed <= 1 + used.faults

(***************************************************************************)
(* The packets and the alerts.                                             *)
(***************************************************************************)
\* No window counts packets that did not pass.
WindowInv ==
  /\ disk.bytes <= traffic /\ loaded.bytes <= traffic
  /\ Up => worker.bytes <= traffic

\* Without a fault, the controller works alone on the file it has read.
Alone ==
  used.faults = 0 =>
    /\ maint \in {"publish", "asking"} => stopped
    /\ maint = "asking" => loaded = disk

\* Without a fault, neither window reaches into a summary.
Counted ==
  used.faults = 0 =>
    /\ reported <= traffic
    /\ ~SummaryStored =>
         /\ reported + disk.bytes <= traffic
         /\ Up => reported + worker.bytes <= traffic

FaultlessInv == Alone /\ Counted

\* The alert status is the confirmed one, and is known once it was sampled.
StatusInv ==
  /\ disk.last = disk.confirmed /\ loaded.last = loaded.confirmed
  /\ Up => /\ worker.last = worker.confirmed
           /\ worker.init <=> worker.confirmed # "UNKNOWN"

Matches(status) ==
  told # "none" => /\ status # "UNKNOWN"
                   /\ told = "DEGRADED" <=> status = "DEGRADED"

\* If nothing failed, file and memory follow the alerts.
AlertInv ==
  used.faults = 0 /\ used.refused = 0 =>
    /\ AlertStored \/ Matches(disk.confirmed)
    /\ Up /\ (~Alerting \/ AlertStored) => Matches(worker.confirmed)

WorkerInv == TypeOK /\ CallInv /\ IdsInv /\ CountInv /\ WindowInv /\ FaultlessInv
             /\ StatusInv /\ AlertInv


(***************************************************************************)
(* Types: the budgets, the file, the requests.                             *)
(***************************************************************************)
LEMMA Numbers ==
  ASSUME TypeOK
  PROVE  /\ used \in Budgets /\ used.faults \in Nat /\ used.refused \in Nat
         /\ traffic \in Nat /\ reported \in Nat
         /\ disk \in Files /\ disk.bytes \in Nat
         /\ loaded \in Files /\ loaded.bytes \in Nat
         /\ Up => worker \in Memories /\ worker.bytes \in Nat
         /\ MaxFaults \in Nat /\ MaxRefused \in Nat /\ MaxTraffic \in Nat
  BY WorkerAssumption DEF TypeOK, Budgets, Files, Memories, Up

\* What a step costs.
Costs(spent, faults, refused) ==
  /\ spent \in Budgets
  /\ spent.faults = used.faults + faults
  /\ spent.refused = used.refused + refused

LEMMA SpendCosts ==
  ASSUME TypeOK
  PROVE  /\ Costs(used, 0, 0)
         /\ Spent("faults", MaxFaults) => Costs(Spend("faults"), 1, 0)
         /\ Spent("refused", MaxRefused) => Costs(Spend("refused"), 0, 1)
         /\ Spent("kills", MaxKills) => Costs(Spend("kills"), 0, 0)
         /\ Spent("deleted", MaxDeleted) => Costs(Spend("deleted"), 0, 0)
         /\ Spent("flips", MaxFlips) => Costs(Spend("flips"), 0, 0)
<1>. USE WorkerAssumption DEF TypeOK, Costs, Budgets
<1>1. Costs(used, 0, 0)
  OBVIOUS
<1>2. Spent("faults", MaxFaults) => Costs(Spend("faults"), 1, 0)
  BY DEF Spent, Spend
<1>3. Spent("refused", MaxRefused) => Costs(Spend("refused"), 0, 1)
  BY DEF Spent, Spend
<1>4. Spent("kills", MaxKills) => Costs(Spend("kills"), 0, 0)
  BY DEF Spent, Spend
<1>5. Spent("deleted", MaxDeleted) => Costs(Spend("deleted"), 0, 0)
  BY DEF Spent, Spend
<1>6. Spent("flips", MaxFlips) => Costs(Spend("flips"), 0, 0)
  BY DEF Spent, Spend
<1> QED BY <1>1, <1>2, <1>3, <1>4, <1>5, <1>6

\* A save keeps the new state or pays for keeping the old one.
LEMMA SaveCosts ==
  ASSUME TypeOK, NEW file, NEW spent, NEW f \in Nat, NEW r \in Nat,
         Costs(spent, f, r), Save(file, spent)
  PROVE  \/ disk' = file /\ Costs(used', f, r)
         \/ disk' = disk /\ Costs(used', f + 1, r)
<1>1. CASE disk' = file /\ used' = spent
  BY <1>1
<1>2. CASE /\ spent.faults < MaxFaults
           /\ disk' = disk /\ used' = [spent EXCEPT !.faults = @ + 1]
  <2>1. spent \in Budgets /\ spent.faults = used.faults + f
        /\ spent.refused = used.refused + r
    BY DEF Costs
  <2>2. used' \in Budgets /\ used'.faults = spent.faults + 1
        /\ used'.refused = spent.refused
    BY <1>2, <2>1, WorkerAssumption DEF Budgets
  <2>3. spent.faults + 1 = used.faults + (f + 1)
    BY <2>1, Numbers
  <2> QED BY <1>2, <2>1, <2>2, <2>3 DEF Costs
<1> QED BY <1>1, <1>2 DEF Save

\* A failure is refused before Discord stored anything, or a lost answer.
LEMMA FailureCosts ==
  ASSUME TypeOK, NEW p \in Processes, ~Free(p), NEW spent \in Failures(p)
  PROVE  \/ ~call[p].stored /\ Costs(spent, 0, 1)
         \/ call[p].stored /\ Costs(spent, 1, 0)
BY SpendCosts DEF Failures, Fails

\* Both costs are counted in natural numbers.
LEMMA CostSum ==
  ASSUME TypeOK, NEW spent, NEW f \in Nat, NEW r \in Nat, Costs(spent, f, r)
  PROVE  /\ spent.faults = 0 => f = 0 /\ used.faults = 0
         /\ spent.refused = 0 => r = 0 /\ used.refused = 0
         /\ spent.faults + spent.refused = 0 =>
              f = 0 /\ r = 0 /\ used.faults = 0 /\ used.refused = 0
         /\ spent.faults \in Nat /\ spent.refused \in Nat
<1>. DEFINE u == used.faults
            v == used.refused
            s == spent.faults
            t == spent.refused
<1>1. u \in Nat /\ v \in Nat /\ s = u + f /\ t = v + r
  BY Numbers DEF Costs
<1>. HIDE DEF u, v, s, t
<1>2. /\ s = 0 => f = 0 /\ u = 0
      /\ t = 0 => r = 0 /\ v = 0
      /\ s + t = 0 => f = 0 /\ r = 0 /\ u = 0 /\ v = 0
      /\ s \in Nat /\ t \in Nat
  BY <1>1
<1> QED BY <1>2 DEF u, v, s, t

LEMMA Calls ==
  ASSUME TypeOK, NEW p \in Processes
  PROVE  /\ ~Free(p) => call[p] \in Requests
         /\ ~Free(p) => call[p].id \in Ids /\ call[p].stored \in BOOLEAN
                        /\ call[p].kind \in {"alert", "create", "edit", "summary"}
BY DEF TypeOK, Free, Requests

LEMMA BeginFacts ==
  ASSUME TypeOK, NEW p \in Processes, NEW request, Begin(p, request)
  PROVE  /\ call'[p] = request
         /\ \A q \in Processes : q # p => call'[q] = call[q]
         /\ request \in Requests \cup {None} =>
              call' \in [Processes -> Requests \cup {None}]
BY DEF TypeOK, Begin

Kinds == {"alert", "create", "edit", "summary"}
Bodies == Contents \cup {"RECOVERY"}

LEMMA RequestType ==
  \A kind \in Kinds, body \in Bodies, size \in 0..MaxTraffic, id \in Ids :
    Request(kind, body, size, id) \in Requests
BY DEF Request, Requests, Kinds, Bodies

LEMMA RequestFields ==
  \A kind, body, size, id :
    /\ Request(kind, body, size, id).kind = kind
    /\ Request(kind, body, size, id).body = body
    /\ Request(kind, body, size, id).size = size
    /\ Request(kind, body, size, id).id = id
    /\ Request(kind, body, size, id).stored = FALSE
BY DEF Request

LEMMA RequestsAreNotNone == \A r \in Requests : r # None
BY NoneAssumption

LEMMA WorkerFacts ==
  ASSUME TypeOK, Up
  PROVE  /\ worker \in Memories /\ Image(worker) \in Files
         /\ Image(worker).id = worker.id /\ Image(worker).bytes = worker.bytes
         /\ Image(worker).confirmed = worker.confirmed
         /\ Image(worker).last = worker.last
         /\ worker.id \in Ids /\ worker.bytes \in 0..MaxTraffic
         /\ worker.confirmed \in Statuses /\ worker.last \in Statuses
BY DEF TypeOK, Up, Image, Memories, Files

LEMMA FreshType == FreshState \in Files /\ FreshState.id = None /\ FreshState.bytes = 0
                   /\ FreshState.last = "UNKNOWN" /\ FreshState.confirmed = "UNKNOWN"
BY WorkerAssumption DEF FreshState, Files, Ids, Statuses

LEMMA LoadedType ==
  ASSUME NEW file \in Files
  PROVE  /\ Loaded(file) \in Memories /\ Loaded(file) # None
         /\ Loaded(file).id = file.id /\ Loaded(file).bytes = file.bytes
         /\ Loaded(file).confirmed = file.confirmed /\ Loaded(file).last = file.last
         /\ Loaded(file).init = (file.confirmed # "UNKNOWN")
<1>1. Loaded(file) \in Memories
  BY DEF Loaded, Memories, Files
<1>2. Loaded(file) # None
  BY <1>1, NoneAssumption
<1> QED BY <1>1, <1>2 DEF Loaded

(***************************************************************************)
(* What the worker's own steps do to its memory.                           *)
(***************************************************************************)
LEMMA EvaluatedType == Evaluated \in {"ONLINE", "DEGRADED"}
BY DEF Evaluated

\* The worker keeps all it knows but its samples.
LEMMA CountingFacts ==
  ASSUME TypeOK, Unchanged \/ FirstSample
  PROVE  /\ worker' \in Memories /\ worker'.id = worker.id
         /\ worker'.bytes = worker.bytes /\ worker'.confirmed = worker.confirmed
         /\ worker'.last = worker.last /\ worker'.init = worker.init
<1>1. worker \in Memories /\ 0 \in 0..1 /\ 1 \in 0..1
  BY WorkerFacts DEF Unchanged, FirstSample, Running
<1>2. PICK n \in {0, 1} : worker' = [SampledWorker EXCEPT !.pending = n]
  BY DEF Unchanged, FirstSample
<1> QED BY <1>1, <1>2 DEF SampledWorker, Memories

LEMMA BaselineFacts ==
  ASSUME TypeOK, Baseline
  PROVE  /\ worker' \in Memories /\ worker'.id = worker.id
         /\ worker'.bytes = worker.bytes /\ worker'.confirmed = Evaluated
         /\ worker'.last = Evaluated /\ worker'.init = TRUE
<1>1. worker \in Memories
  BY WorkerFacts DEF Baseline, Running
<1>2. Evaluated \in Statuses
  BY EvaluatedType DEF Statuses
<1> QED BY <1>1, <1>2 DEF Baseline, SampledWorker, Memories

LEMMA ConfirmedFacts ==
  ASSUME TypeOK, Up, NEW w \in {ConfirmedWorker, [ConfirmedWorker EXCEPT !.last = Evaluated]}
  PROVE  /\ w \in Memories /\ w.id = worker.id /\ w.bytes = worker.bytes
         /\ w.confirmed = Evaluated /\ w.init = worker.init
         /\ w.last \in {worker.last, Evaluated}
         /\ w = [ConfirmedWorker EXCEPT !.last = Evaluated] => w.last = Evaluated
         /\ w = ConfirmedWorker => w.last = worker.last
<1>1. worker \in Memories
  BY WorkerFacts
<1>2. Evaluated \in Statuses
  BY EvaluatedType DEF Statuses
<1>3. 0 \in 0..1
  OBVIOUS
<1>4. /\ ConfirmedWorker \in Memories
      /\ ConfirmedWorker.id = worker.id /\ ConfirmedWorker.bytes = worker.bytes
      /\ ConfirmedWorker.confirmed = Evaluated /\ ConfirmedWorker.init = worker.init
      /\ ConfirmedWorker.last = worker.last
  BY <1>1, <1>2, <1>3 DEF ConfirmedWorker, SampledWorker, Memories
<1>. DEFINE v == [ConfirmedWorker EXCEPT !.last = Evaluated]
<1>5. /\ v \in Memories
      /\ v.id = worker.id /\ v.bytes = worker.bytes
      /\ v.confirmed = Evaluated /\ v.init = worker.init
      /\ v.last = Evaluated
  BY <1>2, <1>4 DEF Memories
<1>6. w = ConfirmedWorker \/ w = v
  OBVIOUS
<1>. HIDE DEF v
<1>7. v = ConfirmedWorker => worker.last = Evaluated
  BY <1>4, <1>5
<1> QED BY <1>4, <1>5, <1>6, <1>7 DEF v

LEMMA IdFacts ==
  ASSUME TypeOK, Up, NEW i \in Ids, worker' = [worker EXCEPT !.id = i]
  PROVE  /\ worker' \in Memories /\ worker' # None /\ Image(worker') \in Files
         /\ worker'.id = i /\ worker'.bytes = worker.bytes
         /\ worker'.confirmed = worker.confirmed /\ worker'.last = worker.last
         /\ worker'.init = worker.init
         /\ Image(worker').id = i /\ Image(worker').bytes = worker.bytes
         /\ Image(worker').confirmed = worker.confirmed
         /\ Image(worker').last = worker.last
<1>1. worker \in Memories
  BY WorkerFacts
<1>2. worker' \in Memories /\ worker'.id = i /\ worker'.bytes = worker.bytes
      /\ worker'.confirmed = worker.confirmed /\ worker'.last = worker.last
      /\ worker'.init = worker.init
  BY <1>1 DEF Memories
<1> QED BY <1>2, NoneAssumption DEF Image, Memories, Files

LEMMA BytesFacts ==
  ASSUME TypeOK, Up, NEW n \in 0..MaxTraffic, worker' = [worker EXCEPT !.bytes = n]
  PROVE  /\ worker' \in Memories /\ worker' # None /\ Image(worker') \in Files
         /\ worker'.id = worker.id /\ worker'.bytes = n
         /\ worker'.confirmed = worker.confirmed /\ worker'.last = worker.last
         /\ worker'.init = worker.init
         /\ Image(worker').id = worker.id /\ Image(worker').bytes = n
         /\ Image(worker').confirmed = worker.confirmed
         /\ Image(worker').last = worker.last
<1>1. worker \in Memories
  BY WorkerFacts
<1>2. worker' \in Memories /\ worker'.id = worker.id /\ worker'.bytes = n
      /\ worker'.confirmed = worker.confirmed /\ worker'.last = worker.last
      /\ worker'.init = worker.init
  BY <1>1 DEF Memories
<1> QED BY <1>2, NoneAssumption DEF Image, Memories, Files

(***************************************************************************)
(* The outcomes of the steps that save or that may fail.                   *)
(***************************************************************************)
\* A step that saves `file' and spends f and r: an old file is a fault.
Saves(file, f, r) ==
  /\ f \in Nat /\ r \in Nat /\ Costs(used', f, r)
  /\ disk' \in {disk, file} /\ (f = 0 => disk' = file)

LEMMA SaveOutcome ==
  ASSUME TypeOK, NEW file, Save(file, used)
  PROVE  \E f \in {0, 1} : Saves(file, f, 0) /\ (f = 0 \/ disk' = disk)
<1>1. Costs(used, 0, 0)
  BY SpendCosts
<1>2. \/ disk' = file /\ Costs(used', 0, 0)
      \/ disk' = disk /\ Costs(used', 1, 0)
  BY <1>1, SaveCosts
<1> QED BY <1>2 DEF Saves

\* A message that is sent without a look at the answer: AlertDone, SummaryDone.
LEMMA SentOutcome ==
  ASSUME TypeOK, NEW file, ~Free("worker"),
         \E spent \in {used} \cup Failures("worker") :
            /\ spent = used => Succeeds("worker")
            /\ Save(file, spent)
  PROVE  \E f, r : Saves(file, f, r) /\ (f = 0 /\ r = 0 => call["worker"].stored)
<1>1. PICK spent \in {used} \cup Failures("worker") :
        /\ spent = used => Succeeds("worker")
        /\ Save(file, spent)
  OBVIOUS
<1>2. "worker" \in Processes
  BY DEF Processes
<1>3. CASE spent = used
  <2>1. PICK f \in {0, 1} : Saves(file, f, 0)
    BY <1>1, <1>3, SaveOutcome
  <2> QED BY <1>1, <1>3, <2>1 DEF Succeeds
<1>4. CASE spent \in Failures("worker")
  <2>1. PICK f \in {0, 1}, r \in {0, 1} :
          Costs(spent, f, r) /\ (f = 0 /\ r = 0 => call["worker"].stored)
    BY <1>2, <1>4, FailureCosts
  <2>2. \/ disk' = file /\ Costs(used', f, r)
        \/ disk' = disk /\ Costs(used', f + 1, r)
    BY <1>1, <2>1, SaveCosts
  <2>3. CASE disk' = file /\ Costs(used', f, r)
    BY <2>1, <2>3 DEF Saves
  <2>4. CASE disk' = disk /\ Costs(used', f + 1, r)
    <3>1. f + 1 \in Nat /\ f + 1 # 0
      OBVIOUS
    <3>2. Saves(file, f + 1, r)
      BY <2>4, <3>1 DEF Saves
    <3> QED BY <3>1, <3>2
  <2> QED BY <2>2, <2>3, <2>4
<1> QED BY <1>1, <1>3, <1>4

LEMMA AlertDoneOutcome ==
  ASSUME TypeOK, AlertDone
  PROVE  \E f, r : /\ Saves(Image(worker), f, r)
                   /\ f = 0 /\ r = 0 => call["worker"].stored
BY SentOutcome DEF AlertDone

LEMMA SummaryDoneOutcome ==
  ASSUME TypeOK, SummaryDone
  PROVE  \E f, r : /\ Saves(Image(worker'), f, r)
                   /\ f = 0 /\ r = 0 => call["worker"].stored
BY SentOutcome DEF SummaryDone

LEMMA DiesOutcome ==
  ASSUME TypeOK,
         \/ ~Posting /\ Spent("kills", MaxKills) /\ Dies(Spend("kills"))
         \/ Posting /\ Spent("faults", MaxFaults) /\ Dies(Spend("faults"))
         \/ ~Posting /\ Dies(used)
  PROVE  /\ worker' = None /\ Begin("worker", None)
         /\ \E f \in {0, 1} : Costs(used', f, 0) /\ (f = 0 => ~Posting)
BY SpendCosts DEF Dies

(***************************************************************************)
(* The types are kept.                                                     *)
(***************************************************************************)
LEMMA CallsFree ==
  ASSUME TypeOK, NEW p \in Processes, Begin(p, None)
  PROVE  /\ call' \in [Processes -> Requests \cup {None}] /\ call'[p] = None
         /\ \A q \in Processes : q # p => call'[q] = call[q]
BY BeginFacts

\* What a step that neither stores, deletes, posts nor reboots leaves to be shown.
LEMMA TypeKept ==
  ASSUME TypeOK, UNCHANGED <<healthy, channel, told, stopped, maint, traffic, reported>>,
         disk' \in Files, loaded' \in Files, worker' \in Memories \cup {None},
         call' \in [Processes -> Requests \cup {None}],
         recent' \in BOOLEAN, used' \in Budgets
  PROVE  TypeOK'
BY DEF TypeOK

LEMMA StoreType ==
  ASSUME TypeOK, CallInv, NEW p \in Processes, Store(p)
  PROVE  TypeOK'
<1>. DEFINE c == call[p]
<1>1. c \in Requests /\ call \in [Processes -> Requests \cup {None}]
  BY Calls DEF Store, TypeOK
<1>2. CASE c.kind = "create"
  <2>1. PICK m \in NewMessages :
          /\ channel' = [channel EXCEPT ![m] = c.body]
          /\ call' = [call EXCEPT ![p].stored = TRUE, ![p].id = m]
          /\ UNCHANGED <<told, reported>>
    BY <1>2 DEF Store
  <2>2. c.body \in Contents
    BY <1>2 DEF Store, CallInv, WorkerCall, MaintCall, Contents, Free, Processes
  <2>3. m \in Messages /\ m \in Ids
    BY DEF NewMessages, Ids
  <2>4. [c EXCEPT !.stored = TRUE, !.id = m] \in Requests
    BY <1>1, <2>3 DEF Requests
  <2>5. call' = [call EXCEPT ![p] = [c EXCEPT !.stored = TRUE, !.id = m]]
    BY <1>1, <2>1 DEF TypeOK
  <2>6. channel' \in [Messages -> Contents]
    BY <2>1, <2>2, <2>3 DEF TypeOK
  <2>7. call' \in [Processes -> Requests \cup {None}]
    BY <1>1, <2>4, <2>5
  <2>8. UNCHANGED <<healthy, disk, loaded, worker, stopped, maint, traffic, recent,
                    used>>
    BY DEF Store, fileVars
  <2>9. UNCHANGED <<told, reported>>
    BY <2>1
  <2>. HIDE DEF c
  <2> QED BY <2>6, <2>7, <2>8, <2>9 DEF TypeOK
<1>3. CASE c.kind # "create"
  <2>1. call' = [call EXCEPT ![p].stored = TRUE]
    BY <1>1, <1>3 DEF Store, Requests
  <2>2. call' = [call EXCEPT ![p] = [c EXCEPT !.stored = TRUE]]
    BY <1>1, <2>1
  <2>3. [c EXCEPT !.stored = TRUE] \in Requests
    BY <1>1 DEF Requests
  <2>4. call' \in [Processes -> Requests \cup {None}]
    BY <1>1, <2>2, <2>3
  <2>5. CASE c.kind = "edit"
    <3>1. c.body \in Contents
      BY <2>5 DEF Store, CallInv, WorkerCall, MaintCall, Contents, Free, Processes
    <3>2. channel' \in [Messages -> Contents]
      BY <2>5, <3>1 DEF Store, TypeOK
    <3> QED BY <2>4, <2>5, <3>2 DEF Store, TypeOK, fileVars
  <2>6. CASE c.kind = "alert"
    <3>1. c.body \in {"DEGRADED", "RECOVERY"}
      BY <2>6 DEF Store, CallInv, WorkerCall, MaintCall, Free, Processes
    <3> QED BY <2>4, <2>6, <3>1 DEF Store, TypeOK, fileVars
  <2>7. CASE c.kind = "summary"
    <3>1. reported' \in Nat
      BY <1>1, <2>7, WorkerAssumption DEF Store, TypeOK, Requests
    <3> QED BY <2>4, <2>7, <3>1 DEF Store, TypeOK, fileVars
  <2> QED BY <1>1, <1>3, <2>5, <2>6, <2>7 DEF Requests
<1> QED BY <1>2, <1>3

LEMMA RetryFacts ==
  ASSUME TypeOK, NEW p \in Processes, Retry(p)
  PROVE  /\ call' \in [Processes -> Requests \cup {None}]
         /\ ~Free(p) /\ call'[p] \in Requests
         /\ call'[p].kind = call[p].kind /\ call'[p].body = call[p].body
         /\ call'[p].size = call[p].size /\ call'[p].id = call[p].id
         /\ call'[p].stored = FALSE
         /\ \A q \in Processes : q # p => call'[q] = call[q]
         /\ \/ ~call[p].stored /\ Costs(used', 0, 1)
            \/ call[p].stored /\ Costs(used', 1, 0)
<1>1. call[p] \in Requests /\ call \in [Processes -> Requests \cup {None}]
  BY Calls DEF Retry, TypeOK
<1>2. call' = [call EXCEPT ![p] = [call[p] EXCEPT !.try = 2, !.stored = FALSE]]
  BY <1>1 DEF Retry
<1>3. 2 \in 1..2
  OBVIOUS
<1>4. [call[p] EXCEPT !.try = 2, !.stored = FALSE] \in Requests
  BY <1>1, <1>3 DEF Requests
<1>5. call' \in [Processes -> Requests \cup {None}]
  BY <1>1, <1>2, <1>4
<1>6. /\ call'[p] = [call[p] EXCEPT !.try = 2, !.stored = FALSE]
      /\ \A q \in Processes : q # p => call'[q] = call[q]
  BY <1>1, <1>2
<1>7. \/ ~call[p].stored /\ Costs(used', 0, 1)
      \/ call[p].stored /\ Costs(used', 1, 0)
  BY SpendCosts DEF Retry
<1> QED BY <1>1, <1>4, <1>5, <1>6, <1>7 DEF Retry, Requests

LEMMA BodyFacts ==
  /\ \A s \in Statuses : s \in Bodies /\ s \in Contents
  /\ "MAINTENANCE" \in Bodies /\ "free" \in Bodies /\ "deleted" \in Bodies
  /\ "DEGRADED" \in Bodies /\ "RECOVERY" \in Bodies
  /\ \A c \in Contents : c \in Bodies
  /\ "alert" \in Kinds /\ "create" \in Kinds /\ "edit" \in Kinds
  /\ "summary" \in Kinds
  /\ 0 \in 0..MaxTraffic /\ None \in Ids
BY WorkerAssumption DEF Contents, Statuses, Ids, Kinds, Bodies

\* The requests the two processes begin.
LEMMA AlertRequest ==
  ASSUME NEW alert \in {"DEGRADED", "RECOVERY"}
  PROVE  LET r == Request("alert", alert, 0, None) IN
           r \in Requests /\ r # None /\ r.kind = "alert" /\ r.body = alert
           /\ r.stored = FALSE /\ r.id = None
<1>1. /\ alert \in Bodies /\ "alert" \in Kinds /\ 0 \in 0..MaxTraffic
      /\ None \in Ids
  BY BodyFacts
<1>2. Request("alert", alert, 0, None) \in Requests
  BY <1>1, RequestType
<1> QED BY <1>2, RequestFields, RequestsAreNotNone

LEMMA StatusRequest ==
  ASSUME TypeOK, StatusTick
  PROVE  /\ call'["worker"] \in Requests /\ call'["worker"] # None
         /\ call'["maint"] = call["maint"]
         /\ call' \in [Processes -> Requests \cup {None}]
         /\ call'["worker"].stored = FALSE
         /\ call'["worker"].body = worker.confirmed
         /\ call'["worker"].id = worker.id
         /\ call'["worker"].kind = IF worker.id = None THEN "create" ELSE "edit"
<1>. DEFINE r == Request("create", worker.confirmed, 0, None)
            s == Request("edit", worker.confirmed, 0, worker.id)
<1>0. /\ "create" \in Kinds /\ "edit" \in Kinds /\ 0 \in 0..MaxTraffic
      /\ None \in Ids
  BY BodyFacts
<1>1. /\ worker.confirmed \in Bodies /\ worker.id \in Ids
  BY WorkerFacts, BodyFacts DEF StatusTick, Running
<1>2. /\ r \in Requests /\ r # None /\ r.stored = FALSE /\ r.kind = "create"
      /\ r.body = worker.confirmed /\ r.id = None
  BY <1>1, <1>0, RequestType, RequestFields, RequestsAreNotNone
<1>3. /\ s \in Requests /\ s # None /\ s.stored = FALSE /\ s.kind = "edit"
      /\ s.body = worker.confirmed /\ s.id = worker.id
  BY <1>1, <1>0, RequestType, RequestFields, RequestsAreNotNone
<1>. DEFINE q == IF worker.id = None THEN r ELSE s
<1>4. Begin("worker", q)
  BY DEF StatusTick
<1>. HIDE DEF r, s
<1>5. q \in Requests
  BY <1>2, <1>3
<1>6. /\ call'["worker"] = q /\ call'["maint"] = call["maint"]
      /\ call' \in [Processes -> Requests \cup {None}]
  BY <1>4, <1>5, BeginFacts DEF Processes
<1> QED BY <1>2, <1>3, <1>6

LEMMA SummaryRequest ==
  ASSUME TypeOK, SummaryTick
  PROVE  /\ call'["worker"] \in Requests /\ call'["worker"] # None
         /\ call'["maint"] = call["maint"]
         /\ call' \in [Processes -> Requests \cup {None}]
         /\ call'["worker"].stored = FALSE
         /\ call'["worker"].size = worker.bytes
         /\ call'["worker"].id = None
         /\ call'["worker"].kind = "summary"
<1>. DEFINE r == Request("summary", "free", worker.bytes, None)
<1>0. "summary" \in Kinds /\ None \in Ids
  BY BodyFacts
<1>1. worker.bytes \in 0..MaxTraffic /\ "free" \in Bodies
  BY WorkerFacts, BodyFacts DEF SummaryTick, Running
<1>2. /\ r \in Requests /\ r # None /\ r.stored = FALSE /\ r.kind = "summary"
      /\ r.size = worker.bytes /\ r.id = None
  BY <1>1, <1>0, RequestType, RequestFields, RequestsAreNotNone
<1>3. Begin("worker", r)
  BY DEF SummaryTick
<1>. HIDE DEF r
<1>6. /\ call'["worker"] = r /\ call'["maint"] = call["maint"]
      /\ call' \in [Processes -> Requests \cup {None}]
  BY <1>2, <1>3, BeginFacts DEF Processes
<1> QED BY <1>2, <1>6

\* The controller's two requests.
LEMMA MaintRequest ==
  ASSUME TypeOK, NEW kind \in {"create", "edit"}, NEW id \in Ids,
         Begin("maint", Request(kind, "MAINTENANCE", 0, id))
  PROVE  /\ call'["maint"] \in Requests /\ call'["maint"] # None
         /\ call'["worker"] = call["worker"]
         /\ call' \in [Processes -> Requests \cup {None}]
         /\ call'["maint"].stored = FALSE
         /\ call'["maint"].body = "MAINTENANCE"
         /\ call'["maint"].id = id
         /\ call'["maint"].kind = kind
<1>. DEFINE r == Request(kind, "MAINTENANCE", 0, id)
<1>0. 0 \in 0..MaxTraffic /\ id \in Ids
  BY BodyFacts
<1>1. "MAINTENANCE" \in Bodies /\ kind \in Kinds
  BY BodyFacts
<1>2. /\ r \in Requests /\ r # None /\ r.stored = FALSE /\ r.kind = kind
      /\ r.body = "MAINTENANCE" /\ r.id = id
  BY <1>1, <1>0, RequestType, RequestFields, RequestsAreNotNone
<1>3. Begin("maint", r)
  OBVIOUS
<1>. HIDE DEF r
<1>6. /\ call'["maint"] = r /\ call'["worker"] = call["worker"]
      /\ call' \in [Processes -> Requests \cup {None}]
  BY <1>2, <1>3, BeginFacts DEF Processes
<1> QED BY <1>2, <1>6

\* An alert is posted for a confirmed change to or from DEGRADED.
LEMMA ConfirmFacts ==
  ASSUME TypeOK, Confirm
  PROVE  /\ worker' \in Memories /\ worker'.id = worker.id
         /\ worker'.bytes = worker.bytes /\ worker'.confirmed = Evaluated
         /\ worker'.init = worker.init
         /\ call' \in [Processes -> Requests \cup {None}]
         /\ call'["maint"] = call["maint"]
         /\ \/ /\ worker'.last = worker.last /\ call' = call /\ recent' = recent
               /\ AlertType(worker.confirmed, Evaluated) = None
                    \/ Suppressed(AlertType(worker.confirmed, Evaluated))
            \/ /\ worker'.last = Evaluated
               /\ call'["worker"] \in Requests /\ call'["worker"] # None
               /\ call'["worker"].kind = "alert" /\ call'["worker"].stored = FALSE
               /\ call'["worker"].id = None
               /\ call'["worker"].body = IF Evaluated = "DEGRADED"
                                         THEN "DEGRADED" ELSE "RECOVERY"
               /\ recent' \in BOOLEAN
<1>. DEFINE alert == AlertType(worker.confirmed, Evaluated)
            r == Request("alert", alert, 0, None)
<1>0. Up /\ call \in [Processes -> Requests \cup {None}] /\ recent \in BOOLEAN
  BY DEF Confirm, Running, TypeOK
<1>1. CASE alert = None \/ Suppressed(alert)
  <2>1. worker' = ConfirmedWorker /\ UNCHANGED <<call, recent>>
    BY <1>1 DEF Confirm
  <2> QED BY <1>0, <1>1, <2>1, ConfirmedFacts
<1>2. CASE ~(alert = None \/ Suppressed(alert))
  <2>1. /\ worker' = [ConfirmedWorker EXCEPT !.last = Evaluated]
        /\ Begin("worker", r)
        /\ recent' = (recent \/ alert = "DEGRADED")
    BY <1>2 DEF Confirm
  <2>2. alert = IF Evaluated = "DEGRADED" THEN "DEGRADED" ELSE "RECOVERY"
    BY <1>2, EvaluatedType DEF AlertType
  <2>3. /\ r \in Requests /\ r # None /\ r.kind = "alert" /\ r.body = alert
        /\ r.stored = FALSE /\ r.id = None
    BY <2>2, AlertRequest
  <2>4. recent' \in BOOLEAN
    BY <1>0, <2>1
  <2>. HIDE DEF r, alert
  <2>5. /\ call'["worker"] = r /\ call'["maint"] = call["maint"]
        /\ call' \in [Processes -> Requests \cup {None}]
    BY <2>1, <2>3, BeginFacts DEF Processes
  <2> QED BY <1>0, <2>1, <2>2, <2>3, <2>4, <2>5, ConfirmedFacts
<1> QED BY <1>1, <1>2

LEMMA TypeStep ==
  ASSUME TypeOK, CallInv, WindowInv, Next
  PROVE  TypeOK'
<1>. USE DEF fileVars, ghosts
<1>0. /\ disk \in Files /\ loaded \in Files /\ worker \in Memories \cup {None}
      /\ call \in [Processes -> Requests \cup {None}]
      /\ recent \in BOOLEAN /\ used \in Budgets
      /\ "worker" \in Processes /\ "maint" \in Processes
  BY DEF TypeOK, Processes
<1>01. \A f, r : Costs(used', f, r) => used' \in Budgets
  BY DEF Costs
<1>1. CASE Sample
  <2>1. CASE Baseline
    <3>1. recent' \in BOOLEAN
      BY <2>1, <1>0 DEF Baseline
    <3> QED BY <1>0, <2>1, <3>1, BaselineFacts, TypeKept DEF Baseline
  <2>2. CASE Unchanged \/ FirstSample
    <3>1. worker' \in Memories
      BY <2>2, CountingFacts
    <3> QED BY <1>0, <2>2, <3>1, TypeKept DEF Unchanged, FirstSample
  <2>3. CASE Confirm
    <3>1. /\ UNCHANGED <<healthy, channel, told, fileVars, stopped, maint, traffic,
                         reported, used>>
          /\ recent' \in BOOLEAN
      BY <1>0, <2>3, ConfirmFacts DEF Confirm
    <3> QED BY <1>0, <2>3, <3>1, ConfirmFacts, TypeKept
  <2> QED BY <1>1, <2>1, <2>2, <2>3 DEF Sample
<1>2. CASE AlertDone
  <2>1. PICK f, r : Saves(Image(worker), f, r)
    BY <1>2, AlertDoneOutcome
  <2>2. disk' \in Files /\ used' \in Budgets
    BY <1>0, <1>01, <1>2, <2>1, WorkerFacts DEF Saves, AlertDone
  <2> QED BY <1>0, <1>2, <2>2, CallsFree, TypeKept DEF AlertDone
<1>3. CASE StatusTick
  BY <1>0, <1>3, StatusRequest, TypeKept DEF StatusTick
<1>4. CASE Created
  <2>1. call["worker"].id \in Ids
    BY <1>0, <1>4, Calls DEF Created
  <2>2. PICK f \in {0, 1} : Saves(Image(worker'), f, 0)
    BY <1>4, SaveOutcome DEF Created
  <2>3. disk' \in Files /\ used' \in Budgets /\ worker' \in Memories
    BY <1>0, <1>01, <1>4, <2>1, <2>2, IdFacts DEF Saves, Created
  <2> QED BY <1>0, <1>4, <2>3, CallsFree, TypeKept DEF Created
<1>5. CASE Edited
  BY <1>0, <1>5, CallsFree, TypeKept DEF Edited
<1>6. CASE EditMissing
  <2>1. None \in Ids
    BY DEF Ids
  <2>2. PICK f \in {0, 1} : Saves(Image(worker'), f, 0)
    BY <1>6, SaveOutcome DEF EditMissing
  <2>3. disk' \in Files /\ used' \in Budgets /\ worker' \in Memories
    BY <1>0, <1>01, <1>6, <2>1, <2>2, IdFacts DEF Saves, EditMissing
  <2> QED BY <1>0, <1>6, <2>3, CallsFree, TypeKept DEF EditMissing
<1>7. CASE StatusFails
  <2>1. used' \in Budgets
    BY <1>0, <1>01, <1>7, FailureCosts DEF StatusFails
  <2> QED BY <1>0, <1>7, <2>1, CallsFree, TypeKept DEF StatusFails
<1>8. CASE SummaryTick
  BY <1>0, <1>8, SummaryRequest, TypeKept DEF SummaryTick
<1>9. CASE SummarySkipped
  <2>1. 0 \in 0..MaxTraffic
    BY BodyFacts
  <2>2. PICK f \in {0, 1} : Saves(Image(worker'), f, 0)
    BY <1>9, SaveOutcome DEF SummarySkipped
  <2>3. disk' \in Files /\ used' \in Budgets /\ worker' \in Memories
    BY <1>0, <1>01, <1>9, <2>1, <2>2, BytesFacts
       DEF Saves, SummarySkipped, Running, NewWindow
  <2> QED BY <1>0, <1>9, <2>3, TypeKept DEF SummarySkipped
<1>10. CASE SummaryDone
  <2>1. 0 \in 0..MaxTraffic
    BY BodyFacts
  <2>2. PICK f, r : Saves(Image(worker'), f, r)
    BY <1>10, SummaryDoneOutcome
  <2>3. disk' \in Files /\ used' \in Budgets /\ worker' \in Memories
    BY <1>0, <1>01, <1>10, <2>1, <2>2, BytesFacts
       DEF Saves, SummaryDone, NewWindow
  <2> QED BY <1>0, <1>10, <2>3, CallsFree, TypeKept DEF SummaryDone
<1>11. CASE Checkpoint
  <2>2. PICK f \in {0, 1} : Saves(Image(worker), f, 0)
    BY <1>11, SaveOutcome DEF Checkpoint
  <2>3. disk' \in Files /\ used' \in Budgets
    BY <1>0, <1>01, <1>11, <2>2, WorkerFacts DEF Saves, Checkpoint, Running
  <2> QED BY <1>0, <1>11, <2>3, TypeKept DEF Checkpoint
<1>12. CASE Answered
  BY <1>12, StoreType DEF Answered
<1>13. CASE StopWorker
  <2>1. worker' = None /\ Begin("worker", None) /\ used' \in Budgets
    BY <1>01, <1>13, DiesOutcome DEF StopWorker
  <2>2. call' \in [Processes -> Requests \cup {None}]
    BY <1>0, <2>1, CallsFree
  <2>3. UNCHANGED <<healthy, channel, told, disk, loaded, traffic, reported, recent>>
        /\ stopped' = TRUE /\ maint' = "publish"
    BY <1>13 DEF StopWorker
  <2> QED BY <2>1, <2>2, <2>3 DEF TypeOK
<1>14. CASE StopFails
  <2>1. used' \in Budgets
    BY <1>01, <1>14, SpendCosts DEF StopFails
  <2> QED BY <1>14, <2>1 DEF StopFails, TypeOK
<1>30. CASE StopTimesOut
  <2>1. worker' = None /\ Begin("worker", None) /\ used' \in Budgets
    BY <1>01, <1>30, SpendCosts DEF StopTimesOut, Dies
  <2>2. call' \in [Processes -> Requests \cup {None}]
    BY <1>0, <2>1, CallsFree
  <2>3. UNCHANGED <<healthy, channel, told, disk, loaded, maint, traffic, reported,
                    recent>> /\ stopped' = TRUE
    BY <1>30 DEF StopTimesOut
  <2> QED BY <2>1, <2>2, <2>3 DEF TypeOK
<1>15. CASE Publish
  <2>1. CASE disk.id = None
    BY <1>15, <2>1 DEF Publish, TypeOK
  <2>2. CASE disk.id # None
    <3>1. disk.id \in Ids /\ "edit" \in {"create", "edit"}
      BY <1>0 DEF Files
    <3>2. Begin("maint", Request("edit", "MAINTENANCE", 0, disk.id))
          /\ maint' = "asking" /\ loaded' = disk
      BY <1>15, <2>2 DEF Publish
    <3>3. call' \in [Processes -> Requests \cup {None}]
      BY <3>1, <3>2, MaintRequest
    <3> QED BY <1>15, <3>2, <3>3 DEF Publish, TypeOK
  <2> QED BY <2>1, <2>2
<1>16. CASE Replace
  <2>1. None \in Ids /\ "create" \in {"create", "edit"}
    BY DEF Ids
  <2>2. call' \in [Processes -> Requests \cup {None}]
    BY <1>16, <2>1, MaintRequest DEF Replace
  <2> QED BY <1>0, <1>16, <2>2, TypeKept DEF Replace
<1>17. CASE Published
  <2>1. call["maint"].id \in Ids
    BY <1>0, <1>17, Calls DEF Published
  <2>2. [loaded EXCEPT !.id = call["maint"].id] \in Files
    BY <1>0, <2>1 DEF Files
  <2>3. disk' \in Files /\ used' \in Budgets
    <3>1. CASE call["maint"].kind = "create"
      <4>1. PICK f \in {0, 1} : Saves([loaded EXCEPT !.id = call["maint"].id], f, 0)
        BY <1>17, <3>1, SaveOutcome DEF Published
      <4> QED BY <1>0, <1>01, <2>2, <4>1 DEF Saves
    <3>2. CASE call["maint"].kind # "create"
      BY <1>0, <1>17, <3>2 DEF Published
    <3> QED BY <3>1, <3>2
  <2>4. call' \in [Processes -> Requests \cup {None}]
    BY <1>0, <1>17, CallsFree DEF Published
  <2>5. loaded' \in Files
    BY <1>17, FreshType DEF Published
  <2>6. UNCHANGED <<healthy, channel, told, worker, stopped, traffic, reported, recent>>
        /\ maint' = "reboot"
    BY <1>17 DEF Published
  <2> QED BY <2>3, <2>4, <2>5, <2>6 DEF TypeOK
<1>18. CASE PublishFails
  <2>1. used' \in Budgets
    BY <1>0, <1>01, <1>18, FailureCosts DEF PublishFails
  <2>4. call' \in [Processes -> Requests \cup {None}]
    BY <1>0, <1>18, CallsFree DEF PublishFails
  <2>5. loaded' \in Files
    BY <1>18, FreshType DEF PublishFails
  <2>6. UNCHANGED <<healthy, channel, told, disk, worker, stopped, traffic, reported,
                    recent>> /\ maint' = "reboot"
    BY <1>18 DEF PublishFails
  <2> QED BY <2>1, <2>4, <2>5, <2>6 DEF TypeOK
<1>31. CASE ControllerKilled
  <2>1. used' \in Budgets
    BY <1>01, <1>31, SpendCosts DEF ControllerKilled
  <2>2. call' \in [Processes -> Requests \cup {None}]
    BY <1>0, <1>31, CallsFree DEF ControllerKilled
  <2>3. loaded' \in Files
    BY <1>31, FreshType DEF ControllerKilled
  <2>4. UNCHANGED <<healthy, channel, told, disk, worker, stopped, traffic, reported,
                    recent>> /\ maint' = "idle"
    BY <1>31 DEF ControllerKilled
  <2> QED BY <2>1, <2>2, <2>3, <2>4 DEF TypeOK
<1>19. CASE Reboot
  <2>1. worker' = None /\ Begin("worker", None) /\ used' \in Budgets
    BY <1>01, <1>19, DiesOutcome, SpendCosts DEF Reboot, Dies
  <2>2. call' \in [Processes -> Requests \cup {None}]
    BY <1>0, <2>1, CallsFree
  <2>3. UNCHANGED <<healthy, channel, told, disk, loaded, stopped, traffic, reported,
                    recent>> /\ maint' = "booting"
    BY <1>19 DEF Reboot
  <2> QED BY <2>1, <2>2, <2>3 DEF TypeOK
<1>20. CASE RebootFails
  <2>1. used' \in Budgets
    BY <1>01, <1>20, SpendCosts DEF RebootFails
  <2> QED BY <1>20, <2>1 DEF RebootFails, TypeOK
<1>21. CASE Boot
  <2>1. recent' \in BOOLEAN
    BY <1>0, <1>21 DEF Boot
  <2> QED BY <1>21, <2>1 DEF Boot, TypeOK
<1>22. ASSUME NEW p \in Processes, Retry(p) PROVE TypeOK'
  <2>1. used' \in Budgets
    BY <1>01, <1>22, RetryFacts
  <2>2. call' \in [Processes -> Requests \cup {None}]
    BY <1>22, RetryFacts
  <2>3. UNCHANGED <<healthy, channel, told, disk, loaded, worker, stopped, maint,
                    traffic, reported, recent>>
    BY <1>22 DEF Retry
  <2> QED BY <1>0, <2>1, <2>2, <2>3, TypeKept
<1>23. CASE Packet
  <2>1. worker.bytes + 1 \in 0..MaxTraffic /\ traffic + 1 \in 0..MaxTraffic
    BY <1>23, Numbers DEF Packet, Running, WindowInv
  <2>2. worker' \in Memories
    <3>1. worker' = [worker EXCEPT !.bytes = worker.bytes + 1]
      BY <1>23 DEF Packet
    <3> QED BY <1>23, <2>1, <3>1, BytesFacts DEF Packet, Running
  <2>3. UNCHANGED <<healthy, channel, told, disk, loaded, stopped, maint, call,
                    reported, recent, used>> /\ traffic' = traffic + 1
    BY <1>23 DEF Packet
  <2> QED BY <2>1, <2>2, <2>3 DEF TypeOK
<1>24. CASE CooldownPasses
  BY <1>24 DEF CooldownPasses, TypeOK
<1>25. CASE Start
  <2>1. worker' \in Memories
    BY <1>0, <1>25, LoadedType DEF Start
  <2> QED BY <1>0, <1>25, <2>1, TypeKept DEF Start
<1>26. CASE Kill
  <2>1. worker' = None /\ Begin("worker", None) /\ used' \in Budgets
    BY <1>01, <1>26, DiesOutcome DEF Kill
  <2> QED BY <1>0, <1>26, <2>1, CallsFree, TypeKept DEF Kill
<1>27. CASE FileLost
  <2>1. used' \in Budgets
    BY <1>01, <1>27, SpendCosts DEF FileLost
  <2> QED BY <1>0, <1>27, <2>1, FreshType, TypeKept DEF FileLost
<1>28. CASE HealthFlips
  <2>1. used' \in Budgets
    BY <1>01, <1>28, SpendCosts DEF HealthFlips
  <2> QED BY <1>28, <2>1 DEF HealthFlips, TypeOK
<1>29. CASE MessageDeleted
  <2>1. used' \in Budgets
    BY <1>01, <1>29, SpendCosts DEF MessageDeleted
  <2>2. channel' \in [Messages -> Contents]
    BY <1>29 DEF MessageDeleted, TypeOK, Contents
  <2> QED BY <1>29, <2>1, <2>2 DEF MessageDeleted, TypeOK
<1> QED
  BY <1>1, <1>2, <1>3, <1>4, <1>5, <1>6, <1>7, <1>8, <1>9, <1>10, <1>11, <1>12, <1>13,
     <1>14, <1>15, <1>16, <1>17, <1>18, <1>19, <1>20, <1>21, <1>22, <1>23, <1>24,
     <1>25, <1>26, <1>27, <1>28, <1>29, <1>30, <1>31
     DEF Next, WorkerNext, MaintNext, Environment

(***************************************************************************)
(* The requests fit what the processes know.                               *)
(***************************************************************************)
LEMMA StoreFacts ==
  ASSUME TypeOK, NEW p \in Processes, Store(p)
  PROVE  /\ ~Free(p) /\ ~call[p].stored /\ call'[p] # None
         /\ call'[p].kind = call[p].kind /\ call'[p].body = call[p].body
         /\ call'[p].size = call[p].size /\ call'[p].stored = TRUE
         /\ call[p].kind # "create" => call'[p].id = call[p].id
         /\ call[p].kind = "create" => call'[p].id \in NewMessages
         /\ \A q \in Processes : q # p => call'[q] = call[q]
         /\ UNCHANGED <<healthy, disk, loaded, worker, stopped, maint, traffic, recent,
                        used>>
<1>. DEFINE c == call[p]
<1>1. c \in Requests /\ call \in [Processes -> Requests \cup {None}]
  BY Calls DEF Store, TypeOK
<1>2. /\ UNCHANGED <<healthy, disk, loaded, worker, stopped, maint, traffic, recent,
                     used>>
      /\ ~Free(p) /\ ~call[p].stored
  BY DEF Store, fileVars
<1>3. CASE c.kind = "create"
  <2>1. PICK m \in NewMessages :
          call' = [call EXCEPT ![p].stored = TRUE, ![p].id = m]
    BY <1>3 DEF Store
  <2>2. call' = [call EXCEPT ![p] = [c EXCEPT !.stored = TRUE, !.id = m]]
    BY <1>1, <2>1
  <2>3. call'[p] = [c EXCEPT !.stored = TRUE, !.id = m]
        /\ \A q \in Processes : q # p => call'[q] = call[q]
    BY <1>1, <2>2
  <2>4. m \in Ids
    BY DEF NewMessages, Ids
  <2>5. call'[p] \in Requests
    BY <1>1, <2>3, <2>4 DEF Requests
  <2> QED BY <1>1, <1>2, <1>3, <2>3, <2>5, RequestsAreNotNone DEF Requests
<1>4. CASE c.kind # "create"
  <2>1. call' = [call EXCEPT ![p].stored = TRUE]
    BY <1>1, <1>4 DEF Store, Requests
  <2>2. call' = [call EXCEPT ![p] = [c EXCEPT !.stored = TRUE]]
    BY <1>1, <2>1
  <2>3. call'[p] = [c EXCEPT !.stored = TRUE]
        /\ \A q \in Processes : q # p => call'[q] = call[q]
    BY <1>1, <2>2
  <2>5. call'[p] \in Requests
    BY <1>1, <2>3 DEF Requests
  <2> QED BY <1>1, <1>2, <1>4, <2>3, <2>5, RequestsAreNotNone DEF Requests
<1> QED BY <1>3, <1>4

\* A request of the worker that is as it was, or is gone, needs nothing to be shown.
LEMMA WorkerCallKept ==
  ASSUME WorkerCall,
         \/ call'["worker"] = None
         \/ call'["worker"] = call["worker"] /\ worker' = worker
         \/ call'["worker"] = call["worker"] /\ Free("worker")
  PROVE  WorkerCall'
BY DEF WorkerCall, Free, Up

LEMMA WorkerCallStep ==
  ASSUME TypeOK, CallInv, Next
  PROVE  WorkerCall'
<1>. USE DEF fileVars, ghosts
<1>0. /\ "worker" \in Processes /\ "maint" \in Processes /\ WorkerCall
      /\ \A p \in Processes : p = "worker" \/ p = "maint"
  BY DEF Processes, CallInv
<1>1. CASE Sample
  <2>1. CASE Baseline \/ Unchanged \/ FirstSample
    BY <1>0, <2>1, WorkerCallKept DEF Baseline, Unchanged, FirstSample, Running
  <2>2. CASE Confirm
    <3>1. worker' \in Memories /\ worker'.confirmed = Evaluated
      BY <2>2, ConfirmFacts
    <3>2. CASE call' = call
      BY <1>0, <2>2, <3>2, WorkerCallKept DEF Confirm, Running
    <3>3. CASE /\ call'["worker"] # None /\ call'["worker"].kind = "alert"
               /\ call'["worker"].body = IF Evaluated = "DEGRADED"
                                         THEN "DEGRADED" ELSE "RECOVERY"
      BY <3>1, <3>3, EvaluatedType, NoneAssumption DEF WorkerCall, Up
    <3> QED BY <2>2, <3>2, <3>3, ConfirmFacts
  <2> QED BY <1>1, <2>1, <2>2 DEF Sample
<1>2. CASE AlertDone \/ Created \/ Edited \/ EditMissing \/ StatusFails \/ SummaryDone
  <2>1. Begin("worker", None)
    BY <1>2 DEF AlertDone, Created, Edited, EditMissing, StatusFails, SummaryDone
  <2> QED BY <1>0, <2>1, CallsFree, WorkerCallKept
<1>3. CASE StatusTick
  <2>1. Up /\ worker' = worker /\ worker.confirmed \in Statuses
    BY <1>3, WorkerFacts DEF StatusTick, Running
  <2> QED BY <1>3, <2>1, StatusRequest DEF WorkerCall, Up
<1>4. CASE SummaryTick
  <2>1. Up /\ worker' = worker
    BY <1>4 DEF SummaryTick, Running
  <2> QED BY <1>4, <2>1, SummaryRequest DEF WorkerCall, Up
<1>5. CASE SummarySkipped \/ Checkpoint \/ Packet
  BY <1>0, <1>5, WorkerCallKept DEF SummarySkipped, Checkpoint, Packet, Running
<1>6. CASE Store("worker")
  BY <1>0, <1>6, StoreFacts DEF WorkerCall, Free, Up
<1>7. CASE Store("maint")
  BY <1>0, <1>7, StoreFacts, WorkerCallKept
<1>8. CASE Retry("worker")
  <2>1. worker' = worker
    BY <1>8 DEF Retry
  <2> QED BY <1>0, <1>8, <2>1, RetryFacts DEF WorkerCall, Free, Up
<1>9. CASE Retry("maint")
  <2>1. worker' = worker
    BY <1>9 DEF Retry
  <2> QED BY <1>0, <1>9, <2>1, RetryFacts, WorkerCallKept
<1>10. CASE StopWorker \/ StopTimesOut \/ Reboot \/ Kill
  <2>1. Begin("worker", None)
    BY <1>10 DEF StopWorker, StopTimesOut, Reboot, Kill, Dies
  <2> QED BY <1>0, <2>1, CallsFree, WorkerCallKept
<1>11. CASE Publish \/ Replace \/ Published \/ PublishFails \/ ControllerKilled
  <2>1. worker' = worker
    BY <1>11 DEF Publish, Replace, Published, PublishFails, ControllerKilled
  <2>2. call'["worker"] = call["worker"]
    <3>1. CASE call' = call
      BY <3>1
    <3>2. CASE \E r : Begin("maint", r)
      BY <1>0, <3>2, BeginFacts
    <3> QED
      BY <1>11, <3>1, <3>2 DEF Publish, Replace, Published, PublishFails, ControllerKilled
  <2> QED BY <1>0, <2>1, <2>2, WorkerCallKept
<1>12. CASE Start
  BY <1>0, <1>12, WorkerCallKept DEF Start, WorkerCall
<1>13. CASE StopFails \/ RebootFails \/ Boot \/ CooldownPasses \/ FileLost
            \/ HealthFlips \/ MessageDeleted
  BY <1>0, <1>13, WorkerCallKept
     DEF StopFails, RebootFails, Boot, CooldownPasses, FileLost, HealthFlips,
         MessageDeleted
<1> QED
  BY <1>0, <1>1, <1>2, <1>3, <1>4, <1>5, <1>6, <1>7, <1>8, <1>9, <1>10, <1>11, <1>12,
     <1>13
     DEF Next, WorkerNext, MaintNext, Environment, Answered

LEMMA MaintCallKept ==
  ASSUME MaintCall, call'["maint"] = call["maint"], loaded' = loaded,
         maint' = maint \/ (Free("maint") /\ maint' # "asking")
  PROVE  MaintCall'
BY DEF MaintCall, Free

\* The worker's own steps leave the controller's request alone.
LEMMA MaintCallStep ==
  ASSUME TypeOK, CallInv, Next
  PROVE  MaintCall'
<1>. USE DEF fileVars, ghosts
<1>0. /\ "worker" \in Processes /\ "maint" \in Processes /\ MaintCall
      /\ \A p \in Processes : p = "worker" \/ p = "maint"
      /\ "worker" # "maint"
  BY DEF Processes, CallInv
<1>1. CASE Sample
  <2>1. loaded' = loaded /\ maint' = maint
    BY <1>1 DEF Sample, Baseline, Unchanged, FirstSample, Confirm
  <2>2. call'["maint"] = call["maint"]
    BY <1>1, ConfirmFacts DEF Sample, Baseline, Unchanged, FirstSample
  <2> QED BY <1>0, <2>1, <2>2, MaintCallKept
<1>2. CASE AlertDone \/ Created \/ Edited \/ EditMissing \/ StatusFails \/ SummaryDone
           \/ Kill
  <2>1. Begin("worker", None) /\ loaded' = loaded /\ maint' = maint
    BY <1>2 DEF AlertDone, Created, Edited, EditMissing, StatusFails, SummaryDone,
                Kill, Dies
  <2> QED BY <1>0, <2>1, CallsFree, MaintCallKept
<1>3. CASE StatusTick
  BY <1>0, <1>3, StatusRequest, MaintCallKept DEF StatusTick
<1>4. CASE SummaryTick
  BY <1>0, <1>4, SummaryRequest, MaintCallKept DEF SummaryTick
<1>5. CASE SummarySkipped \/ Checkpoint \/ Packet \/ Start \/ CooldownPasses \/ FileLost
           \/ HealthFlips \/ MessageDeleted
  BY <1>0, <1>5, MaintCallKept
     DEF SummarySkipped, Checkpoint, Packet, Start, CooldownPasses, FileLost,
         HealthFlips, MessageDeleted
<1>6. CASE Store("worker")
  BY <1>0, <1>6, StoreFacts, MaintCallKept
<1>7. CASE Store("maint")
  BY <1>0, <1>7, StoreFacts DEF MaintCall, Free
<1>8. CASE Retry("worker")
  <2>1. loaded' = loaded /\ maint' = maint
    BY <1>8 DEF Retry
  <2> QED BY <1>0, <1>8, <2>1, RetryFacts, MaintCallKept
<1>9. CASE Retry("maint")
  <2>1. loaded' = loaded /\ maint' = maint
    BY <1>9 DEF Retry
  <2> QED BY <1>0, <1>9, <2>1, RetryFacts, RequestsAreNotNone DEF MaintCall, Free
<1>10. CASE StopWorker \/ StopTimesOut \/ Reboot
  <2>1. /\ Begin("worker", None) /\ loaded' = loaded /\ maint # "asking"
        /\ maint' # "asking"
    BY <1>10 DEF StopWorker, StopTimesOut, Reboot, Dies
  <2> QED BY <1>0, <2>1, CallsFree, MaintCallKept DEF MaintCall
<1>11. CASE StopFails \/ RebootFails \/ Boot
  <2>1. /\ call' = call /\ loaded' = loaded /\ maint # "asking"
        /\ maint' # "asking"
    BY <1>11 DEF StopFails, RebootFails, Boot
  <2> QED BY <1>0, <2>1, MaintCallKept DEF MaintCall
<1>12. CASE Publish
  <2>1. CASE disk.id = None
    <3>1. call' = call /\ loaded' = loaded /\ maint # "asking" /\ maint' # "asking"
      BY <1>12, <2>1 DEF Publish
    <3> QED BY <1>0, <3>1, MaintCallKept DEF MaintCall
  <2>2. CASE disk.id # None
    <3>1. disk.id \in Ids /\ "edit" \in {"create", "edit"}
      BY Numbers DEF Files
    <3>2. Begin("maint", Request("edit", "MAINTENANCE", 0, disk.id))
          /\ maint' = "asking" /\ loaded' = disk
      BY <1>12, <2>2 DEF Publish
    <3> QED BY <2>2, <3>1, <3>2, MaintRequest DEF MaintCall, Free
  <2> QED BY <2>1, <2>2
<1>13. CASE Replace
  <2>1. None \in Ids /\ "create" \in {"create", "edit"}
    BY DEF Ids
  <2>2. Begin("maint", Request("create", "MAINTENANCE", 0, None)) /\ maint' = "asking"
    BY <1>13 DEF Replace
  <2> QED BY <2>1, <2>2, MaintRequest DEF MaintCall, Free
<1>14. CASE Published \/ PublishFails \/ ControllerKilled
  <2>1. Begin("maint", None) /\ maint' # "asking"
    BY <1>14 DEF Published, PublishFails, ControllerKilled
  <2> QED BY <1>0, <2>1, CallsFree DEF MaintCall, Free
<1> QED
  BY <1>0, <1>1, <1>2, <1>3, <1>4, <1>5, <1>6, <1>7, <1>8, <1>9, <1>10, <1>11, <1>12,
     <1>13, <1>14
     DEF Next, WorkerNext, MaintNext, Environment, Answered


\* While the unit is stopped nobody but the controller writes the file.
LEMMA StoppedStep ==
  ASSUME TypeOK, CallInv, Next
  PROVE  StoppedInv'
<1>. USE DEF fileVars, ghosts
<1>0. /\ StoppedInv /\ WorkerCall /\ MaintCall
      /\ FreshState.id = None
  BY FreshType DEF CallInv
<1>1. CASE WorkerNext \/ Packet \/ Kill
  <2>1. Up /\ stopped' = stopped
    BY <1>1 DEF WorkerNext, Sample, Baseline, Unchanged, FirstSample, Confirm, AlertDone,
                StatusTick, Created, Edited, EditMissing, StatusFails, SummaryTick,
                SummarySkipped, SummaryDone, Checkpoint, Packet, Kill, Running
  <2> QED BY <1>0, <2>1 DEF StoppedInv
<1>2. CASE Start
  BY <1>2 DEF Start, StoppedInv
<1>3. CASE Answered
  <2>1. UNCHANGED <<stopped, worker, maint, disk, loaded>>
    BY <1>3 DEF Answered, Store
  <2> QED BY <1>0, <2>1 DEF StoppedInv, Up
<1>4. CASE StopWorker \/ StopTimesOut \/ Reboot
  BY <1>4 DEF StopWorker, StopTimesOut, Reboot, Dies, StoppedInv, Up
<1>5. CASE StopFails \/ RebootFails \/ Published \/ PublishFails \/ ControllerKilled
  BY <1>0, <1>5
     DEF StopFails, RebootFails, Published, PublishFails, ControllerKilled, StoppedInv, Up
<1>6. CASE Publish
  BY <1>0, <1>6 DEF Publish, StoppedInv, Up
<1>7. CASE Replace \/ CooldownPasses \/ HealthFlips \/ MessageDeleted
  BY <1>0, <1>7
     DEF Replace, CooldownPasses, HealthFlips, MessageDeleted, StoppedInv, Up
<1>8. CASE Boot
  BY <1>8 DEF Boot, StoppedInv
<1>9. ASSUME NEW p \in Processes, Retry(p) PROVE StoppedInv'
  BY <1>0, <1>9 DEF Retry, StoppedInv, Up
<1>10. CASE FileLost
  BY <1>0, <1>10 DEF FileLost, StoppedInv, Up
<1> QED
  BY <1>1, <1>2, <1>3, <1>4, <1>5, <1>6, <1>7, <1>8, <1>9, <1>10
     DEF Next, MaintNext, Environment

(***************************************************************************)
(* The ids.                                                                *)
(***************************************************************************)
\* No message is unborn again.
LEMMA BornStays ==
  ASSUME TypeOK, Next, NEW m \in Messages, channel[m] # "free", CallInv
  PROVE  channel'[m] # "free"
<1>1. channel' = channel \/ Answered \/ MessageDeleted
  BY DEF Next, WorkerNext, Sample, Baseline, Unchanged, FirstSample, Confirm, AlertDone,
         StatusTick, Created, Edited, EditMissing, StatusFails, SummaryTick,
         SummarySkipped, SummaryDone, Checkpoint, MaintNext, StopWorker, StopFails, StopTimesOut,
         Publish, Replace, Published, PublishFails, ControllerKilled, Reboot, RebootFails, Boot,
         Environment, Retry, Packet, CooldownPasses, Start, Kill, FileLost, HealthFlips
<1>2. CASE channel' = channel
  BY <1>2
<1>3. CASE MessageDeleted
  BY <1>3 DEF MessageDeleted, TypeOK
<1>4. ASSUME NEW p \in Processes, Store(p) PROVE channel'[m] # "free"
  <2>1. call[p] \in Requests
    BY <1>4, Calls DEF Store
  <2>2. call[p].kind \in {"create", "edit"} => call[p].body # "free"
    BY <1>4 DEF Store, CallInv, WorkerCall, MaintCall, Free, Processes, Statuses
  <2>3. CASE call[p].kind = "create"
    BY <1>4, <2>2, <2>3 DEF Store, TypeOK
  <2>4. CASE call[p].kind = "edit"
    BY <1>4, <2>2, <2>4 DEF Store, TypeOK
  <2>5. CASE call[p].kind \in {"alert", "summary"}
    BY <1>4, <2>5 DEF Store
  <2> QED BY <2>1, <2>3, <2>4, <2>5 DEF Requests
<1> QED BY <1>1, <1>2, <1>3, <1>4 DEF Answered

\* Where the ids of the next state come from.
DiskSource ==
  \/ disk'.id \in {None, disk.id}
  \/ Up /\ disk'.id = worker.id
  \/ \E q \in Processes : /\ CreateStored(q) /\ disk'.id = call[q].id
                          /\ call'[q] = None

LoadedSource == loaded'.id \in {None, loaded.id, disk.id}

WorkerSource ==
  worker' # None =>
    \/ Up /\ worker'.id \in {None, worker.id}
    \/ worker'.id = disk.id
    \/ /\ CreateStored("worker") /\ worker'.id = call["worker"].id
       /\ call'["worker"] = None

CallSource ==
  \A p \in Processes : call'[p] # None =>
    \/ ~Free(p) /\ call'[p] = call[p]
    \/ ~Free(p) /\ call'[p].id = call[p].id /\ ~call'[p].stored
    \/ ~Free(p) /\ call'[p].id = call[p].id /\ call'[p].kind # "create"
    \/ ~call'[p].stored /\ call'[p].id \in {None, disk.id}
    \/ ~call'[p].stored /\ Up /\ call'[p].id = worker.id
    \/ Store(p) /\ call[p].kind = "create" /\ call'[p].id \in NewMessages

LEMMA DiskSources ==
  ASSUME TypeOK, CallInv, Next
  PROVE  DiskSource
<1>. USE DEF fileVars, ghosts
<1>0. "worker" \in Processes /\ "maint" \in Processes /\ None \in Ids
  BY DEF Processes, Ids
<1>1. CASE disk' = disk
  BY <1>1 DEF DiskSource
<1>2. CASE AlertDone
  <2>1. PICK f, r : Saves(Image(worker), f, r)
    BY <1>2, AlertDoneOutcome
  <2> QED BY <1>2, <2>1, WorkerFacts DEF Saves, DiskSource, AlertDone
<1>3. CASE Created
  <2>1. PICK f \in {0, 1} : Saves(Image(worker'), f, 0)
    BY <1>3, SaveOutcome DEF Created
  <2>2. Image(worker').id = call["worker"].id
    BY <1>0, <1>3, Calls, IdFacts DEF Created
  <2>3. CreateStored("worker") /\ call'["worker"] = None
    BY <1>0, <1>3, CallsFree DEF Created, CreateStored, Creating, Free, Succeeds
  <2> QED BY <1>0, <2>1, <2>2, <2>3 DEF Saves, DiskSource
<1>4. CASE EditMissing
  <2>1. PICK f \in {0, 1} : Saves(Image(worker'), f, 0)
    BY <1>4, SaveOutcome DEF EditMissing
  <2>2. Image(worker').id = None
    BY <1>0, <1>4, IdFacts DEF EditMissing
  <2> QED BY <2>1, <2>2 DEF Saves, DiskSource
<1>5. CASE SummarySkipped
  <2>1. PICK f \in {0, 1} : Saves(Image(worker'), f, 0)
    BY <1>5, SaveOutcome DEF SummarySkipped
  <2>2. Image(worker').id = worker.id
    BY <1>5, BodyFacts, BytesFacts DEF SummarySkipped, Running, NewWindow
  <2> QED BY <1>5, <2>1, <2>2 DEF Saves, DiskSource, SummarySkipped, Running
<1>6. CASE SummaryDone
  <2>1. PICK f, r : Saves(Image(worker'), f, r)
    BY <1>6, SummaryDoneOutcome
  <2>2. Image(worker').id = worker.id
    BY <1>6, BodyFacts, BytesFacts DEF SummaryDone, NewWindow
  <2> QED BY <1>6, <2>1, <2>2 DEF Saves, DiskSource, SummaryDone
<1>7. CASE Checkpoint
  <2>1. PICK f \in {0, 1} : Saves(Image(worker), f, 0)
    BY <1>7, SaveOutcome DEF Checkpoint
  <2> QED BY <1>7, <2>1, WorkerFacts DEF Saves, DiskSource, Checkpoint, Running
<1>8. CASE FileLost
  BY <1>8, FreshType DEF FileLost, DiskSource
<1>9. CASE Published
  <2>1. CASE call["maint"].kind = "create"
    <3>1. PICK f \in {0, 1} : Saves([loaded EXCEPT !.id = call["maint"].id], f, 0)
      BY <1>9, <2>1, SaveOutcome DEF Published
    <3>2. [loaded EXCEPT !.id = call["maint"].id].id = call["maint"].id
      BY Numbers DEF Files
    <3>3. CreateStored("maint") /\ call'["maint"] = None
      BY <1>0, <1>9, <2>1, CallsFree
         DEF Published, CreateStored, Creating, Free, Succeeds
    <3> QED BY <1>0, <3>1, <3>2, <3>3 DEF Saves, DiskSource
  <2>2. CASE call["maint"].kind # "create"
    BY <1>9, <2>2 DEF Published, DiskSource
  <2> QED BY <2>1, <2>2
<1>10. \/ disk' = disk \/ AlertDone \/ Created \/ EditMissing \/ SummarySkipped
       \/ SummaryDone \/ Checkpoint \/ FileLost \/ Published
  BY DEF Next, WorkerNext, Sample, Baseline, Unchanged, FirstSample, Confirm,
         StatusTick, Edited, StatusFails, SummaryTick, Answered, Store, MaintNext,
         StopWorker, StopFails, StopTimesOut, Publish, Replace, PublishFails, ControllerKilled, Reboot, RebootFails,
         Boot, Environment, Retry, Packet, CooldownPasses, Start, Kill, HealthFlips,
         MessageDeleted
<1> QED BY <1>1, <1>2, <1>3, <1>4, <1>5, <1>6, <1>7, <1>8, <1>9, <1>10

LEMMA LoadedSources ==
  ASSUME Next
  PROVE  LoadedSource
<1>1. loaded' = loaded \/ Publish \/ Published \/ PublishFails \/ ControllerKilled
  BY DEF fileVars, Next, WorkerNext, Sample, Baseline, Unchanged, FirstSample, Confirm,
         AlertDone, StatusTick, Created, Edited, EditMissing, StatusFails, SummaryTick,
         SummarySkipped, SummaryDone, Checkpoint, Answered, Store, MaintNext,
         StopWorker, StopFails, StopTimesOut, Replace, Reboot, RebootFails,
         Boot, Environment, Retry, Packet, CooldownPasses, Start, Kill, FileLost,
         HealthFlips, MessageDeleted
<1> QED
  BY <1>1, FreshType DEF Publish, Published, PublishFails, ControllerKilled, LoadedSource

LEMMA WorkerSources ==
  ASSUME TypeOK, CallInv, Next
  PROVE  WorkerSource
<1>. USE DEF fileVars, ghosts
<1>0. "worker" \in Processes /\ "maint" \in Processes /\ None \in Ids
  BY DEF Processes, Ids
<1>1. CASE worker' = worker \/ worker' = None
  BY <1>1 DEF WorkerSource, Up
<1>2. CASE Sample
  <2>1. Up
    BY <1>2 DEF Sample, Baseline, Unchanged, FirstSample, Confirm, Running
  <2>2. worker'.id = worker.id
    BY <1>2, BaselineFacts, CountingFacts, ConfirmFacts DEF Sample
  <2> QED BY <2>1, <2>2 DEF WorkerSource
<1>3. CASE Created
  <2>2. worker'.id = call["worker"].id
    BY <1>0, <1>3, Calls, IdFacts DEF Created
  <2>3. CreateStored("worker") /\ call'["worker"] = None
    BY <1>0, <1>3, CallsFree DEF Created, CreateStored, Creating, Free, Succeeds
  <2> QED BY <2>2, <2>3 DEF WorkerSource
<1>4. CASE EditMissing
  BY <1>0, <1>4, IdFacts DEF EditMissing, WorkerSource
<1>5. CASE SummarySkipped \/ SummaryDone
  BY <1>5, BodyFacts, BytesFacts
     DEF SummarySkipped, SummaryDone, NewWindow, Running, WorkerSource
<1>6. CASE Packet
  <2>1. worker' = [worker EXCEPT !.bytes = worker.bytes + 1] /\ Up
    BY <1>6 DEF Packet, Running
  <2>2. worker'.id = worker.id
    BY <2>1, WorkerFacts DEF Memories
  <2> QED BY <2>1, <2>2 DEF WorkerSource
<1>7. CASE Start
  BY <1>7, LoadedType, Numbers DEF Start, WorkerSource
<1>8. \/ worker' = worker \/ worker' = None \/ Sample \/ Created \/ EditMissing
      \/ SummarySkipped \/ SummaryDone \/ Packet \/ Start
  BY DEF Next, WorkerNext, AlertDone,
         StatusTick, Edited, StatusFails, SummaryTick, Checkpoint, Answered, Store,
         MaintNext, StopWorker, StopFails, StopTimesOut, Publish, Replace, Published, PublishFails, ControllerKilled,
         Reboot, RebootFails, Boot, Environment, Retry, CooldownPasses, Kill, Dies,
         FileLost, HealthFlips, MessageDeleted
<1> QED BY <1>1, <1>2, <1>3, <1>4, <1>5, <1>6, <1>7, <1>8

LEMMA CallSources ==
  ASSUME TypeOK, CallInv, Next
  PROVE  CallSource
<1>. USE DEF fileVars, ghosts
<1>0. /\ "worker" \in Processes /\ "maint" \in Processes /\ None \in Ids
      /\ \A p \in Processes : p = "worker" \/ p = "maint"
      /\ "worker" # "maint"
  BY DEF Processes, Ids
<1>1. CASE call' = call
  BY <1>1 DEF CallSource, Free
<1>2. CASE Begin("worker", None) \/ Begin("maint", None)
  BY <1>0, <1>2, CallsFree DEF CallSource, Free
<1>3. CASE Confirm
  BY <1>0, <1>1, <1>3, ConfirmFacts DEF CallSource, Free
<1>4. CASE StatusTick
  BY <1>0, <1>4, StatusRequest DEF StatusTick, Running, CallSource, Free
<1>5. CASE SummaryTick
  BY <1>0, <1>5, SummaryRequest DEF CallSource, Free
<1>6. CASE Publish
  <2>1. CASE disk.id = None
    BY <1>1, <1>6, <2>1 DEF Publish
  <2>2. CASE disk.id # None
    <3>1. disk.id \in Ids /\ "edit" \in {"create", "edit"}
      BY Numbers DEF Files
    <3>2. Begin("maint", Request("edit", "MAINTENANCE", 0, disk.id))
      BY <1>6, <2>2 DEF Publish
    <3> QED BY <1>0, <3>1, <3>2, MaintRequest DEF CallSource, Free
  <2> QED BY <2>1, <2>2
<1>7. CASE Replace
  <2>1. None \in Ids /\ "create" \in {"create", "edit"}
    BY DEF Ids
  <2>2. Begin("maint", Request("create", "MAINTENANCE", 0, None))
    BY <1>7 DEF Replace
  <2> QED BY <1>0, <2>1, <2>2, MaintRequest DEF CallSource, Free
<1>8. ASSUME NEW p \in Processes, Store(p) PROVE CallSource
  <2>1. \A q \in Processes : q # p => call'[q] = call[q]
    BY <1>8, StoreFacts
  <2>2. CASE call[p].kind = "create"
    BY <1>8, <2>1, <2>2, StoreFacts DEF CallSource, Free
  <2>3. CASE call[p].kind # "create"
    BY <1>8, <2>1, <2>3, StoreFacts DEF CallSource, Free
  <2> QED BY <2>2, <2>3
<1>9. ASSUME NEW p \in Processes, Retry(p) PROVE CallSource
  BY <1>9, RetryFacts DEF CallSource, Free
<1>10. \/ call' = call \/ Begin("worker", None) \/ Begin("maint", None) \/ Confirm
       \/ StatusTick \/ SummaryTick \/ Publish \/ Replace
       \/ \E p \in Processes : Store(p) \/ Retry(p)
  BY DEF Next, WorkerNext, Sample, Baseline, Unchanged, FirstSample, AlertDone,
         Created, Edited, EditMissing, StatusFails,
         SummarySkipped, SummaryDone, Checkpoint, Answered,
         MaintNext, StopWorker, StopFails, StopTimesOut, Published, PublishFails, ControllerKilled,
         Reboot, RebootFails, Boot, Environment, Packet, CooldownPasses, Start, Kill,
         Dies, FileLost, HealthFlips, MessageDeleted
<1> QED BY <1>1, <1>2, <1>3, <1>4, <1>5, <1>6, <1>7, <1>8, <1>9, <1>10

\* A message that Discord stores is born with what the request says.
LEMMA StoreCreates ==
  ASSUME TypeOK, CallInv, NEW p \in Processes, Store(p), call[p].kind = "create"
  PROVE  /\ call'[p].id \in Messages /\ channel[call'[p].id] = "free"
         /\ channel' = [channel EXCEPT ![call'[p].id] = call[p].body]
         /\ call[p].body \notin {"free", "deleted"}
<1>1. call[p] \in Requests /\ call \in [Processes -> Requests \cup {None}]
  BY Calls DEF Store, TypeOK
<1>2. PICK m \in NewMessages :
        /\ channel' = [channel EXCEPT ![m] = call[p].body]
        /\ call' = [call EXCEPT ![p].stored = TRUE, ![p].id = m]
  BY DEF Store
<1>3. call' = [call EXCEPT ![p] = [call[p] EXCEPT !.stored = TRUE, !.id = m]]
  BY <1>1, <1>2
<1>4. call'[p].id = m
  BY <1>1, <1>3 DEF Requests
<1>5. call[p].body \notin {"free", "deleted"}
  BY DEF Store, CallInv, WorkerCall, MaintCall, Free, Processes, Statuses
<1> QED BY <1>2, <1>4, <1>5 DEF NewMessages

LEMMA BornStep ==
  ASSUME TypeOK, CallInv, IdsInv, Next, TypeOK'
  PROVE  BornInv'
<1>1. BornInv /\ DiskSource /\ LoadedSource /\ WorkerSource /\ CallSource
  BY DiskSources, LoadedSources, WorkerSources, CallSources DEF IdsInv
<1>. DEFINE Alive(i) == i # None => channel'[i] # "free"
<1>2. \A i \in Ids : Born(i) => Alive(i)
  BY BornStays DEF Ids, Born
<1>3. /\ disk.id \in Ids /\ loaded.id \in Ids /\ (Up => worker.id \in Ids)
      /\ \A p \in Processes : ~Free(p) => call[p].id \in Ids
  BY Numbers, WorkerFacts, Calls DEF Files
<1>4. /\ Alive(None) /\ Alive(disk.id) /\ Alive(loaded.id) /\ (Up => Alive(worker.id))
      /\ \A p \in Processes : ~Free(p) => Alive(call[p].id)
  BY <1>1, <1>2, <1>3 DEF BornInv
<1>5. \A p \in Processes : CreateStored(p) => ~Free(p)
  BY DEF CreateStored, Creating, Free
<1>6. ASSUME NEW p \in Processes, Store(p), call[p].kind = "create"
      PROVE  Alive(call'[p].id)
  BY <1>6, StoreCreates DEF TypeOK
<1>. HIDE DEF Alive
<1>7. Alive(disk'.id)
  BY <1>1, <1>4, <1>5 DEF DiskSource
<1>8. Alive(loaded'.id)
  BY <1>1, <1>4 DEF LoadedSource
<1>9. worker' # None => Alive(worker'.id)
  BY <1>1, <1>4, <1>5 DEF WorkerSource, CreateStored, Creating, Free, Processes
<1>10. ASSUME NEW p \in Processes, call'[p] # None PROVE Alive(call'[p].id)
  BY <1>1, <1>4, <1>6, <1>10 DEF CallSource
<1> QED BY <1>7, <1>8, <1>9, <1>10 DEF BornInv, Born, Alive, Up, Free

LEMMA UniqueStep ==
  ASSUME TypeOK, CallInv, IdsInv, Next
  PROVE  UniqueInv'
<1>1. BornInv /\ UniqueInv /\ DiskSource /\ WorkerSource /\ CallSource
  BY DiskSources, WorkerSources, CallSources DEF IdsInv
<1>2. SUFFICES ASSUME NEW p \in Processes, call'[p] # None, call'[p].kind = "create",
                      call'[p].stored
               PROVE  /\ call'[p].id # None /\ call'[p].id # disk'.id
                      /\ worker' # None => call'[p].id # worker'.id
                      /\ \A q \in Processes \ {p} :
                           call'[q] # None /\ call'[q].kind = "create"
                             /\ call'[q].stored => call'[q].id # call'[p].id
  BY DEF UniqueInv, CreateStored, Creating, Up
<1>3. CASE ~Free(p) /\ call'[p] = call[p]
  <2>1. CreateStored(p)
    BY <1>2, <1>3 DEF CreateStored, Creating, Free
  <2>2. /\ call[p].id # None /\ call[p].id # disk.id
        /\ Up => call[p].id # worker.id
        /\ \A q \in Processes : q # p /\ CreateStored(q) => call[q].id # call[p].id
    BY <1>1, <2>1 DEF UniqueInv
  <2>3. call'[p].id # disk'.id
    BY <1>1, <1>2, <1>3, <2>2 DEF DiskSource
  <2>4. worker' # None => call'[p].id # worker'.id
    BY <1>1, <1>2, <1>3, <2>2 DEF WorkerSource, Processes
  <2>5. ASSUME NEW q \in Processes \ {p}, call'[q] # None, call'[q].kind = "create",
               call'[q].stored
        PROVE  call'[q].id # call'[p].id
    <3>1. CASE ~Free(q) /\ call'[q] = call[q]
      BY <1>3, <2>2, <2>5, <3>1 DEF CreateStored, Creating, Free
    <3>2. CASE Store(q) /\ call[q].kind = "create" /\ call'[q].id \in NewMessages
      <4>1. channel[call'[q].id] = "free"
        BY <3>2 DEF NewMessages
      <4>2. channel[call[p].id] # "free"
        BY <1>1, <1>3, <2>2 DEF BornInv, Born
      <4> QED BY <1>3, <4>1, <4>2
    <3> QED BY <1>1, <2>5, <3>1, <3>2 DEF CallSource
  <2> QED BY <1>3, <2>2, <2>3, <2>4, <2>5
<1>4. CASE Store(p) /\ call[p].kind = "create" /\ call'[p].id \in NewMessages
  <2>1. channel[call'[p].id] = "free" /\ call'[p].id # None
    BY <1>4, NoneAssumption DEF NewMessages
  <2>2. /\ disk' = disk /\ worker' = worker
        /\ \A q \in Processes : q # p => call'[q] = call[q]
    BY <1>4, StoreFacts
  <2>3. call'[p].id # disk'.id
    BY <1>1, <2>1, <2>2 DEF BornInv, Born
  <2>4. worker' # None => call'[p].id # worker'.id
    BY <1>1, <2>1, <2>2 DEF BornInv, Born, Up
  <2>5. \A q \in Processes \ {p} : call'[q] # None => call'[q].id # call'[p].id
    BY <1>1, <2>1, <2>2 DEF BornInv, Born, Free
  <2> QED BY <2>1, <2>3, <2>4, <2>5
<1> QED BY <1>1, <1>2, <1>3, <1>4 DEF CallSource

(***************************************************************************)
(* The budgets, the windows and the statuses.                              *)
(***************************************************************************)
\* The faults and refusals that were paid stay paid.
LEMMA Spending ==
  ASSUME TypeOK, CallInv, Next
  PROVE  \E f, r \in Nat : Costs(used', f, r)
<1>. USE DEF fileVars, ghosts
<1>0. /\ "worker" \in Processes /\ "maint" \in Processes /\ 0 \in Nat /\ 1 \in Nat
      /\ Costs(used, 0, 0)
  BY SpendCosts DEF Processes
<1>1. CASE used' = used
  BY <1>0, <1>1
<1>2. CASE AlertDone
  BY <1>2, AlertDoneOutcome DEF Saves
<1>3. CASE SummaryDone
  BY <1>3, SummaryDoneOutcome DEF Saves
<1>4. CASE \E file : Save(file, used)
  <2>1. PICK file : Save(file, used)
    BY <1>4
  <2> QED BY <1>0, <2>1, SaveOutcome DEF Saves
<1>5. ASSUME NEW p \in Processes, ~Free(p), used' \in Failures(p)
      PROVE  \E f, r \in Nat : Costs(used', f, r)
  BY <1>0, <1>5, FailureCosts
<1>6. CASE StopWorker \/ Kill
  <2>1. PICK f \in {0, 1} : Costs(used', f, 0)
    BY <1>6, DiesOutcome DEF StopWorker, Kill
  <2> QED BY <1>0, <2>1
<1>7. CASE Reboot
  <2>1. PICK f \in {0, 1} : Costs(used', f, 0)
    BY <1>0, <1>7, DiesOutcome DEF Reboot
  <2> QED BY <1>0, <2>1
<1>8. CASE StopFails \/ StopTimesOut \/ ControllerKilled \/ RebootFails \/ FileLost
           \/ HealthFlips \/ MessageDeleted
  BY <1>0, <1>8, SpendCosts
     DEF StopFails, StopTimesOut, ControllerKilled, RebootFails, FileLost, HealthFlips,
         MessageDeleted, Dies
<1>9. ASSUME NEW p \in Processes, Retry(p)
      PROVE  \E f, r \in Nat : Costs(used', f, r)
  BY <1>0, <1>9, RetryFacts
<1>10. \/ used' = used \/ AlertDone \/ SummaryDone \/ \E file : Save(file, used)
       \/ \E p \in Processes : ~Free(p) /\ used' \in Failures(p)
       \/ StopWorker \/ Kill \/ Reboot \/ StopFails \/ StopTimesOut
       \/ ControllerKilled \/ RebootFails \/ FileLost
       \/ HealthFlips \/ MessageDeleted \/ \E p \in Processes : Retry(p)
  <2>1. CASE WorkerNext
    <3>1. CASE Sample \/ StatusTick \/ SummaryTick \/ Edited
      BY <3>1 DEF Sample, Baseline, Unchanged, FirstSample, Confirm, StatusTick,
                  SummaryTick, Edited
    <3>2. CASE Created \/ EditMissing \/ SummarySkipped \/ Checkpoint
      BY <3>2 DEF Created, EditMissing, SummarySkipped, Checkpoint
    <3>3. CASE StatusFails
      BY <1>0, <3>3 DEF StatusFails
    <3> QED BY <2>1, <3>1, <3>2, <3>3 DEF WorkerNext
  <2>2. CASE Answered
    BY <2>2 DEF Answered, Store
  <2>3. CASE Publish \/ Replace \/ Boot
    BY <2>3 DEF Publish, Replace, Boot
  <2>4. CASE Published
    <3>1. used' = used \/ \E file : Save(file, used)
      BY <2>4 DEF Published
    <3> QED BY <3>1
  <2>5. CASE PublishFails
    BY <1>0, <2>5 DEF PublishFails
  <2>6. CASE Packet \/ CooldownPasses \/ Start
    BY <2>6 DEF Packet, CooldownPasses, Start
  <2> QED BY <2>1, <2>2, <2>3, <2>4, <2>5, <2>6 DEF Next, MaintNext, Environment
<1> QED BY <1>1, <1>2, <1>3, <1>4, <1>5, <1>6, <1>7, <1>8, <1>9, <1>10

LEMMA PaidStays ==
  ASSUME TypeOK, CallInv, Next
  PROVE  /\ used'.faults = 0 => used.faults = 0
         /\ used'.refused = 0 => used.refused = 0
         /\ used.faults <= used'.faults
<1>1. PICK f \in Nat, r \in Nat : Costs(used', f, r)
  BY Spending
<1>2. used'.faults = used.faults + f /\ used.faults \in Nat
  BY <1>1, Numbers DEF Costs
<1>3. used.faults <= used'.faults
  BY <1>2
<1> QED BY <1>1, <1>3, CostSum

\* Where the content of the file comes from.
FileSource ==
  \/ disk' = disk
  \/ FileLost /\ disk' = FreshState
  \/ /\ Up /\ disk'.confirmed = worker.confirmed /\ disk'.last = worker.last
     /\ \/ disk'.bytes = worker.bytes
        \/ disk'.bytes = 0 /\ (SummaryDone \/ SummarySkipped)
     /\ ~Free("worker") /\ call["worker"].kind = "alert" => AlertDone
     /\ ~Free("worker") /\ call["worker"].kind = "summary" => SummaryDone
  \/ /\ Published /\ disk'.confirmed = loaded.confirmed /\ disk'.last = loaded.last
     /\ disk'.bytes = loaded.bytes

LEMMA FileSources ==
  ASSUME TypeOK, CallInv, Next
  PROVE  FileSource
<1>. USE DEF fileVars, ghosts
<1>0. "worker" \in Processes /\ "maint" \in Processes /\ None \in Ids
      /\ 0 \in 0..MaxTraffic
  BY BodyFacts DEF Processes
<1>1. CASE disk' = disk
  BY <1>1 DEF FileSource
<1>2. CASE AlertDone
  <2>1. PICK f, r : Saves(Image(worker), f, r)
    BY <1>2, AlertDoneOutcome
  <2>2. Up /\ call["worker"].kind = "alert"
    BY <1>2 DEF AlertDone
  <2> QED BY <1>2, <2>1, <2>2, WorkerFacts DEF Saves, FileSource
<1>3. CASE Created \/ EditMissing
  <2>1. PICK f \in {0, 1} : Saves(Image(worker'), f, 0)
    BY <1>3, SaveOutcome DEF Created, EditMissing
  <2>2. PICK i \in Ids : worker' = [worker EXCEPT !.id = i]
    BY <1>0, <1>3, Calls DEF Created, EditMissing
  <2>3. Up /\ call["worker"].kind \notin {"alert", "summary"}
    BY <1>3 DEF Created, EditMissing, Missing
  <2>4. /\ Image(worker').confirmed = worker.confirmed
        /\ Image(worker').last = worker.last /\ Image(worker').bytes = worker.bytes
    BY <2>2, <2>3, IdFacts
  <2>5. disk' = disk \/ disk' = Image(worker')
    BY <2>1 DEF Saves
  <2> QED BY <2>3, <2>4, <2>5 DEF FileSource
<1>4. CASE SummarySkipped
  <2>1. PICK f \in {0, 1} : Saves(Image(worker'), f, 0)
    BY <1>4, SaveOutcome DEF SummarySkipped
  <2>2. Up /\ Free("worker") /\ worker' = [worker EXCEPT !.bytes = 0]
    BY <1>4 DEF SummarySkipped, Running, NewWindow
  <2>4. /\ Image(worker').confirmed = worker.confirmed
        /\ Image(worker').last = worker.last /\ Image(worker').bytes = 0
    BY <1>0, <2>2, BytesFacts
  <2>5. disk' = disk \/ disk' = Image(worker')
    BY <2>1 DEF Saves
  <2> QED BY <1>4, <2>2, <2>4, <2>5 DEF FileSource
<1>5. CASE SummaryDone
  <2>1. PICK f, r : Saves(Image(worker'), f, r)
    BY <1>5, SummaryDoneOutcome
  <2>2. Up /\ call["worker"].kind = "summary" /\ worker' = [worker EXCEPT !.bytes = 0]
    BY <1>5 DEF SummaryDone, NewWindow
  <2>4. /\ Image(worker').confirmed = worker.confirmed
        /\ Image(worker').last = worker.last /\ Image(worker').bytes = 0
    BY <1>0, <2>2, BytesFacts
  <2>5. disk' = disk \/ disk' = Image(worker')
    BY <2>1 DEF Saves
  <2> QED BY <1>5, <2>2, <2>4, <2>5 DEF FileSource
<1>6. CASE Checkpoint
  <2>1. PICK f \in {0, 1} : Saves(Image(worker), f, 0)
    BY <1>6, SaveOutcome DEF Checkpoint
  <2>2. Up /\ Free("worker")
    BY <1>6 DEF Checkpoint, Running
  <2> QED BY <2>1, <2>2, WorkerFacts DEF Saves, FileSource
<1>7. CASE FileLost
  BY <1>7 DEF FileLost, FileSource
<1>8. CASE Published
  <2>1. CASE call["maint"].kind = "create"
    <3>1. PICK f \in {0, 1} : Saves([loaded EXCEPT !.id = call["maint"].id], f, 0)
      BY <1>8, <2>1, SaveOutcome DEF Published
    <3>. DEFINE file == [loaded EXCEPT !.id = call["maint"].id]
    <3>2. /\ file.confirmed = loaded.confirmed /\ file.last = loaded.last
          /\ file.bytes = loaded.bytes
      BY Numbers DEF Files
    <3>3. disk' = disk \/ disk' = file
      BY <3>1 DEF Saves
    <3>. HIDE DEF file
    <3> QED BY <1>8, <3>2, <3>3 DEF FileSource
  <2>2. CASE call["maint"].kind # "create"
    BY <1>1, <1>8, <2>2 DEF Published
  <2> QED BY <2>1, <2>2
<1>9. \/ disk' = disk \/ AlertDone \/ Created \/ EditMissing \/ SummarySkipped
       \/ SummaryDone \/ Checkpoint \/ FileLost \/ Published
  BY DEF Next, WorkerNext, Sample, Baseline, Unchanged, FirstSample, Confirm,
         StatusTick, Edited, StatusFails, SummaryTick, Answered, Store, MaintNext,
         StopWorker, StopFails, StopTimesOut, Publish, Replace, PublishFails, ControllerKilled, Reboot, RebootFails,
         Boot, Environment, Retry, Packet, CooldownPasses, Start, Kill, HealthFlips,
         MessageDeleted
<1> QED BY <1>1, <1>2, <1>3, <1>4, <1>5, <1>6, <1>7, <1>8, <1>9

\* Where the content of the worker's memory comes from.
MemorySource ==
  worker' # None =>
    \/ /\ Up /\ ~Sample /\ worker'.confirmed = worker.confirmed
       /\ worker'.last = worker.last /\ worker'.init = worker.init
       /\ \/ worker'.bytes = worker.bytes
          \/ worker'.bytes = 0 /\ (SummaryDone \/ SummarySkipped)
          \/ worker'.bytes = worker.bytes + 1 /\ Packet
    \/ /\ Sample /\ worker'.bytes = worker.bytes
    \/ Start /\ worker' = Loaded(disk)

LEMMA MemorySources ==
  ASSUME TypeOK, CallInv, Next
  PROVE  MemorySource
<1>. USE DEF fileVars, ghosts
<1>0. "worker" \in Processes /\ "maint" \in Processes /\ None \in Ids
      /\ 0 \in 0..MaxTraffic
  BY BodyFacts DEF Processes
<1>1. CASE worker' = None \/ Start
  BY <1>1 DEF MemorySource, Start
<1>2. CASE Sample
  BY <1>2, BaselineFacts, CountingFacts, ConfirmFacts DEF MemorySource, Sample
<1>3. CASE worker' = worker /\ ~Sample
  BY <1>3 DEF MemorySource, Up
<1>4. CASE (Created \/ EditMissing) /\ ~Sample
  <2>1. PICK i \in Ids : worker' = [worker EXCEPT !.id = i]
    BY <1>0, <1>4, Calls DEF Created, EditMissing
  <2>2. Up
    BY <1>4 DEF Created, EditMissing
  <2> QED BY <1>4, <2>1, <2>2, IdFacts DEF MemorySource
<1>5. CASE (SummarySkipped \/ SummaryDone) /\ ~Sample
  BY <1>0, <1>5, BytesFacts
     DEF SummarySkipped, SummaryDone, NewWindow, Running, MemorySource
<1>6. CASE Packet /\ ~Sample
  <2>1. worker' = [worker EXCEPT !.bytes = worker.bytes + 1] /\ Up
    BY <1>6 DEF Packet, Running
  <2>2. /\ worker'.confirmed = worker.confirmed /\ worker'.last = worker.last
        /\ worker'.init = worker.init /\ worker'.bytes = worker.bytes + 1
    BY <2>1, WorkerFacts DEF Memories
  <2> QED BY <1>6, <2>1, <2>2 DEF MemorySource
<1>7. \/ worker' = worker \/ worker' = None \/ Sample \/ Created \/ EditMissing
      \/ SummarySkipped \/ SummaryDone \/ Packet \/ Start
  BY DEF Next, WorkerNext, AlertDone,
         StatusTick, Edited, StatusFails, SummaryTick, Checkpoint, Answered, Store,
         MaintNext, StopWorker, StopFails, StopTimesOut, Publish, Replace, Published, PublishFails, ControllerKilled,
         Reboot, RebootFails, Boot, Environment, Retry, CooldownPasses, Kill, Dies,
         FileLost, HealthFlips, MessageDeleted
<1> QED BY <1>1, <1>2, <1>3, <1>4, <1>5, <1>6, <1>7

LEMMA TrafficKept == ASSUME Next PROVE traffic' = traffic \/ Packet
BY DEF fileVars, ghosts, Next, WorkerNext, Sample, Baseline, Unchanged, FirstSample,
       Confirm, AlertDone, StatusTick, Created, Edited, EditMissing, StatusFails,
       SummaryTick, SummarySkipped, SummaryDone, Checkpoint, Answered, Store,
       MaintNext, StopWorker, StopFails, StopTimesOut, Publish, Replace, Published, PublishFails, ControllerKilled,
       Reboot, RebootFails, Boot, Environment, Retry, CooldownPasses, Start, Kill,
       FileLost, HealthFlips, MessageDeleted

LEMMA LoadedContent ==
  ASSUME Next
  PROVE  \/ loaded' = loaded
         \/ Publish /\ loaded' = disk
         \/ (Published \/ PublishFails) /\ loaded' = FreshState
         \/ ControllerKilled /\ loaded' = FreshState
BY DEF fileVars, ghosts, Next, WorkerNext, Sample, Baseline, Unchanged, FirstSample,
       Confirm, AlertDone, StatusTick, Created, Edited, EditMissing, StatusFails,
       SummaryTick, SummarySkipped, SummaryDone, Checkpoint, Answered, Store,
       MaintNext, StopWorker, StopFails, StopTimesOut, Publish, Replace, Published, PublishFails, ControllerKilled,
       Reboot, RebootFails, Boot, Environment, Retry, Packet, CooldownPasses, Start,
       Kill, FileLost, HealthFlips, MessageDeleted

LEMMA WindowStep ==
  ASSUME TypeOK, CallInv, WindowInv, Next
  PROVE  WindowInv'
<1>1. FileSource /\ MemorySource
  BY FileSources, MemorySources
<1>2. /\ traffic \in Nat /\ disk.bytes \in Nat /\ loaded.bytes \in Nat
      /\ Up => worker.bytes \in Nat
      /\ FreshState.bytes = 0
  BY Numbers, FreshType
<1>3. \/ traffic' = traffic /\ ~Packet
      \/ traffic' = traffic + 1 /\ Packet
  BY TrafficKept DEF Packet
<1>. DEFINE Fits(n) == n \in Nat /\ n <= traffic
<1>4. Fits(0) /\ Fits(disk.bytes) /\ Fits(loaded.bytes) /\ (Up => Fits(worker.bytes))
  BY <1>2 DEF WindowInv
<1>5. \A n : Fits(n) => n <= traffic'
  BY <1>2, <1>3
<1>6. \A n : Fits(n) /\ Packet => n + 1 <= traffic'
  BY <1>2, <1>3
<1>. HIDE DEF Fits
<1>7. disk'.bytes <= traffic'
  BY <1>1, <1>2, <1>4, <1>5 DEF FileSource
<1>8. loaded'.bytes <= traffic'
  BY <1>2, <1>4, <1>5, LoadedContent
<1>9. worker' # None => worker'.bytes <= traffic'
  <2>1. CASE Start /\ worker' = Loaded(disk)
    BY <1>4, <1>5, <2>1, Numbers, LoadedType
  <2>2. Sample => Up
    BY DEF Sample, Baseline, Unchanged, FirstSample, Confirm, Running
  <2> QED BY <1>1, <1>4, <1>5, <1>6, <2>1, <2>2 DEF MemorySource
<1> QED BY <1>7, <1>8, <1>9 DEF WindowInv, Up


\* The cooldown keeps back no alert: the last one is that of the confirmed status.
LEMMA ConfirmAlerts ==
  ASSUME TypeOK, StatusInv, Confirm
  PROVE  /\ worker'.last = Evaluated
         /\ call'["worker"] # None /\ call'["worker"].kind = "alert"
         /\ call'["worker"].stored = FALSE
<1>1. /\ Up /\ worker.last = worker.confirmed /\ worker.confirmed # "UNKNOWN"
      /\ worker.confirmed \in Statuses /\ Evaluated # worker.confirmed
  BY WorkerFacts DEF Confirm, Running, StatusInv
<1>2. AlertType(worker.confirmed, Evaluated)
        = IF Evaluated = "DEGRADED" THEN "DEGRADED" ELSE "RECOVERY"
  BY <1>1, EvaluatedType DEF AlertType, Statuses
<1>3. AlertType(worker.confirmed, Evaluated) # None
  BY <1>2, NoneAssumption DEF Contents, Statuses
<1>4. ~Suppressed(AlertType(worker.confirmed, Evaluated))
  BY <1>1, <1>2 DEF Suppressed
<1> QED BY <1>3, <1>4, ConfirmFacts

LEMMA SampleStatus ==
  ASSUME TypeOK, StatusInv, Sample
  PROVE  /\ worker'.last = worker'.confirmed
         /\ worker'.init <=> worker'.confirmed # "UNKNOWN"
<1>0. /\ Up /\ worker.last = worker.confirmed
      /\ worker.init <=> worker.confirmed # "UNKNOWN"
  BY DEF Sample, Baseline, Unchanged, FirstSample, Confirm, Running, StatusInv
<1>1. CASE Baseline
  BY <1>1, EvaluatedType, BaselineFacts
<1>2. CASE Unchanged \/ FirstSample
  BY <1>0, <1>2, CountingFacts
<1>3. CASE Confirm
  <2>1. worker.init /\ worker'.init = worker.init /\ worker'.confirmed = Evaluated
    BY <1>3, ConfirmFacts DEF Confirm
  <2> QED BY <1>3, <2>1, ConfirmAlerts, EvaluatedType
<1> QED BY <1>1, <1>2, <1>3 DEF Sample

LEMMA StatusStep ==
  ASSUME TypeOK, CallInv, StatusInv, Next
  PROVE  StatusInv'
<1>1. FileSource /\ MemorySource
  BY FileSources, MemorySources
<1>2. disk'.last = disk'.confirmed
  BY <1>1, FreshType DEF FileSource, StatusInv
<1>3. loaded'.last = loaded'.confirmed
  BY FreshType, LoadedContent DEF StatusInv
<1>4. worker' # None => /\ worker'.last = worker'.confirmed
                        /\ worker'.init <=> worker'.confirmed # "UNKNOWN"
  <2>1. CASE Sample
    BY <2>1, SampleStatus
  <2>2. CASE Start /\ worker' = Loaded(disk)
    BY <2>2, Numbers, LoadedType DEF StatusInv
  <2>3. CASE /\ Up /\ worker'.confirmed = worker.confirmed
             /\ worker'.last = worker.last /\ worker'.init = worker.init
    BY <2>3 DEF StatusInv
  <2> QED BY <1>1, <2>1, <2>2, <2>3 DEF MemorySource
<1> QED BY <1>2, <1>3, <1>4 DEF StatusInv, Up

(***************************************************************************)
(* What a step does while no fault has happened.                           *)
(***************************************************************************)
\* Nothing that costs a fault has been done.
LEMMA NoFault ==
  ASSUME TypeOK, CallInv, Next, used'.faults = 0
  PROVE  /\ used.faults = 0 /\ ~StopFails /\ ~FileLost
         /\ ~StopTimesOut /\ ~ControllerKilled
         /\ StopWorker \/ Reboot \/ Kill => ~Posting
         /\ \A p \in Processes : Retry(p) => ~call[p].stored
         /\ SummaryDone => disk' = Image(worker')
         /\ SummarySkipped => disk' = Image(worker')
         /\ AlertDone => disk' = Image(worker)
<1>0. used.faults = 0 /\ \A f, r : f \in Nat /\ r \in Nat /\ Costs(used', f, r) => f = 0
  BY PaidStays, CostSum
<1>1. ~StopFails /\ ~FileLost /\ ~StopTimesOut /\ ~ControllerKilled
  BY <1>0, SpendCosts DEF StopFails, FileLost, StopTimesOut, ControllerKilled, Dies
<1>2. StopWorker \/ Reboot \/ Kill => ~Posting
  BY <1>0, DiesOutcome DEF StopWorker, Reboot, Kill
<1>3. ASSUME NEW p \in Processes, Retry(p) PROVE ~call[p].stored
  <2>1. CASE Costs(used', 1, 0)
    <3>1. 1 = 0
      BY <1>0, <2>1
    <3> QED BY <3>1
  <2> QED BY <1>3, <2>1, RetryFacts
<1>4. SummaryDone => disk' = Image(worker')
  BY <1>0, SummaryDoneOutcome DEF Saves
<1>5. SummarySkipped => disk' = Image(worker')
  BY <1>0, SaveOutcome DEF Saves, SummarySkipped
<1>6. AlertDone => disk' = Image(worker)
  BY <1>0, AlertDoneOutcome DEF Saves
<1> QED BY <1>0, <1>1, <1>2, <1>3, <1>4, <1>5, <1>6

\* How the controller moves on.
MaintMove ==
  \/ maint' = maint /\ stopped' = stopped
  \/ StopWorker /\ maint' = "publish" /\ stopped' = TRUE
  \/ StopFails
  \/ /\ Publish /\ maint = "publish" /\ maint' \in {"asking", "reboot"}
     /\ stopped' = stopped
  \/ /\ Published \/ PublishFails
     /\ maint = "asking" /\ maint' = "reboot" /\ stopped' = stopped
  \/ maint' \in {"idle", "booting"}

LEMMA MaintMoves == ASSUME Next PROVE MaintMove
<1>1. CASE WorkerNext \/ Environment \/ Answered \/ Replace
  BY <1>1 DEF WorkerNext, Sample, Baseline, Unchanged, FirstSample, Confirm, AlertDone,
              StatusTick, Created, Edited, EditMissing, StatusFails, SummaryTick,
              SummarySkipped, SummaryDone, Checkpoint, Answered, Store, Replace,
              Environment, Retry, Packet, CooldownPasses, Start, Kill, FileLost,
              HealthFlips, MessageDeleted, MaintMove, fileVars, ghosts
<1>2. CASE StopWorker \/ StopFails \/ StopTimesOut \/ Publish
  BY <1>2 DEF StopWorker, StopTimesOut, Publish, MaintMove
<1>3. CASE Published \/ PublishFails \/ ControllerKilled \/ Reboot \/ RebootFails \/ Boot
  BY <1>3
     DEF Published, PublishFails, ControllerKilled, Reboot, RebootFails, Boot, MaintMove
<1> QED BY <1>1, <1>2, <1>3 DEF Next, MaintNext

LEMMA AloneStep ==
  ASSUME TypeOK, CallInv, Alone, Next
  PROVE  Alone'
<1>1. SUFFICES ASSUME used'.faults = 0
               PROVE  /\ maint' \in {"publish", "asking"} => stopped'
                      /\ maint' = "asking" => loaded' = disk'
  BY DEF Alone
<1>2. /\ used.faults = 0 /\ ~StopFails /\ ~FileLost
      /\ maint \in {"publish", "asking"} => stopped
      /\ maint = "asking" => loaded = disk
      /\ stopped => ~Up
  BY <1>1, NoFault DEF Alone, CallInv, StoppedInv
<1>3. maint' \in {"publish", "asking"} => stopped'
  BY <1>2, MaintMoves DEF MaintMove
<1>4. ASSUME maint' = "asking" PROVE loaded' = disk'
  <2>1. CASE Publish
    BY <1>4, <2>1 DEF Publish
  <2>2. CASE ~Publish
    <3>1. maint = "asking" /\ ~Published /\ ~PublishFails /\ ~ControllerKilled
      BY <1>2, <1>4, <2>2, MaintMoves
         DEF MaintMove, Published, PublishFails, ControllerKilled
    <3>2. loaded' = loaded
      BY <2>2, <3>1, LoadedContent
    <3>3. disk' = disk
      BY <1>2, <3>1, FileSources DEF FileSource
    <3> QED BY <1>2, <3>1, <3>2, <3>3
  <2> QED BY <2>1, <2>2
<1> QED BY <1>3, <1>4

\* A post that Discord stored stays under way until the worker has the answer.
LEMMA StoredStays ==
  ASSUME TypeOK, CallInv, Next, used'.faults = 0, ~Free("worker"),
         call["worker"].stored, call["worker"].kind # "edit"
  PROVE  \/ call'["worker"] = call["worker"]
         \/ AlertDone /\ call["worker"].kind = "alert"
         \/ SummaryDone /\ call["worker"].kind = "summary"
         \/ Created
<1>. USE DEF fileVars, ghosts
<1>0. /\ "worker" \in Processes /\ "maint" \in Processes
      /\ \A p \in Processes : p = "worker" \/ p = "maint"
      /\ "worker" # "maint" /\ Posting
  BY DEF Processes, Posting
<1>1. CASE WorkerNext
  <2>1. CASE Sample \/ StatusTick \/ SummaryTick \/ SummarySkipped \/ Checkpoint
    BY <2>1 DEF Sample, Baseline, Unchanged, FirstSample, Confirm, StatusTick,
                SummaryTick, SummarySkipped, Checkpoint, Running
  <2>2. CASE AlertDone \/ SummaryDone \/ Created
    BY <2>2 DEF AlertDone, SummaryDone
  <2>3. CASE Edited \/ EditMissing
    BY <2>3 DEF Edited, EditMissing, Missing
  <2>4. CASE StatusFails
    <3>1. Costs(used', 1, 0)
      BY <1>0, <2>4, FailureCosts DEF StatusFails
    <3>2. used'.faults # 0
      BY <3>1, CostSum
    <3> QED BY <3>2
  <2> QED BY <1>1, <2>1, <2>2, <2>3, <2>4 DEF WorkerNext
<1>2. CASE Answered
  BY <1>0, <1>2, StoreFacts DEF Answered
<1>3. CASE MaintNext
  <2>1. CASE StopWorker \/ Reboot
    BY <1>0, <2>1, NoFault
  <2>2. CASE StopFails \/ RebootFails \/ Boot
    BY <2>2 DEF StopFails, RebootFails, Boot
  <2>3. CASE Publish \/ Replace \/ Published \/ PublishFails
    <3>1. CASE call' = call
      BY <3>1
    <3>2. CASE \E r : Begin("maint", r)
      BY <1>0, <3>2, BeginFacts
    <3> QED BY <2>3, <3>1, <3>2 DEF Publish, Replace, Published, PublishFails
  <2>4. ~StopTimesOut /\ ~ControllerKilled
    BY NoFault
  <2> QED BY <1>3, <2>1, <2>2, <2>3, <2>4 DEF MaintNext
<1>4. CASE Environment
  <2>1. ASSUME NEW p \in Processes, Retry(p) PROVE call'["worker"] = call["worker"]
    <3>1. ~call[p].stored
      BY <2>1, NoFault
    <3> QED BY <1>0, <2>1, <3>1, RetryFacts
  <2>2. CASE Kill
    BY <1>0, <2>2, NoFault
  <2>3. CASE Packet \/ CooldownPasses \/ Start \/ FileLost \/ HealthFlips
             \/ MessageDeleted
    BY <2>3 DEF Packet, CooldownPasses, Start, FileLost, HealthFlips, MessageDeleted
  <2> QED BY <1>4, <2>1, <2>2, <2>3 DEF Environment
<1> QED BY <1>1, <1>2, <1>3, <1>4 DEF Next

LEMMA ReportedKept ==
  ASSUME TypeOK, CallInv, Next
  PROVE  \/ reported' = reported
         \/ /\ Store("worker") /\ call["worker"].kind = "summary"
            /\ reported' = reported + worker.bytes
<1>1. reported' = reported \/ Answered
  BY DEF fileVars, ghosts, Next, WorkerNext, Sample, Baseline, Unchanged, FirstSample,
         Confirm, AlertDone, StatusTick, Created, Edited, EditMissing, StatusFails,
         SummaryTick, SummarySkipped, SummaryDone, Checkpoint,
         MaintNext, StopWorker, StopFails, StopTimesOut, Publish, Replace, Published, PublishFails, ControllerKilled,
         Reboot, RebootFails, Boot, Environment, Retry, Packet, CooldownPasses, Start,
         Kill, FileLost, HealthFlips, MessageDeleted
<1>2. CASE Store("maint")
  <2>1. call["maint"].kind \in {"create", "edit"}
    BY <1>2 DEF Store, CallInv, MaintCall
  <2> QED BY <1>2, <2>1 DEF Store
<1>3. CASE Store("worker")
  <2>1. call["worker"].kind = "summary" => call["worker"].size = worker.bytes
    BY <1>3 DEF Store, CallInv, WorkerCall
  <2>2. call["worker"].kind \in Kinds
    BY <1>3, Calls DEF Store, Kinds, Processes
  <2> QED BY <1>3, <2>1, <2>2 DEF Store, Kinds
<1> QED BY <1>1, <1>2, <1>3 DEF Answered, Processes

LEMMA CountedStep ==
  ASSUME TypeOK, CallInv, FaultlessInv, Next
  PROVE  Counted'
<1>1. SUFFICES ASSUME used'.faults = 0
               PROVE  /\ reported' <= traffic'
                      /\ ~SummaryStored' =>
                           /\ reported' + disk'.bytes <= traffic'
                           /\ worker' # None => reported' + worker'.bytes <= traffic'
  BY DEF Counted, Up
<1>2. /\ used.faults = 0 /\ ~StopFails /\ ~FileLost
      /\ SummaryDone => disk' = Image(worker')
      /\ maint = "asking" => loaded = disk
      /\ reported <= traffic
      /\ ~SummaryStored =>
           /\ reported + disk.bytes <= traffic
           /\ Up => reported + worker.bytes <= traffic
  BY <1>1, NoFault DEF FaultlessInv, Alone, Counted
<1>3. /\ traffic \in Nat /\ reported \in Nat /\ disk.bytes \in Nat
      /\ Up => worker.bytes \in Nat
  BY Numbers
<1>4. /\ \/ traffic' = traffic /\ ~Packet
         \/ traffic' = traffic + 1 /\ Packet
      /\ Packet => Running
  BY TrafficKept DEF Packet
<1>5. CASE SummaryStored
  <2>1. ~Free("worker") /\ call["worker"].stored /\ call["worker"].kind = "summary"
    BY <1>5 DEF SummaryStored, Free
  <2>2. reported' = reported
    BY <2>1, ReportedKept DEF Store
  <2>3. traffic' = traffic
    BY <1>4, <2>1 DEF Running
  <2>4. CASE call'["worker"] = call["worker"]
    BY <1>2, <1>5, <2>2, <2>3, <2>4 DEF SummaryStored
  <2>5. CASE SummaryDone
    <3>1. Up /\ worker' = [worker EXCEPT !.bytes = 0]
      BY <2>5 DEF SummaryDone, NewWindow
    <3>2. worker'.bytes = 0 /\ Image(worker').bytes = 0
      BY <3>1, BodyFacts, BytesFacts
    <3>3. disk'.bytes = 0
      BY <1>2, <2>5, <3>2
    <3>4. reported' + 0 <= traffic'
      BY <1>2, <1>3, <2>2, <2>3
    <3> QED BY <1>2, <2>2, <2>3, <3>2, <3>3, <3>4
  <2>6. ~Created
    BY <2>1 DEF Created
  <2> QED BY <1>1, <2>1, <2>4, <2>5, <2>6, StoredStays
<1>6. CASE ~SummaryStored
  <2>1. CASE /\ Store("worker") /\ call["worker"].kind = "summary"
             /\ reported' = reported + worker.bytes
    <3>1. Up /\ traffic' = traffic
      BY <2>1 DEF Store, CallInv, WorkerCall
    <3>2. SummaryStored'
      BY <2>1, StoreFacts DEF SummaryStored, Processes
    <3> QED BY <1>2, <1>6, <2>1, <3>1, <3>2
  <2>2. CASE reported' = reported
    <3>. DEFINE Fits(n) == n \in Nat /\ reported + n <= traffic
    <3>1. /\ Fits(0) /\ Fits(disk.bytes) /\ (Up => Fits(worker.bytes))
          /\ maint = "asking" => Fits(loaded.bytes)
      BY <1>2, <1>3, <1>6
    <3>2. \A n : Fits(n) => reported' + n <= traffic'
      BY <1>3, <1>4, <2>2
    <3>3. \A n : Fits(n) /\ Packet => reported' + (n + 1) <= traffic'
      BY <1>3, <1>4, <2>2
    <3>. HIDE DEF Fits
    <3>4. reported' + 0 <= traffic'
      BY <3>1, <3>2
    <3>5. reported' <= traffic'
      BY <1>3, <2>2, <3>4
    <3>6. reported' + disk'.bytes <= traffic'
      BY <1>2, <3>1, <3>2, FileSources DEF FileSource, Published
    <3>7. worker' # None => reported' + worker'.bytes <= traffic'
      <4>1. CASE Start /\ worker' = Loaded(disk)
        BY <3>1, <3>2, <4>1, Numbers, LoadedType
      <4>2. Sample => Up
        BY DEF Sample, Baseline, Unchanged, FirstSample, Confirm, Running
      <4> QED BY <3>1, <3>2, <3>3, <4>1, <4>2, MemorySources DEF MemorySource
    <3> QED BY <3>5, <3>6, <3>7
  <2> QED BY <2>1, <2>2, ReportedKept
<1> QED BY <1>5, <1>6

(***************************************************************************)
(* The alerts.                                                             *)
(***************************************************************************)
LEMMA ToldKept ==
  ASSUME TypeOK, CallInv, Next
  PROVE  \/ told' = told
         \/ /\ Store("worker") /\ call["worker"].kind = "alert"
            /\ told' = call["worker"].body
<1>1. told' = told \/ Answered
  BY DEF fileVars, ghosts, Next, WorkerNext, Sample, Baseline, Unchanged, FirstSample,
         Confirm, AlertDone, StatusTick, Created, Edited, EditMissing, StatusFails,
         SummaryTick, SummarySkipped, SummaryDone, Checkpoint,
         MaintNext, StopWorker, StopFails, StopTimesOut, Publish, Replace, Published, PublishFails, ControllerKilled,
         Reboot, RebootFails, Boot, Environment, Retry, Packet, CooldownPasses, Start,
         Kill, FileLost, HealthFlips, MessageDeleted
<1>2. CASE Store("maint")
  <2>1. call["maint"].kind \in {"create", "edit"}
    BY <1>2 DEF Store, CallInv, MaintCall
  <2> QED BY <1>2, <2>1 DEF Store
<1>3. CASE Store("worker")
  <2>2. call["worker"].kind \in Kinds
    BY <1>3, Calls DEF Store, Kinds, Processes
  <2> QED BY <1>3, <2>2 DEF Store, Kinds
<1> QED BY <1>1, <1>2, <1>3 DEF Answered, Processes

\* An alert that Discord did not store yet is kept until it is.
LEMMA AlertStays ==
  ASSUME TypeOK, CallInv, Next, used'.faults = 0, used'.refused = 0, Alerting
  PROVE  \/ call'["worker"] = call["worker"]
         \/ Store("worker")
         \/ worker' = None
         \/ AlertDone /\ call["worker"].stored
<1>. USE DEF fileVars, ghosts
<1>0. /\ "worker" \in Processes /\ "maint" \in Processes
      /\ \A p \in Processes : p = "worker" \/ p = "maint"
      /\ "worker" # "maint" /\ ~Free("worker") /\ call["worker"].kind = "alert"
  BY DEF Processes, Alerting, Free
<1>01. \A f, r : f \in Nat /\ r \in Nat /\ Costs(used', f, r) => f = 0 /\ r = 0
  BY CostSum
<1>1. CASE WorkerNext
  <2>1. CASE Sample \/ StatusTick \/ SummaryTick \/ SummarySkipped \/ Checkpoint
    BY <1>0, <2>1 DEF Sample, Baseline, Unchanged, FirstSample, Confirm, StatusTick,
                SummaryTick, SummarySkipped, Checkpoint, Running
  <2>2. CASE AlertDone
    BY <1>01, <2>2, AlertDoneOutcome DEF Saves
  <2>3. CASE Edited \/ EditMissing \/ Created \/ SummaryDone \/ StatusFails
    BY <1>0, <2>3 DEF Edited, EditMissing, Missing, Created, SummaryDone, StatusFails
  <2> QED BY <1>1, <2>1, <2>2, <2>3 DEF WorkerNext
<1>2. CASE Answered
  <2>1. CASE Store("maint")
    BY <1>0, <2>1, StoreFacts
  <2> QED BY <1>2, <2>1 DEF Answered, Processes
<1>3. CASE MaintNext
  <2>1. CASE StopWorker \/ Reboot
    BY <2>1 DEF StopWorker, Reboot, Dies
  <2>2. CASE StopFails \/ RebootFails \/ Boot
    BY <2>2 DEF StopFails, RebootFails, Boot
  <2>3. CASE Publish \/ Replace \/ Published \/ PublishFails
    <3>1. CASE call' = call
      BY <3>1
    <3>2. CASE \E r : Begin("maint", r)
      BY <1>0, <3>2, BeginFacts
    <3> QED BY <2>3, <3>1, <3>2 DEF Publish, Replace, Published, PublishFails
  <2>4. ~StopTimesOut /\ ~ControllerKilled
    BY NoFault
  <2> QED BY <1>3, <2>1, <2>2, <2>3, <2>4 DEF MaintNext
<1>4. CASE Environment
  <2>1. ASSUME NEW p \in Processes, Retry(p) PROVE call'["worker"] = call["worker"]
    <3>1. Costs(used', 0, 1) \/ Costs(used', 1, 0)
      BY <2>1, RetryFacts
    <3>2. 1 = 0
      BY <1>01, <3>1
    <3> QED BY <3>2
  <2>2. CASE Kill
    BY <2>2 DEF Kill, Dies
  <2>3. CASE Packet \/ CooldownPasses \/ Start \/ FileLost \/ HealthFlips
             \/ MessageDeleted
    BY <2>3 DEF Packet, CooldownPasses, Start, FileLost, HealthFlips, MessageDeleted
  <2> QED BY <1>4, <2>1, <2>2, <2>3 DEF Environment
<1> QED BY <1>1, <1>2, <1>3, <1>4 DEF Next

LEMMA AlertStep ==
  ASSUME TypeOK, CallInv, FaultlessInv, StatusInv, AlertInv, Next
  PROVE  AlertInv'
<1>1. SUFFICES ASSUME used'.faults = 0, used'.refused = 0
               PROVE  /\ AlertStored' \/ Matches(disk.confirmed)'
                      /\ worker' # None /\ (~Alerting' \/ AlertStored')
                           => Matches(worker.confirmed)'
  BY DEF AlertInv, Up
<1>2. /\ used.faults = 0 /\ used.refused = 0 /\ ~FileLost
      /\ AlertDone => disk' = Image(worker)
      /\ maint = "asking" => loaded = disk
  BY <1>1, NoFault, PaidStays DEF FaultlessInv, Alone
<1>3. /\ AlertStored \/ Matches(disk.confirmed)
      /\ Up /\ (~Alerting \/ AlertStored) => Matches(worker.confirmed)
      /\ AlertStored => Alerting /\ ~Free("worker") /\ call["worker"].stored
      /\ Alerting => ~Free("worker") /\ call["worker"].kind = "alert" /\ Up
  BY <1>2 DEF AlertInv, AlertStored, Alerting, Free, CallInv, WorkerCall
<1>. DEFINE After(s) == told' # "none" => /\ s # "UNKNOWN"
                                          /\ told' = "DEGRADED" <=> s = "DEGRADED"
<1>4. SUFFICES /\ AlertStored' \/ After(disk'.confirmed)
               /\ worker' # None /\ (~Alerting' \/ AlertStored')
                    => After(worker'.confirmed)
  BY DEF Matches
<1>5. CASE /\ Store("worker") /\ call["worker"].kind = "alert"
           /\ told' = call["worker"].body
  <2>1. AlertStored' /\ worker' = worker
    BY <1>5, StoreFacts DEF AlertStored, Alerting, Processes
  <2>2. /\ worker.confirmed # "UNKNOWN"
        /\ told' = IF worker.confirmed = "DEGRADED" THEN "DEGRADED" ELSE "RECOVERY"
    BY <1>5 DEF Store, CallInv, WorkerCall
  <2> QED BY <2>1, <2>2
<1>6. CASE told' = told
  <2>1. \A s : Matches(s) => After(s)
    BY <1>6 DEF Matches
  <2>. HIDE DEF After
  <2>2. CASE AlertStored
    <3>1. \/ call'["worker"] = call["worker"]
          \/ AlertDone
      BY <1>1, <1>3, <2>2, StoredStays DEF Created
    <3>2. CASE call'["worker"] = call["worker"]
      <4>1. AlertStored'
        BY <2>2, <3>2 DEF AlertStored, Alerting
      <4>2. ~Sample /\ ~Start
        BY <1>3, <2>2
           DEF Sample, Baseline, Unchanged, FirstSample, Confirm, Running, Start
      <4> QED BY <1>3, <2>1, <2>2, <4>1, <4>2, MemorySources DEF MemorySource
    <3>3. CASE AlertDone
      <4>1. disk'.confirmed = worker.confirmed /\ worker' = worker /\ Up
        BY <1>2, <3>3, WorkerFacts DEF AlertDone
      <4> QED BY <1>3, <2>1, <2>2, <4>1
    <3> QED BY <3>1, <3>2, <3>3
  <2>3. CASE ~AlertStored
    <3>1. ~AlertDone
      <4>1. AlertDone => call["worker"].stored
        <5>1. \A f, r : f \in Nat /\ r \in Nat /\ Costs(used', f, r) => f = 0 /\ r = 0
          BY <1>1, CostSum
        <5> QED BY <5>1, AlertDoneOutcome DEF Saves
      <4> QED BY <2>3, <4>1 DEF AlertDone, AlertStored, Alerting, Free
    <3>2. Alerting => ~Sample /\ ~Start
      BY <1>3 DEF Sample, Baseline, Unchanged, FirstSample, Confirm, Running, Start
    <3>3. After(disk'.confirmed)
      <4>1. CASE disk' = disk
        BY <1>3, <2>1, <2>3, <4>1
      <4>2. CASE /\ Up /\ disk'.confirmed = worker.confirmed
                 /\ ~Free("worker") /\ call["worker"].kind = "alert" => AlertDone
        BY <1>3, <2>1, <3>1, <4>2
      <4>3. CASE Published /\ disk'.confirmed = loaded.confirmed
        BY <1>2, <1>3, <2>1, <2>3, <4>3 DEF Published
      <4> QED BY <1>2, <4>1, <4>2, <4>3, FileSources DEF FileSource
    <3>4. ASSUME worker' # None, ~Alerting' \/ AlertStored'
          PROVE  After(worker'.confirmed)
      <4>1. CASE Start /\ worker' = Loaded(disk)
        BY <1>3, <2>1, <2>3, <4>1, Numbers, LoadedType
      <4>2. CASE Sample
        <5>1. Up /\ Matches(worker.confirmed)
          BY <1>3, <3>2, <4>2
             DEF Sample, Baseline, Unchanged, FirstSample, Confirm, Running
        <5>2. CASE Baseline
          <6>1. worker.confirmed = "UNKNOWN"
            BY <5>1, <5>2 DEF Baseline, StatusInv
          <6> QED BY <1>6, <5>1, <6>1 DEF Matches, After
        <5>3. CASE Unchanged \/ FirstSample
          BY <2>1, <5>1, <5>3, CountingFacts
        <5>4. CASE Confirm
          BY <3>4, <5>4, ConfirmAlerts DEF Alerting, AlertStored
        <5> QED BY <4>2, <5>2, <5>3, <5>4 DEF Sample
      <4>3. CASE Up /\ ~Sample /\ worker'.confirmed = worker.confirmed
        <5>1. CASE ~Alerting
          BY <1>3, <2>1, <4>3, <5>1
        <5>2. CASE Alerting
          <6>1. call'["worker"] = call["worker"] \/ Store("worker")
            BY <1>1, <3>1, <3>4, <5>2, AlertStays
          <6>2. CASE call'["worker"] = call["worker"]
            BY <2>3, <3>4, <5>2, <6>2 DEF Alerting, AlertStored
          <6>3. CASE Store("worker")
            <7>1. told' = call["worker"].body
              BY <1>3, <5>2, <6>3 DEF Store
            <7>2. /\ worker.confirmed # "UNKNOWN"
                  /\ told' = IF worker.confirmed = "DEGRADED"
                             THEN "DEGRADED" ELSE "RECOVERY"
              BY <1>3, <5>2, <7>1 DEF CallInv, WorkerCall
            <7> QED BY <4>3, <7>2 DEF After
          <6> QED BY <6>1, <6>2, <6>3
        <5> QED BY <5>1, <5>2
      <4> QED BY <3>4, <4>1, <4>2, <4>3, MemorySources DEF MemorySource
    <3> QED BY <3>3, <3>4
  <2> QED BY <2>2, <2>3
<1> QED BY <1>5, <1>6, ToldKept

(***************************************************************************)
(* The messages that are shown and those that are owed.                    *)
(***************************************************************************)
LEMMA OneFacts ==
  \A a, b \in BOOLEAN : /\ One(a) \in {0, 1} /\ (a => b) => One(a) <= One(b)
                        /\ (a <=> b) => One(a) = One(b)
BY DEF One

LEMMA OwedTypes ==
  /\ Contended \in BOOLEAN /\ MaintOwes \in BOOLEAN /\ WorkerOwes \in BOOLEAN
  /\ One(MaintOwes) \in {0, 1} /\ One(WorkerOwes) \in {0, 1}
  /\ One(Contended /\ MaintOwes) \in {0, 1}
  /\ Owed \in {0, 1, 2}
<1>1. /\ Contended \in BOOLEAN /\ MaintOwes \in BOOLEAN /\ WorkerOwes \in BOOLEAN
  BY DEF Contended, MaintOwes, WorkerOwes, Visible, Seen
<1>2. /\ One(MaintOwes) \in {0, 1} /\ One(WorkerOwes) \in {0, 1}
      /\ One(Contended /\ MaintOwes) \in {0, 1}
  BY DEF One
<1>3. Owed \in {0, 1, 2}
  BY <1>2 DEF Owed
<1> QED BY <1>1, <1>2, <1>3

LEMMA OwedTypesNext ==
  /\ Contended' \in BOOLEAN /\ MaintOwes' \in BOOLEAN /\ WorkerOwes' \in BOOLEAN
  /\ One(MaintOwes') \in {0, 1} /\ One(WorkerOwes') \in {0, 1}
  /\ One(Contended' /\ MaintOwes') \in {0, 1}
  /\ Owed' \in {0, 1, 2}
<1>1. /\ Contended' \in BOOLEAN /\ MaintOwes' \in BOOLEAN /\ WorkerOwes' \in BOOLEAN
  BY DEF Contended, MaintOwes, WorkerOwes, Visible, Seen
<1>2. /\ One(MaintOwes') \in {0, 1} /\ One(WorkerOwes') \in {0, 1}
      /\ One(Contended' /\ MaintOwes') \in {0, 1}
  BY DEF One
<1>3. Owed' \in {0, 1, 2}
  BY <1>2 DEF Owed
<1> QED BY <1>1, <1>2, <1>3

LEMMA ShownFinite ==
  ASSUME TypeOK
  PROVE  /\ IsFiniteSet(Shown) /\ Cardinality(Shown) \in Nat
<1>1. IsFiniteSet(Messages)
  BY FS_Interval, WorkerAssumption DEF Messages
<1>2. IsFiniteSet(Shown)
  BY <1>1, FS_Subset DEF Shown
<1> QED BY <1>2, FS_CardinalityType

\* How the count may change with what is owed.
LEMMA CountKept ==
  ASSUME TypeOK, CountInv, Shown' = Shown, NEW f \in Nat, NEW r \in Nat,
         Costs(used', f, r), Owed' <= Owed + f
  PROVE  CountInv'
<1>. DEFINE n == Cardinality(Shown)
            u == used.faults
            v == used'.faults
            o == Owed
            q == Owed'
<1>1. /\ n \in Nat /\ u \in Nat /\ v = u + f /\ o \in Nat /\ q \in Nat
      /\ n + o <= 1 + u /\ q <= o + f
  BY ShownFinite, Numbers, OwedTypes, OwedTypesNext DEF Costs, CountInv
<1>. HIDE DEF n, u, v, o, q
<1>2. n + q <= 1 + v
  BY <1>1
<1>3. Cardinality(Shown)' = n
  BY DEF n
<1> QED BY <1>2, <1>3 DEF CountInv, q, v

LEMMA CountGrows ==
  ASSUME TypeOK, CountInv, NEW m, m \notin Shown, Shown' = Shown \cup {m},
         used' = used, Owed' + 1 <= Owed
  PROVE  CountInv'
<1>. DEFINE n == Cardinality(Shown)
            u == used.faults
            o == Owed
            q == Owed'
            k == Cardinality(Shown')
<1>0. n \in Nat /\ u \in Nat /\ o \in Nat /\ q \in Nat
  BY ShownFinite, Numbers, OwedTypes, OwedTypesNext
<1>1. /\ n \in Nat /\ u \in Nat /\ o \in Nat /\ q \in Nat
      /\ n + o <= 1 + u /\ q + 1 <= o
  BY <1>0 DEF CountInv
<1>2. k = n + 1
  BY ShownFinite, FS_AddElement
<1>. HIDE DEF n, u, o, q, k
<1>3. k + q <= 1 + u
  BY <1>1, <1>2
<1> QED BY <1>3 DEF CountInv, q, k, u

LEMMA CountShrinks ==
  ASSUME TypeOK, CountInv, NEW m \in Shown, Shown' = Shown \ {m},
         used'.faults = used.faults, Owed' <= Owed + 1
  PROVE  CountInv'
<1>. DEFINE n == Cardinality(Shown)
            u == used.faults
            o == Owed
            q == Owed'
            k == Cardinality(Shown')
<1>1. /\ n \in Nat /\ u \in Nat /\ o \in Nat /\ q \in Nat
      /\ n + o <= 1 + u /\ q <= o + 1
  BY ShownFinite, Numbers, OwedTypes, OwedTypesNext DEF CountInv
<1>2. k \in Nat /\ n = k + 1
  <2>1. IsFiniteSet(Shown \ {m}) /\ Cardinality(Shown \ {m}) = n - 1
    BY ShownFinite, FS_RemoveElement
  <2>2. k \in Nat
    BY <2>1, FS_CardinalityType
  <2> QED BY <1>1, <2>1, <2>2
<1>. HIDE DEF n, u, o, q, k
<1>3. k + q <= 1 + u
  BY <1>1, <1>2
<1> QED BY <1>3 DEF CountInv, q, k, u

(***************************************************************************)
(* Deletions and what Discord stores.                                      *)
(***************************************************************************)
LEMMA DeletedCount ==
  ASSUME TypeOK, IdsInv, CountInv, MessageDeleted
  PROVE  CountInv'
<1>1. PICK m \in Messages : /\ channel[m] \notin {"free", "deleted"}
                            /\ channel' = [channel EXCEPT ![m] = "deleted"]
  BY DEF MessageDeleted
<1>2. UNCHANGED <<disk, loaded, worker, stopped, maint, call>>
  BY DEF MessageDeleted, fileVars
<1>3. m \in Shown /\ Shown' = Shown \ {m}
  BY <1>1 DEF Shown, TypeOK
<1>4. used'.faults = used.faults
  BY SpendCosts, Numbers DEF MessageDeleted, Costs
<1>5. \A i \in Ids \ {m} : Seen(channel', i) <=> Seen(channel, i)
  BY <1>1 DEF Seen, Ids, TypeOK
<1>6. Owed' <= Owed + 1
  <2>1. CASE CreateStored("maint") /\ call["maint"].id = m
    <3>1. /\ disk.id \in Ids \ {m} /\ (Up => worker.id \in Ids \ {m})
          /\ CreateStored("worker") => call["worker"].id \in Ids \ {m}
      BY <2>1, Numbers, WorkerFacts, Calls
         DEF IdsInv, UniqueInv, Files, Processes, CreateStored, Creating, Free
    <3>2. WorkerOwes' <=> WorkerOwes
      BY <1>2, <1>5, <3>1 DEF WorkerOwes, Visible, Up, CreateStored, Creating
    <3>3. One(WorkerOwes') = One(WorkerOwes)
      BY <3>2, OwedTypes, OwedTypesNext, OneFacts
    <3>4. stopped' = stopped /\ (Creating("maint")' <=> Creating("maint"))
      BY <1>2 DEF Creating
    <3> QED BY <3>3, <3>4, OwedTypes, OwedTypesNext DEF Owed
  <2>2. CASE ~(CreateStored("maint") /\ call["maint"].id = m)
    <3>1. CreateStored("maint") => call["maint"].id \in Ids \ {m}
      BY <2>2, Calls DEF Processes, CreateStored, Creating, Free
    <3>2. MaintOwes' <=> MaintOwes
      BY <1>2, <1>5, <3>1 DEF MaintOwes, Visible, CreateStored, Creating
    <3>3. /\ stopped' = stopped /\ (Creating("maint")' <=> Creating("maint"))
          /\ Contended' <=> Contended
      BY <1>2 DEF Creating, Contended
    <3>4. /\ One(MaintOwes') = One(MaintOwes)
          /\ One(Contended' /\ MaintOwes') = One(Contended /\ MaintOwes)
      BY <3>2, <3>3 DEF One
    <3> QED BY <3>3, <3>4, OwedTypes, OwedTypesNext DEF Owed
  <2> QED BY <2>1, <2>2
<1> QED BY <1>3, <1>4, <1>6, CountShrinks

LEMMA StoredCount ==
  ASSUME TypeOK, CallInv, IdsInv, CountInv, NEW p \in Processes, Store(p)
  PROVE  CountInv'
<1>. DEFINE c == call[p]
<1>0. /\ c \in Requests /\ c.id \in Ids /\ c.kind \in Kinds /\ ~Free(p)
      /\ UNCHANGED <<disk, loaded, worker, stopped, maint, used>>
      /\ \A q \in Processes : q # p => call'[q] = call[q]
      /\ call'[p] # None /\ call'[p].kind = c.kind /\ call'[p].stored = TRUE
      /\ ~c.stored
  BY Calls, StoreFacts DEF Kinds
<1>1. /\ p = "worker" \/ p = "maint"
      /\ "worker" \in Processes /\ "maint" \in Processes /\ "worker" # "maint"
  BY DEF Processes
<1>2. /\ disk.id \in Ids /\ Born(disk.id)
      /\ Up => worker.id \in Ids /\ Born(worker.id)
      /\ \A q \in Processes : ~Free(q) => call[q].id \in Ids /\ Born(call[q].id)
  BY Numbers, WorkerFacts, Calls DEF IdsInv, BornInv, Files
<1>3. CASE c.kind = "create"
  <2>. DEFINE m == call'[p].id
  <2>1. /\ m \in Messages /\ channel[m] = "free"
        /\ channel' = [channel EXCEPT ![m] = c.body]
        /\ c.body \notin {"free", "deleted"}
    BY <1>3, StoreCreates
  <2>2. m \notin Shown /\ Shown' = Shown \cup {m}
    BY <2>1 DEF Shown, TypeOK
  <2>3. /\ Seen(channel', m)
        /\ \A i \in Ids : Born(i) => (Seen(channel', i) <=> Seen(channel, i))
    BY <2>1, NoneAssumption DEF Seen, Born, Ids, TypeOK
  <2>. HIDE DEF m
  <2>4. Owed' + 1 <= Owed
    <3>1. CASE p = "worker"
      <4>1. worker.id = None /\ Up /\ ~stopped
        BY <1>0, <1>3, <3>1 DEF CallInv, WorkerCall, StoppedInv
      <4>2. WorkerOwes
        BY <1>0, <3>1, <4>1 DEF WorkerOwes, Visible, Seen, CreateStored
      <4>3. ~WorkerOwes'
        BY <1>0, <1>3, <2>3, <3>1, <4>1
           DEF WorkerOwes, Visible, CreateStored, Creating, Up, m
      <4>4. MaintOwes' <=> MaintOwes
        BY <1>0, <1>1, <1>2, <2>3, <3>1
           DEF MaintOwes, Visible, CreateStored, Creating, Free
      <4>5. stopped' = stopped /\ (Contended' <=> Contended)
        BY <1>0 DEF Contended
      <4>6. One(WorkerOwes) = 1 /\ One(WorkerOwes') = 0
            /\ One(Contended' /\ MaintOwes') = One(Contended /\ MaintOwes)
        BY <4>2, <4>3, <4>4, <4>5 DEF One
      <4> QED BY <4>1, <4>5, <4>6, OwedTypes DEF Owed
    <3>2. CASE p = "maint"
      <4>1. /\ maint = "asking" /\ stopped' = stopped
            /\ Creating("maint") /\ Creating("maint")'
            /\ Contended <=> ~stopped
            /\ Contended' <=> ~stopped
        BY <1>0, <1>3, <3>2 DEF CallInv, MaintCall, Creating, Free, Contended
      <4>2. MaintOwes
        BY <1>0, <3>2 DEF MaintOwes, CreateStored
      <4>3. ~MaintOwes'
        BY <1>0, <1>3, <2>3, <3>2 DEF MaintOwes, Visible, CreateStored, Creating, m
      <4>4. WorkerOwes' <=> WorkerOwes
        BY <1>0, <1>1, <1>2, <2>3, <3>2
           DEF WorkerOwes, Visible, CreateStored, Creating, Free, Up
      <4>5. /\ One(MaintOwes) = 1 /\ One(MaintOwes') = 0
            /\ One(WorkerOwes') = One(WorkerOwes)
            /\ ~stopped => One(Contended /\ MaintOwes) = 1
            /\ One(Contended' /\ MaintOwes') = 0
        BY <4>1, <4>2, <4>3, <4>4 DEF One
      <4> QED BY <4>1, <4>5, OwedTypes DEF Owed
    <3> QED BY <1>1, <3>1, <3>2
  <2> QED BY <1>0, <2>2, <2>4, CountGrows
<1>4. CASE c.kind # "create"
  <2>1. ~Creating(p) /\ ~Creating(p)'
    BY <1>0, <1>4 DEF Creating
  <2>2. Shown' = Shown /\ \A i \in Ids : Seen(channel', i) <=> Seen(channel, i)
    <3>1. CASE c.kind = "edit"
      <4>1. /\ channel[c.id] # "deleted"
            /\ channel' = [channel EXCEPT ![c.id] = c.body]
        BY <3>1 DEF Store
      <4>2. c.id # None /\ c.body \notin {"free", "deleted"}
        BY <1>0, <1>1, <3>1 DEF CallInv, WorkerCall, MaintCall, Statuses
      <4>3. channel[c.id] # "free" /\ c.id \in Messages
        BY <1>0, <1>2, <4>2 DEF Born, Ids
      <4>. HIDE DEF c
      <4> QED BY <4>1, <4>2, <4>3 DEF Shown, Seen, Ids, TypeOK
    <3>2. CASE c.kind \in {"alert", "summary"}
      <4>1. channel' = channel
        BY <3>2 DEF Store
      <4> QED BY <4>1 DEF Shown
    <3> QED BY <1>0, <1>4, <3>1, <3>2 DEF Kinds
  <2>3. MaintOwes' <=> MaintOwes
    BY <1>0, <1>1, <1>2, <2>1, <2>2 DEF MaintOwes, Visible, CreateStored, Creating, Free
  <2>4. WorkerOwes' <=> WorkerOwes
    BY <1>0, <1>1, <1>2, <2>1, <2>2
       DEF WorkerOwes, Visible, CreateStored, Creating, Free, Up
  <2>5. /\ stopped' = stopped /\ (Contended' <=> Contended)
        /\ Creating("maint")' <=> Creating("maint")
    BY <1>0, <1>1, <2>1 DEF Contended, Creating
  <2>6. /\ One(WorkerOwes') = One(WorkerOwes) /\ One(MaintOwes') = One(MaintOwes)
        /\ One(Contended' /\ MaintOwes') = One(Contended /\ MaintOwes)
    BY <2>3, <2>4, <2>5 DEF One
  <2>7. Owed' <= Owed + 0
    BY <2>5, <2>6, OwedTypes DEF Owed
  <2>8. Costs(used', 0, 0)
    BY <1>0, SpendCosts
  <2> QED BY <2>2, <2>7, <2>8, CountKept
<1> QED BY <1>3, <1>4

(***************************************************************************)
(* The worker's share.                                                     *)
(***************************************************************************)
MaintSame == /\ UNCHANGED <<channel, stopped, maint>>
             /\ call'["maint"] = call["maint"]

\* A step of the worker pays for what it comes to owe.
LEMMA WorkerPays ==
  ASSUME TypeOK, CountInv, MaintSame, NEW f \in Nat, NEW r \in Nat,
         Costs(used', f, r), f = 0 => (WorkerOwes' => WorkerOwes)
  PROVE  CountInv'
<1>1. /\ stopped' = stopped /\ (Contended' <=> Contended)
      /\ Creating("maint")' <=> Creating("maint")
      /\ MaintOwes' <=> MaintOwes
  BY DEF MaintSame, Contended, Creating, CreateStored, MaintOwes, Visible
<1>2. /\ One(MaintOwes') = One(MaintOwes)
      /\ One(Contended' /\ MaintOwes') = One(Contended /\ MaintOwes)
  BY <1>1 DEF One
<1>3. CASE f = 0
  <2>1. One(WorkerOwes') <= One(WorkerOwes)
    BY <1>3 DEF One
  <2>2. Owed' <= Owed
    BY <1>1, <1>2, <2>1, OwedTypes, OwedTypesNext DEF Owed
  <2>3. Owed' <= Owed + f
    BY <1>3, <2>2, OwedTypes, OwedTypesNext
  <2> QED BY <2>3, CountKept DEF MaintSame, Shown
<1>4. CASE f # 0
  <2>1. Owed' <= Owed + 1
    BY <1>1, <1>2, OwedTypes, OwedTypesNext DEF Owed
  <2>2. Owed' <= Owed + f
    BY <1>4, <2>1, OwedTypes, OwedTypesNext
  <2> QED BY <2>2, CountKept DEF MaintSame, Shown
<1> QED BY <1>3, <1>4

\* What the worker owes while it runs and creates nothing.
LEMMA WorkerOwesUp ==
  ASSUME worker # None
  PROVE  /\ ~CreateStored("worker") =>
              (WorkerOwes <=> ~Seen(channel, worker.id) \/ ~Seen(channel, disk.id))
         /\ CreateStored("worker") =>
              (WorkerOwes <=> ~Seen(channel, call["worker"].id))
BY DEF WorkerOwes, Visible, Up

LEMMA WorkerOwesNext ==
  /\ worker' # None /\ ~CreateStored("worker")' =>
       (WorkerOwes' <=> ~Seen(channel', worker'.id) \/ ~Seen(channel', disk'.id))
  /\ worker' = None => (WorkerOwes' <=> ~Seen(channel', disk'.id))
BY DEF WorkerOwes, Visible, Up

LEMMA NoneUnseen == ~Seen(channel, None)
BY DEF Seen

LEMMA WorkerCount ==
  ASSUME TypeOK, CallInv, CountInv, WorkerNext
  PROVE  CountInv'
<1>. USE DEF fileVars, ghosts
<1>0. /\ "worker" \in Processes /\ "maint" \in Processes /\ None \in Ids
      /\ "worker" # "maint" /\ Costs(used, 0, 0) /\ 0 \in Nat /\ 1 \in Nat
      /\ 0 \in 0..MaxTraffic
  BY SpendCosts, BodyFacts DEF Processes
<1>1. UNCHANGED <<channel, stopped, maint>> /\ Up
  BY DEF WorkerNext, Sample, Baseline, Unchanged, FirstSample, Confirm, AlertDone,
         StatusTick, Created, Edited, EditMissing, StatusFails, SummaryTick,
         SummarySkipped, SummaryDone, Checkpoint, Running
<1>2. call'["maint"] = call["maint"]
  BY <1>0, CallsFree, ConfirmFacts, StatusRequest, SummaryRequest
     DEF WorkerNext, Sample, Baseline, Unchanged, FirstSample, AlertDone,
         Created, Edited, EditMissing, StatusFails,
         SummarySkipped, SummaryDone, Checkpoint
<1>3. MaintSame
  BY <1>1, <1>2 DEF MaintSame
\* Where the ids stay, or the file takes that of the memory, nothing more is owed.
<1>4. ASSUME ~CreateStored("worker"), ~CreateStored("worker")', worker' # None,
             worker'.id = worker.id, disk'.id \in {disk.id, worker.id}
      PROVE  WorkerOwes' => WorkerOwes
  BY <1>1, <1>4, WorkerOwesUp, WorkerOwesNext DEF Up
<1>5. CASE Sample
  <2>1. worker' # None /\ worker'.id = worker.id
    BY <1>5, BaselineFacts, CountingFacts, ConfirmFacts, NoneAssumption DEF Sample
  <2>2. ~CreateStored("worker") /\ ~CreateStored("worker")'
    BY <1>5, ConfirmFacts
       DEF Sample, Baseline, Unchanged, FirstSample, Confirm, Running, Free,
           CreateStored, Creating
  <2>3. disk' = disk /\ used' = used
    BY <1>5 DEF Sample, Baseline, Unchanged, FirstSample, Confirm
  <2> QED BY <1>0, <1>3, <1>4, <2>1, <2>2, <2>3, WorkerPays
<1>6. CASE AlertDone
  <2>1. PICK f, r : Saves(Image(worker), f, r)
    BY <1>6, AlertDoneOutcome
  <2>2. ~CreateStored("worker") /\ ~CreateStored("worker")'
    BY <1>0, <1>6, CallsFree DEF AlertDone, CreateStored, Creating
  <2>3. worker' # None /\ worker'.id = worker.id /\ disk'.id \in {disk.id, worker.id}
    BY <1>6, <2>1, WorkerFacts DEF AlertDone, Up, Saves
  <2> QED BY <1>3, <1>4, <2>1, <2>2, <2>3, WorkerPays DEF Saves
<1>7. CASE StatusTick \/ SummaryTick
  <2>1. ~CreateStored("worker") /\ ~CreateStored("worker")'
    BY <1>7, StatusRequest, SummaryRequest
       DEF StatusTick, SummaryTick, Running, Free, CreateStored, Creating
  <2>2. worker' # None /\ worker'.id = worker.id /\ disk' = disk /\ used' = used
    BY <1>7 DEF StatusTick, SummaryTick, Running, Up
  <2> QED BY <1>0, <1>3, <1>4, <2>1, <2>2, WorkerPays
<1>8. CASE Created
  <2>1. PICK f \in {0, 1} : Saves(Image(worker'), f, 0)
    BY <1>8, SaveOutcome DEF Created
  <2>2. /\ worker'.id = call["worker"].id /\ Image(worker').id = call["worker"].id
        /\ worker' # None
    BY <1>0, <1>8, Calls, IdFacts DEF Created
  <2>3. CreateStored("worker") /\ ~CreateStored("worker")'
    BY <1>0, <1>8, CallsFree DEF Created, CreateStored, Creating, Free, Succeeds
  <2>4. ASSUME f = 0 PROVE WorkerOwes' => WorkerOwes
    <3>1. disk'.id = call["worker"].id
      BY <2>1, <2>2, <2>4 DEF Saves
    <3> QED BY <1>1, <2>2, <2>3, <3>1, WorkerOwesUp, WorkerOwesNext DEF Up
  <2> QED BY <1>0, <1>3, <2>1, <2>4, WorkerPays DEF Saves
<1>9. CASE Edited
  <2>1. ~CreateStored("worker") /\ ~CreateStored("worker")'
    BY <1>0, <1>9, CallsFree DEF Edited, CreateStored, Creating
  <2>2. worker' # None /\ worker'.id = worker.id /\ disk' = disk /\ used' = used
    BY <1>9 DEF Edited, Up
  <2> QED BY <1>0, <1>3, <1>4, <2>1, <2>2, WorkerPays
<1>10. CASE EditMissing
  <2>1. PICK f \in {0, 1} : Saves(Image(worker'), f, 0)
    BY <1>10, SaveOutcome DEF EditMissing
  <2>2. /\ ~Free("worker") /\ call["worker"].kind = "edit"
        /\ channel[call["worker"].id] = "deleted"
    BY <1>10 DEF EditMissing, Missing
  <2>3. call["worker"].id = worker.id
    BY <2>2 DEF CallInv, WorkerCall
  <2>4. WorkerOwes
    BY <1>1, <2>2, <2>3, WorkerOwesUp DEF Seen, CreateStored, Creating, Up
  <2> QED BY <1>0, <1>3, <2>1, <2>4, WorkerPays DEF Saves
<1>11. CASE StatusFails
  <2>1. worker' = worker /\ worker # None /\ disk' = disk /\ ~CreateStored("worker")'
    BY <1>0, <1>11, CallsFree DEF StatusFails, Up, CreateStored, Creating
  <2>2. CASE ~CreateStored("worker")
    <3>1. WorkerOwes' => WorkerOwes
      BY <1>4, <2>1, <2>2
    <3>2. Costs(used', 0, 1) \/ Costs(used', 1, 0)
      BY <1>0, <1>11, FailureCosts DEF StatusFails
    <3> QED BY <1>0, <1>3, <3>1, <3>2, WorkerPays
  <2>3. CASE CreateStored("worker")
    <3>1. Costs(used', 1, 0)
      BY <1>0, <1>11, <2>3, FailureCosts DEF StatusFails, CreateStored
    <3> QED BY <1>0, <1>3, <3>1, WorkerPays
  <2> QED BY <2>2, <2>3
<1>12. CASE SummarySkipped \/ Checkpoint
  <2>1. /\ worker' # None /\ worker'.id = worker.id /\ Image(worker').id = worker.id
        /\ Free("worker") /\ call' = call
    <3>1. CASE SummarySkipped
      BY <1>0, <3>1, BytesFacts DEF SummarySkipped, Running, NewWindow
    <3>2. CASE Checkpoint
      BY <3>2, WorkerFacts DEF Checkpoint, Running, Up
    <3> QED BY <1>12, <3>1, <3>2
  <2>2. Save(Image(worker'), used)
    BY <1>12 DEF SummarySkipped, Checkpoint
  <2>3. PICK f \in {0, 1} : Saves(Image(worker'), f, 0)
    BY <2>2, SaveOutcome
  <2>4. ~CreateStored("worker") /\ ~CreateStored("worker")'
    BY <2>1 DEF Free, CreateStored, Creating
  <2>5. disk'.id \in {disk.id, worker.id}
    BY <2>1, <2>3 DEF Saves
  <2> QED BY <1>0, <1>3, <1>4, <2>1, <2>3, <2>4, <2>5, WorkerPays DEF Saves
<1>13. CASE SummaryDone
  <2>1. PICK f, r : Saves(Image(worker'), f, r)
    BY <1>13, SummaryDoneOutcome
  <2>2. ~CreateStored("worker") /\ ~CreateStored("worker")'
    BY <1>0, <1>13, CallsFree DEF SummaryDone, CreateStored, Creating
  <2>3. worker' # None /\ worker'.id = worker.id /\ Image(worker').id = worker.id
    BY <1>0, <1>1, <1>13, BytesFacts DEF SummaryDone, NewWindow
  <2>4. disk'.id \in {disk.id, worker.id}
    BY <2>1, <2>3 DEF Saves
  <2> QED BY <1>3, <1>4, <2>1, <2>2, <2>3, <2>4, WorkerPays DEF Saves
<1> QED BY <1>5, <1>6, <1>7, <1>8, <1>9, <1>10, <1>11, <1>12, <1>13 DEF WorkerNext

LEMMA EnvironmentCount ==
  ASSUME TypeOK, CallInv, IdsInv, CountInv, WindowInv, Environment
  PROVE  CountInv'
<1>. USE DEF fileVars, ghosts
<1>0. /\ "worker" \in Processes /\ "maint" \in Processes
      /\ "worker" # "maint" /\ Costs(used, 0, 0) /\ 0 \in Nat /\ 1 \in Nat
      /\ \A p \in Processes : p = "worker" \/ p = "maint"
  BY SpendCosts DEF Processes
<1>1. CASE Retry("worker")
  <2>1. MaintSame /\ UNCHANGED <<worker, disk>> /\ ~Free("worker")
    BY <1>0, <1>1, RetryFacts DEF Retry, MaintSame
  <2>2. Up /\ worker' = worker
    BY <2>1 DEF CallInv, WorkerCall
  <2>3. ~CreateStored("worker")'
    BY <1>0, <1>1, RetryFacts DEF CreateStored, Creating
  <2>4. CASE call["worker"].stored
    <3>1. Costs(used', 1, 0)
      BY <1>0, <1>1, <2>4, RetryFacts
    <3> QED BY <1>0, <2>1, <3>1, WorkerPays
  <2>5. CASE ~call["worker"].stored
    <3>1. ~CreateStored("worker")
      BY <2>5 DEF CreateStored
    <3>2. WorkerOwes' => WorkerOwes
      BY <2>1, <2>2, <2>3, <3>1, WorkerOwesUp, WorkerOwesNext DEF Up, MaintSame
    <3> QED BY <1>0, <1>1, <2>1, <2>5, <3>2, RetryFacts, WorkerPays
  <2> QED BY <2>4, <2>5
<1>2. CASE Retry("maint")
  <2>1. /\ UNCHANGED <<channel, worker, disk, stopped, maint>>
        /\ call'["worker"] = call["worker"]
        /\ Creating("maint")' <=> Creating("maint")
        /\ ~CreateStored("maint")'
    BY <1>0, <1>2, RetryFacts, RequestsAreNotNone DEF Retry, CreateStored, Creating, Free
  <2>2. /\ WorkerOwes' <=> WorkerOwes
        /\ Contended' <=> Contended
    BY <2>1 DEF WorkerOwes, Visible, Up, CreateStored, Creating, Contended
  <2>3. One(WorkerOwes') = One(WorkerOwes)
    BY <2>2 DEF One
  <2>4. CASE call["maint"].stored
    <3>1. Owed' <= Owed + 1
      BY <2>1, <2>3, OwedTypes, OwedTypesNext DEF Owed
    <3>2. Costs(used', 1, 0)
      BY <1>0, <1>2, <2>4, RetryFacts
    <3> QED BY <1>0, <2>1, <3>1, <3>2, CountKept DEF Shown
  <2>5. CASE ~call["maint"].stored
    <3>1. MaintOwes' <=> MaintOwes
      BY <2>1, <2>5 DEF MaintOwes, CreateStored
    <3>2. /\ One(MaintOwes') = One(MaintOwes)
          /\ One(Contended' /\ MaintOwes') = One(Contended /\ MaintOwes)
      BY <2>2, <3>1 DEF One
    <3>3. Owed' <= Owed + 0
      BY <2>1, <2>3, <3>2, OwedTypes, OwedTypesNext DEF Owed
    <3>4. Costs(used', 0, 1)
      BY <1>0, <1>2, <2>5, RetryFacts
    <3> QED BY <1>0, <2>1, <3>3, <3>4, CountKept DEF Shown
  <2> QED BY <2>4, <2>5
<1>3. CASE Packet
  <2>1. worker' = [worker EXCEPT !.bytes = worker.bytes + 1] /\ Up
    BY <1>3 DEF Packet, Running
  <2>2. worker.bytes + 1 \in 0..MaxTraffic
    BY <1>3, <2>1, Numbers DEF Packet, WindowInv
  <2>3. worker' # None /\ worker'.id = worker.id
    BY <2>1, <2>2, BytesFacts
  <2>4. /\ MaintSame /\ disk' = disk /\ used' = used
        /\ ~CreateStored("worker") /\ ~CreateStored("worker")'
    BY <1>3 DEF Packet, MaintSame, Running, Free, CreateStored, Creating
  <2>5. WorkerOwes' => WorkerOwes
    BY <2>1, <2>3, <2>4, WorkerOwesUp, WorkerOwesNext DEF Up, MaintSame
  <2> QED BY <1>0, <2>4, <2>5, WorkerPays
<1>4. CASE CooldownPasses
  <2>1. MaintSame /\ UNCHANGED <<disk, worker, call, used>>
    BY <1>4 DEF CooldownPasses, MaintSame
  <2>2. WorkerOwes' <=> WorkerOwes
    BY <2>1 DEF WorkerOwes, Visible, Up, CreateStored, Creating, MaintSame
  <2> QED BY <1>0, <2>1, <2>2, WorkerPays
<1>5. CASE HealthFlips
  <2>1. MaintSame /\ UNCHANGED <<disk, worker, call>>
    BY <1>5 DEF HealthFlips, MaintSame
  <2>2. WorkerOwes' <=> WorkerOwes
    BY <2>1 DEF WorkerOwes, Visible, Up, CreateStored, Creating, MaintSame
  <2>3. Costs(used', 0, 0)
    BY <1>5, SpendCosts DEF HealthFlips
  <2> QED BY <1>0, <2>1, <2>2, <2>3, WorkerPays
<1>6. CASE Start
  <2>1. /\ MaintSame /\ disk' = disk /\ used' = used /\ worker = None
        /\ call' = call
    BY <1>6 DEF Start, MaintSame, Up
  <2>2. ~CreateStored("worker")'
    BY <2>1 DEF CallInv, WorkerCall, Up, Free, CreateStored, Creating
  <2>3. worker' # None /\ worker'.id = disk.id
    BY <1>6, Numbers, LoadedType DEF Start
  <2>4. WorkerOwes' => WorkerOwes
    BY <2>1, <2>2, <2>3, WorkerOwesNext DEF WorkerOwes, Visible, Up, MaintSame
  <2> QED BY <1>0, <2>1, <2>4, WorkerPays
<1>7. CASE Kill
  <2>1. PICK f \in {0, 1} : /\ worker' = None /\ Begin("worker", None)
                            /\ Costs(used', f, 0) /\ (f = 0 => ~Posting)
    BY <1>7, DiesOutcome DEF Kill
  <2>2. MaintSame /\ disk' = disk /\ worker # None
    BY <1>0, <1>7, <2>1, CallsFree DEF Kill, MaintSame, Up
  <2>3. ASSUME f = 0 PROVE WorkerOwes' => WorkerOwes
    <3>1. ~CreateStored("worker")
      BY <2>1, <2>3 DEF Posting, Free, CreateStored, Creating
    <3> QED BY <2>1, <2>2, <3>1, WorkerOwesUp, WorkerOwesNext DEF MaintSame
  <2> QED BY <1>0, <2>1, <2>2, <2>3, WorkerPays
<1>8. CASE FileLost
  <2>1. MaintSame /\ Costs(used', 1, 0)
    BY <1>8, SpendCosts DEF FileLost, MaintSame
  <2> QED BY <1>0, <2>1, WorkerPays
<1>9. CASE MessageDeleted
  BY <1>9, DeletedCount
<1> QED BY <1>0, <1>1, <1>2, <1>3, <1>4, <1>5, <1>6, <1>7, <1>8, <1>9 DEF Environment

(***************************************************************************)
(* The controller's share.                                                 *)
(***************************************************************************)
\* Outside its request the controller owes a message only beside a running worker.
LEMMA OwedIdle ==
  ASSUME CallInv, maint # "asking"
  PROVE  Owed = One(WorkerOwes) + One(Contended)
BY DEF CallInv, MaintCall, Free, Creating, CreateStored, MaintOwes, Owed, One

LEMMA OwedIdleNext ==
  ASSUME CallInv', maint' # "asking"
  PROVE  Owed' = One(WorkerOwes') + One(Contended')
BY DEF CallInv, MaintCall, Free, Creating, CreateStored, MaintOwes, Owed, One

\* A kill of the worker, by StopWorker or Reboot.
LEMMA KilledOwes ==
  ASSUME TypeOK, CallInv, ~Posting, worker' = None, UNCHANGED <<channel, disk>>
  PROVE  WorkerOwes' => WorkerOwes
<1>1. ~CreateStored("worker")
  BY DEF Posting, Free, CreateStored, Creating
<1>2. CASE worker = None
  BY <1>2, WorkerOwesNext DEF WorkerOwes, Visible, Up
<1>3. CASE worker # None
  BY <1>1, <1>3, WorkerOwesUp, WorkerOwesNext
<1> QED BY <1>2, <1>3

LEMMA MaintCount ==
  ASSUME TypeOK, CallInv, IdsInv, CountInv, MaintNext, CallInv'
  PROVE  CountInv'
<1>. USE DEF fileVars, ghosts
<1>0. /\ "worker" \in Processes /\ "maint" \in Processes /\ None \in Ids
      /\ "worker" # "maint" /\ Costs(used, 0, 0) /\ 0 \in Nat /\ 1 \in Nat
  BY SpendCosts DEF Processes, Ids
<1>01. Shown' = Shown /\ channel' = channel
  BY DEF MaintNext, StopWorker, StopFails, StopTimesOut, Publish, Replace, Published, PublishFails, ControllerKilled,
         Reboot, RebootFails, Boot, Shown
<1>02. ASSUME UNCHANGED <<disk, worker>>, call'["worker"] = call["worker"]
       PROVE  /\ WorkerOwes' <=> WorkerOwes
              /\ One(WorkerOwes') = One(WorkerOwes)
  <2>1. WorkerOwes' <=> WorkerOwes
    BY <1>01, <1>02 DEF WorkerOwes, Visible, Up, CreateStored, Creating
  <2> QED BY <2>1 DEF One
<1>1. CASE StopWorker \/ Reboot
  <2>1. PICK f \in {0, 1} : /\ worker' = None /\ Begin("worker", None)
                            /\ Costs(used', f, 0) /\ (f = 0 => ~Posting)
    BY <1>0, <1>1, DiesOutcome DEF StopWorker, Reboot
  <2>2. /\ maint # "asking" /\ disk' = disk
        /\ maint' # "asking" /\ ~Contended'
    BY <1>1 DEF StopWorker, Reboot, Contended
  <2>3. Owed = One(WorkerOwes) + One(Contended) /\ Owed' = One(WorkerOwes') + 0
    BY <2>2, OwedIdle, OwedIdleNext DEF One
  <2>4. Owed' <= Owed + f
    <3>1. CASE f = 0
      <4>1. WorkerOwes' => WorkerOwes
        BY <1>01, <2>1, <2>2, <3>1, KilledOwes
      <4> QED BY <2>3, <3>1, <4>1 DEF One
    <3>2. CASE f = 1
      BY <2>3, <3>2 DEF One
    <3> QED BY <3>1, <3>2
  <2> QED BY <1>0, <1>01, <2>1, <2>4, CountKept
<1>2. CASE StopFails
  <2>1. /\ maint # "asking" /\ maint' # "asking" /\ ~Contended
        /\ UNCHANGED <<disk, worker, call>>
    BY <1>2 DEF StopFails, Contended
  <2>3. /\ Owed = One(WorkerOwes) + One(Contended)
        /\ Owed' = One(WorkerOwes') + One(Contended')
        /\ One(WorkerOwes') = One(WorkerOwes)
    BY <1>02, <2>1, OwedIdle, OwedIdleNext
  <2>4. Owed' <= Owed + 1
    BY <2>3 DEF One
  <2>5. Costs(used', 1, 0)
    BY <1>2, SpendCosts DEF StopFails
  <2> QED BY <1>0, <1>01, <2>4, <2>5, CountKept
<1>8. CASE StopTimesOut
  <2>1. /\ maint # "asking" /\ maint' # "asking" /\ ~Contended'
        /\ Costs(used', 1, 0)
    BY <1>8, SpendCosts DEF StopTimesOut, Contended, Dies
  <2>2. /\ Owed = One(WorkerOwes) + One(Contended)
        /\ Owed' = One(WorkerOwes') + One(Contended')
    BY <2>1, OwedIdle, OwedIdleNext
  <2>3. Owed' <= Owed + 1
    BY <2>1, <2>2 DEF One
  <2> QED BY <1>0, <1>01, <2>1, <2>3, CountKept
<1>9. CASE ControllerKilled
  <2>1. /\ maint' = "idle" /\ Begin("maint", None) /\ ~Contended'
        /\ UNCHANGED <<disk, worker>> /\ Costs(used', 1, 0)
    BY <1>9, SpendCosts DEF ControllerKilled, Contended
  <2>2. call'["worker"] = call["worker"]
    BY <1>0, <2>1, CallsFree
  <2>3. /\ Owed' = One(WorkerOwes') + One(Contended')
        /\ One(WorkerOwes') = One(WorkerOwes)
    BY <1>02, <2>1, <2>2, OwedIdleNext
  <2>4. Owed' <= Owed + 1
    BY <2>1, <2>3 DEF Owed, One
  <2> QED BY <1>0, <1>01, <2>1, <2>4, CountKept
<1>3. CASE RebootFails \/ Boot
  <2>1. /\ maint # "asking" /\ maint' # "asking" /\ ~Contended'
        /\ UNCHANGED <<disk, worker, call>>
    BY <1>3 DEF RebootFails, Boot, Contended
  <2>3. /\ Owed = One(WorkerOwes) + One(Contended)
        /\ Owed' = One(WorkerOwes') + One(Contended')
        /\ One(WorkerOwes') = One(WorkerOwes)
    BY <1>02, <2>1, OwedIdle, OwedIdleNext
  <2>4. Owed' <= Owed + 0 /\ Owed' <= Owed + 1
    BY <2>1, <2>3 DEF One
  <2>5. Costs(used', 1, 0) \/ Costs(used', 0, 0)
    BY <1>0, <1>3, SpendCosts DEF RebootFails, Boot
  <2> QED BY <1>0, <1>01, <2>4, <2>5, CountKept
<1>4. CASE Publish
  <2>1. maint = "publish" /\ UNCHANGED <<disk, worker, stopped, used>>
    BY <1>4 DEF Publish
  <2>2. Owed = One(WorkerOwes) + One(Contended)
    BY <2>1, OwedIdle
  <2>3. CASE disk.id = None
    <3>1. maint' = "reboot" /\ call' = call /\ ~Contended'
      BY <1>4, <2>3 DEF Publish, Contended
    <3>2. /\ Owed' = One(WorkerOwes') + One(Contended')
          /\ One(WorkerOwes') = One(WorkerOwes)
      BY <1>02, <2>1, <3>1, OwedIdleNext
    <3>3. Owed' <= Owed + 0
      BY <2>2, <3>1, <3>2 DEF One
    <3> QED BY <1>0, <1>01, <2>1, <3>3, CountKept
  <2>4. CASE disk.id # None
    <3>1. disk.id \in Ids /\ "edit" \in {"create", "edit"}
      BY Numbers DEF Files
    <3>2. Begin("maint", Request("edit", "MAINTENANCE", 0, disk.id))
          /\ maint' = "asking"
      BY <1>4, <2>4 DEF Publish
    <3>3. /\ call'["worker"] = call["worker"]
          /\ ~Creating("maint")' /\ MaintOwes'
      BY <3>1, <3>2, MaintRequest DEF Creating, CreateStored, MaintOwes
    <3>4. Contended' <=> Contended
      BY <2>1, <3>2 DEF Contended
    <3>5. Owed' = One(WorkerOwes') + One(Contended')
      BY <3>3 DEF Owed, One
    <3>6. Owed' <= Owed + 0
      BY <1>02, <2>1, <2>2, <3>3, <3>4, <3>5 DEF One
    <3> QED BY <1>0, <1>01, <2>1, <3>6, CountKept
  <2> QED BY <2>3, <2>4
<1>5. CASE Replace
  <2>1. /\ maint = "asking" /\ ~Free("maint") /\ call["maint"].kind = "edit"
        /\ channel[call["maint"].id] = "deleted"
        /\ UNCHANGED <<disk, worker, stopped, maint, used>>
    BY <1>5 DEF Replace, Missing
  <2>2. "create" \in {"create", "edit"}
    OBVIOUS
  <2>3. Begin("maint", Request("create", "MAINTENANCE", 0, None))
    BY <1>5 DEF Replace
  <2>4. /\ call'["worker"] = call["worker"]
        /\ Creating("maint")' /\ ~CreateStored("maint")'
    BY <1>0, <2>2, <2>3, MaintRequest DEF Creating, CreateStored
  <2>5. ~Creating("maint") /\ MaintOwes /\ MaintOwes'
    BY <2>1, <2>4 DEF Creating, CreateStored, MaintOwes
  <2>6. Owed = One(WorkerOwes) + One(Contended)
    BY <2>5 DEF Owed, One
  <2>7. CASE stopped
    <3>1. ~Up /\ disk.id \in {None, loaded.id} /\ call["maint"].id = loaded.id
      BY <2>1, <2>7 DEF CallInv, StoppedInv, MaintCall
    <3>2. WorkerOwes
      BY <2>1, <3>1 DEF WorkerOwes, Visible, Seen
    <3>3. Owed' <= Owed + 0
      BY <2>1, <2>4, <2>5, <2>6, <2>7, <3>2 DEF Owed, One
    <3> QED BY <1>0, <1>01, <2>1, <3>3, CountKept
  <2>8. CASE ~stopped
    <3>1. Contended' <=> Contended
      BY <2>1 DEF Contended
    <3>2. Owed' = One(WorkerOwes') + One(Contended')
      BY <2>1, <2>5, <2>8 DEF Owed, One
    <3>3. Owed' <= Owed + 0
      BY <1>02, <2>1, <2>4, <2>6, <3>1, <3>2 DEF One
    <3> QED BY <1>0, <1>01, <2>1, <3>3, CountKept
  <2> QED BY <2>7, <2>8
<1>6. CASE Published
  <2>1. /\ maint = "asking" /\ maint' = "reboot" /\ UNCHANGED <<worker, stopped>>
        /\ call["maint"].stored /\ ~Contended' /\ ~Free("maint")
        /\ Contended <=> ~stopped
    BY <1>6 DEF Published, Succeeds, Contended
  <2>2. /\ call'["worker"] = call["worker"]
        /\ Owed' = One(WorkerOwes') + 0
    BY <1>0, <1>6, <2>1, CallsFree, OwedIdleNext DEF Published, One
  <2>3. CASE call["maint"].kind # "create"
    <3>1. disk' = disk /\ used' = used /\ ~Creating("maint")
      BY <1>6, <2>3 DEF Published, Creating
    <3>2. One(WorkerOwes') = One(WorkerOwes)
      BY <1>02, <2>1, <2>2, <3>1
    <3>3. Owed' <= Owed + 0
      BY <2>2, <3>1, <3>2 DEF Owed, One
    <3> QED BY <1>0, <1>01, <3>1, <3>3, CountKept
  <2>4. CASE call["maint"].kind = "create"
    <3>. DEFINE m == call["maint"].id
    <3>1. CreateStored("maint") /\ Creating("maint")
      BY <2>1, <2>4 DEF CreateStored, Creating, Free
    <3>2. PICK f \in {0, 1} : /\ Saves([loaded EXCEPT !.id = m], f, 0)
                              /\ f = 0 \/ disk' = disk
      BY <1>6, <2>4, SaveOutcome DEF Published
    <3>3. [loaded EXCEPT !.id = m].id = m
      BY Numbers DEF Files
    <3>4. f = 0 => disk'.id = m
      BY <3>2, <3>3 DEF Saves
    <3>5. Costs(used', f, 0)
      BY <3>2 DEF Saves
    <3>6. MaintOwes <=> ~Seen(channel, m)
      BY <3>1 DEF MaintOwes, Visible
    <3>. HIDE DEF m
    <3>7. CASE f = 1
      <4>1. disk' = disk
        BY <3>2, <3>7
      <4>2. One(WorkerOwes') = One(WorkerOwes)
        BY <1>02, <2>1, <2>2, <4>1
      <4>3. Owed' <= Owed + 1
        BY <2>2, <4>2 DEF Owed, One
      <4> QED BY <1>0, <1>01, <3>5, <3>7, <4>3, CountKept
    <3>8. CASE f = 0
      <4>1. CASE stopped
        <5>1. worker' = None
          BY <2>1, <4>1 DEF CallInv, StoppedInv, Up
        <5>2. WorkerOwes' => MaintOwes
          BY <1>01, <3>4, <3>6, <3>8, <5>1, WorkerOwesNext
        <5>3. Owed' <= Owed + 0
          BY <2>2, <3>1, <4>1, <5>2 DEF Owed, One
        <5> QED BY <1>0, <1>01, <3>5, <3>8, <5>3, CountKept
      <4>2. CASE ~stopped
        <5>1. WorkerOwes' => WorkerOwes \/ MaintOwes
          <6>1. CASE worker = None
            BY <1>01, <2>1, <3>4, <3>6, <3>8, <6>1, WorkerOwesNext
          <6>2. CASE worker # None /\ CreateStored("worker")
            BY <1>01, <2>1, <2>2, <6>2 DEF WorkerOwes, Visible, Up, CreateStored, Creating
          <6>3. CASE worker # None /\ ~CreateStored("worker")
            <7>1. worker' # None /\ ~CreateStored("worker")' /\ worker'.id = worker.id
              BY <2>1, <2>2, <6>3 DEF CreateStored, Creating
            <7> QED BY <1>01, <3>4, <3>6, <3>8, <6>3, <7>1, WorkerOwesUp, WorkerOwesNext
          <6> QED BY <6>1, <6>2, <6>3
        <5>2. Owed' <= Owed + 0
          BY <2>1, <2>2, <4>2, <5>1 DEF Owed, One
        <5> QED BY <1>0, <1>01, <3>5, <3>8, <5>2, CountKept
      <4> QED BY <4>1, <4>2
    <3> QED BY <3>7, <3>8
  <2> QED BY <2>3, <2>4
<1>7. CASE PublishFails
  <2>1. /\ maint = "asking" /\ maint' = "reboot" /\ UNCHANGED <<worker, disk, stopped>>
        /\ ~Contended' /\ ~Free("maint")
    BY <1>7 DEF PublishFails, Contended
  <2>2. /\ call'["worker"] = call["worker"]
        /\ Owed' = One(WorkerOwes') + 0
    BY <1>0, <1>7, <2>1, CallsFree, OwedIdleNext DEF PublishFails, One
  <2>3. One(WorkerOwes') = One(WorkerOwes)
    BY <1>02, <2>1, <2>2
  <2>4. \/ ~call["maint"].stored /\ Costs(used', 0, 1)
        \/ call["maint"].stored /\ Costs(used', 1, 0)
    BY <1>0, <1>7, FailureCosts DEF PublishFails
  <2>5. CASE ~call["maint"].stored /\ Costs(used', 0, 1)
    <3>1. MaintOwes
      BY <2>5 DEF MaintOwes, CreateStored
    <3>2. Owed' <= Owed + 0
      BY <2>2, <2>3, <3>1 DEF Owed, One
    <3> QED BY <1>0, <1>01, <2>5, <3>2, CountKept
  <2>6. CASE call["maint"].stored /\ Costs(used', 1, 0)
    <3>2. Owed' <= Owed + 1
      BY <2>2, <2>3 DEF Owed, One
    <3> QED BY <1>0, <1>01, <2>6, <3>2, CountKept
  <2> QED BY <2>4, <2>5, <2>6
<1> QED BY <1>1, <1>2, <1>3, <1>4, <1>5, <1>6, <1>7, <1>8, <1>9 DEF MaintNext

(***************************************************************************)
(* The theorems.                                                           *)
(***************************************************************************)
\* TypeOK and the invariants of this module hold of the worker, the controller and
\* Discord, for any number of messages, packets and faults.
THEOREM WorkerHolds == Spec => []WorkerInv
<1>1. Init => WorkerInv
  <2>. SUFFICES ASSUME Init PROVE WorkerInv
    OBVIOUS
  <2>1. TypeOK
    <3>1. used \in Budgets
      BY WorkerAssumption DEF Init, Budgets
    <3>2. /\ channel \in [Messages -> Contents]
          /\ call \in [Processes -> Requests \cup {None}]
      BY DEF Init, Contents
    <3>3. traffic \in 0..MaxTraffic /\ reported \in Nat
      BY WorkerAssumption DEF Init
    <3> QED BY <3>1, <3>2, <3>3, FreshType DEF Init, TypeOK
  <2>2. /\ worker = None /\ disk = FreshState /\ loaded = FreshState /\ ~stopped
        /\ \A p \in Processes : call[p] = None
        /\ maint = "idle" /\ reported = 0 /\ traffic = 0 /\ told = "none"
        /\ "worker" \in Processes /\ "maint" \in Processes
        /\ channel = [m \in Messages |-> "free"] /\ used.faults = 0
    BY DEF Init, Processes
  <2>3. CallInv
    BY <2>2 DEF CallInv, WorkerCall, MaintCall, StoppedInv, Free
  <2>4. IdsInv
    BY <2>2, FreshType
       DEF IdsInv, BornInv, UniqueInv, Born, Free, Up, CreateStored, Creating
  <2>5. CountInv
    <3>1. Shown = {}
      BY <2>2 DEF Shown
    <3>2. ~Contended
      BY <2>2 DEF Contended
    <3>3. Owed <= 1
      BY <2>2, <3>2 DEF Owed, One
    <3>4. Cardinality(Shown) = 0
      BY <3>1, FS_EmptySet
    <3>5. 0 + Owed <= 1 + 0
      BY <3>3, OwedTypes
    <3> QED BY <2>2, <3>4, <3>5 DEF CountInv
  <2>6. WindowInv /\ FaultlessInv
    BY <2>2, FreshType DEF WindowInv, FaultlessInv, Alone, Counted, Up
  <2>7. StatusInv /\ AlertInv
    BY <2>2, FreshType DEF StatusInv, AlertInv, Matches, Up
  <2> QED BY <2>1, <2>3, <2>4, <2>5, <2>6, <2>7 DEF WorkerInv
<1>2. WorkerInv /\ [Next]_vars => WorkerInv'
  <2>. SUFFICES ASSUME WorkerInv, [Next]_vars PROVE WorkerInv'
    OBVIOUS
  <2>0. /\ TypeOK /\ CallInv /\ IdsInv /\ CountInv /\ WindowInv /\ FaultlessInv
        /\ StatusInv /\ AlertInv
    BY DEF WorkerInv
  <2>1. CASE Next
    <3>1. TypeOK'
      BY <2>0, <2>1, TypeStep
    <3>2. CallInv'
      BY <2>0, <2>1, WorkerCallStep, MaintCallStep, StoppedStep DEF CallInv
    <3>3. IdsInv'
      BY <2>0, <2>1, <3>1, BornStep, UniqueStep DEF IdsInv
    <3>4. CountInv'
      BY <2>0, <2>1, <3>2, StoredCount, WorkerCount, EnvironmentCount, MaintCount
         DEF Next, Answered
    <3>5. WindowInv'
      BY <2>0, <2>1, WindowStep
    <3>6. FaultlessInv'
      BY <2>0, <2>1, AloneStep, CountedStep DEF FaultlessInv
    <3>7. StatusInv' /\ AlertInv'
      BY <2>0, <2>1, StatusStep, AlertStep
    <3> QED BY <3>1, <3>2, <3>3, <3>4, <3>5, <3>6, <3>7 DEF WorkerInv
  <2>2. CASE UNCHANGED vars
    <3>1. UNCHANGED <<healthy, channel, told, disk, worker, stopped, maint, loaded, call,
                      traffic, reported, recent, used>>
      BY <2>2 DEF vars
    <3>2. TypeOK' /\ CallInv' /\ IdsInv'
      BY <2>0, <3>1
         DEF TypeOK, CallInv, WorkerCall, MaintCall, StoppedInv, IdsInv, BornInv,
             UniqueInv, Born, Free, Up, CreateStored, Creating
    <3>3. CountInv'
      BY <2>0, <3>1
         DEF CountInv, Shown, Owed, WorkerOwes, MaintOwes, Contended, Visible, Seen,
             Up, CreateStored, Creating
    <3>4. WindowInv' /\ FaultlessInv' /\ StatusInv' /\ AlertInv'
      BY <2>0, <3>1
         DEF WindowInv, FaultlessInv, Alone, Counted, StatusInv, AlertInv, Matches,
             SummaryStored, AlertStored, Alerting, Up
    <3> QED BY <3>2, <3>3, <3>4 DEF WorkerInv
  <2> QED BY <2>1, <2>2
<1> QED BY <1>1, <1>2, PTL DEF Spec

\* At most one status message is visible for each fault and one more: the lost
\* answers, failed saves and kills account for every duplicate.
THEOREM MessagesArePaid == Spec => []OneStatusMessage
<1>1. WorkerInv => OneStatusMessage
  <2>. SUFFICES ASSUME WorkerInv PROVE OneStatusMessage
    OBVIOUS
  <2>1. Cardinality(Shown) \in Nat /\ used.faults \in Nat /\ Owed \in {0, 1, 2}
        /\ Cardinality(Shown) + Owed <= 1 + used.faults
    BY ShownFinite, Numbers, OwedTypes DEF WorkerInv, CountInv
  <2>2. Cardinality(Shown) <= 1 + used.faults
    BY <2>1
  <2> QED BY <2>2 DEF OneStatusMessage, Shown
<1> QED BY <1>1, WorkerHolds, PTL

\* Without a fault the summaries and the window never count a packet twice.
THEOREM PacketsAreCounted == Spec => []CountersOK
<1>1. WorkerInv => CountersOK
  <2>. SUFFICES ASSUME WorkerInv, used.faults = 0 PROVE reported + InWindow <= traffic
    BY DEF WorkerInv, CountersOK, CountedOnce
  <2>1. /\ TypeOK /\ WorkerCall /\ reported <= traffic
        /\ ~SummaryStored =>
             /\ reported + disk.bytes <= traffic
             /\ Up => reported + worker.bytes <= traffic
    BY DEF WorkerInv, CallInv, FaultlessInv, Counted
  <2>2. CASE SummaryStored
    <3>1. InWindow = 0
      BY <2>1, <2>2 DEF SummaryStored, InWindow, WorkerCall, Free
    <3> QED BY <2>1, <3>1, Numbers
  <2>3. CASE ~SummaryStored
    <3>1. InWindow = IF Up THEN worker.bytes ELSE disk.bytes
      BY <2>3 DEF SummaryStored, InWindow, Free
    <3> QED BY <2>1, <2>3, <3>1
  <2> QED BY <2>2, <2>3
<1> QED BY <1>1, WorkerHolds, PTL

\* Until a request fails, the last alert of the channel says whether the status
\* confirmed last is DEGRADED.
THEOREM AlertsAreTrue == Spec => []LastAlertTrue
<1>1. WorkerInv => LastAlertTrue
  <2>. SUFFICES ASSUME WorkerInv, used.faults + used.refused = 0, Running,
                       told # "none"
                PROVE  (told = "DEGRADED") = (worker.confirmed = "DEGRADED")
    BY DEF LastAlertTrue
  <2>1. used.faults = 0 /\ used.refused = 0
    BY Numbers DEF WorkerInv
  <2>2. ~Alerting /\ Up
    BY DEF Running, Free, Alerting
  <2>3. Matches(worker.confirmed)
    BY <2>1, <2>2 DEF WorkerInv, AlertInv
  <2> QED BY <2>3 DEF Matches
<1> QED BY <1>1, WorkerHolds, PTL
================================================================================
