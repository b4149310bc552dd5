----------------------------- MODULE DeliveryProofs -----------------------------
(***************************************************************************)
(* What holds of Delivery under Spec, for any releases, crashes, damage    *)
(* and length of the update executor's queue.                              *)
(***************************************************************************)
EXTENDS Delivery, TLAPS

(***************************************************************************)
(* The authority and the sessions.                                         *)
(***************************************************************************)
AuthorityInv ==
  /\ committed <= highwater /\ highwater <= observed
  /\ NeverFloored /\ ~rolling
  /\ trial # None => trial = observed

\* Whose a session is tells where it is, and its transaction is the open one.
SessionInv ==
  /\ session # None =>
       /\ trial = session.release
       /\ session.by = "nobody" <=> session.stage = "active"
       /\ session.by = "boot" => tk = "boot"
       /\ session.by = "worker" =>
            /\ started /\ ptr # None /\ session.release <= ptr
            /\ session.stage = "ready" => at = "handoff"
            /\ session.stage = "applied" => applying = "prepared"
       /\ session.by = "close" => tk = "closing" /\ session.release = win
  /\ at = "handoff" => Holds("worker", "ready") /\ arg.release = session.release
  /\ applying = "prepared" => Holds("worker", "applied")

(***************************************************************************)
(* The launcher's memory.                                                  *)
(***************************************************************************)
Waits(kind, r) == \E i \in 1..Len(queue) : queue[i] = [kind |-> kind, release |-> r]

\* Before there is a window nothing is in memory.
Windows == {"ui", "offer", "closing"}
Blank ==
  tk \notin Windows =>
    /\ at = "idle" /\ arg = NoLocals /\ queue = <<>>
    /\ snap = NoSnapshot /\ ~started /\ win = None /\ applying = "no"
    /\ found = None /\ report = None

CopySteps == {"download", "remove", "place", "point", "sweep"}
\* The startup task is queued or runs: nothing is published yet.
Checking ==
  \/ Waits("startup", None)
  \/ at \in {"resolve", "judge", "admit", "stage", "broken", "publish"}
  \/ at \in CopySteps /\ ~arg.repair

\* What the locals are at each step of a task.
Locality ==
  /\ at = "idle" => arg = NoLocals
  /\ arg.repair => at \in CopySteps \cup {"repaired"} /\ arg.pending = None
  /\ at = "repaired" => arg.repair
  /\ at \in {"apply", "handoff"} => arg.pending = None
  /\ at = "judge" => arg.release \in Releases
  /\ at \in {"admit", "stage", "apply", "handoff", "repaired"} \cup CopySteps =>
       arg.release \in Releases \ Reinstall
  /\ at \in {"admit", "stage"} \cup CopySteps /\ ~arg.repair =>
       arg.disp = "mandatory"

\* The startup task is the first and the only one of its kind.
OneStartup ==
  /\ tk \in Windows => started = ~Checking
  /\ \A i \in 1..Len(queue) : queue[i].kind = "startup" => i = 1 /\ at = "idle"
  /\ \A i \in 1..Len(queue) : queue[i].release = None
                                <=> queue[i].kind \in {"startup", "check"}

\* What was submitted is queued or runs, once.
Applying == {"apply", "handoff"}
OneApply ==
  /\ at \in Applying \/ Queued("apply") => applying = "submitted"
  /\ at \in Applying => ~Queued("apply")
  /\ \A i, j \in 1..Len(queue) :
       queue[i].kind = "apply" /\ queue[j].kind = "apply" => i = j

\* The window closes with an offer only if it has something to offer.
Offered == tk = "offer" => win # None

\* The releases that are handed around as the staged one.
Held(r) ==
  /\ r # None
  /\ \/ r = win \/ r = snap.pending \/ r = arg.pending
     \/ at \in {"apply", "handoff"} /\ r = arg.release
     \/ Waits("apply", r)

\* The releases that are to be repaired, or could be.
Repaired(r) ==
  /\ r # None
  /\ \/ tk = "ui" /\ r = report
     \/ Waits("repair", r)
     \/ arg.repair /\ r = arg.release

\* A helper that goes on by itself is one that this launcher knows nothing of.
Unknowing ==
  session # None /\ session.by = "nobody" =>
    /\ found = None /\ report = None /\ at \in {"idle", "broken", "publish"}
    /\ \A r \in Releases : ~Held(r) /\ ~Repaired(r)

LauncherInv == Blank /\ Locality /\ OneStartup /\ OneApply /\ Offered /\ Unknowing

(***************************************************************************)
(* The staged generations.                                                 *)
(***************************************************************************)
\* A transaction that stays open as long as the launcher runs.
Blocked == trial # None /\ (session = None \/ Holds("worker", "applied"))

\* A held release is staged, or the helper will not take it, unless the disk
\* was damaged.
Fits(r) ==
  /\ r \notin Reinstall /\ committed < r /\ r <= observed
  /\ ptr # None /\ r <= ptr
  /\ damage = 0 /\ ~Blocked /\ r = observed /\ failed # r =>
       ptr = r /\ gens[r] = "whole"
HeldInv == \A r \in Releases : Held(r) => Fits(r)

\* A repair is of a release that was committed, or starts while the open
\* transaction is of what was staged.
Due(r) ==
  /\ r \notin Reinstall
  /\ r <= committed \/ (Blocked /\ ptr # None /\ trial <= ptr)
RepairInv == \A r \in Releases : Repaired(r) => Due(r)

\* What a copy has seen of the pointer and the generations stays so.
CopyInv ==
  /\ ptr # None => ptr \notin Reinstall
  /\ at \in {"remove", "place", "point"} => ~PointsAbove(arg.release)
  /\ at = "sweep" => ptr = arg.release
  /\ at \in {"point", "sweep"} => gens[arg.release] = "whole" \/ damage > 0
  /\ at \in CopySteps /\ ~arg.repair =>
       committed < arg.release /\ arg.release <= observed
  /\ at \in {"download", "remove", "place"} /\ ~arg.repair =>
       ptr # arg.release \/ gens[arg.release] # "whole"

StagedInv == HeldInv /\ RepairInv /\ CopyInv /\ NotSweptUnderSession

(***************************************************************************)
(* The gate.                                                               *)
(***************************************************************************)
Open(pending, disp) == pending = None /\ disp \notin {"mandatory", "reinstall"}

\* A staged update that waits for the helper, and no transaction is open.
Waiting == /\ trial = None /\ ptr # None /\ observed = highwater
           /\ IF ptr = None THEN FALSE ELSE Loadable(ptr)

GateInv ==
  tk = "ui" /\ Waiting =>
    /\ at \in {"resolve", "judge"} => arg.pending # None
    /\ at = "publish" => ~Open(arg.pending, arg.disp)
    /\ started => ~Open(snap.pending, snap.disp)

DeliveryInv == TypeOK /\ AuthorityInv /\ SessionInv /\ LauncherInv /\ StagedInv /\ GateInv

(***************************************************************************)
(* The operators of the model.                                             *)
(***************************************************************************)
LEMMA ReleaseFacts ==
  /\ Releases \subseteq Nat /\ None \notin Releases
  /\ Baseline \in Releases /\ Baseline \notin Reinstall
  /\ \A r \in Releases : SeqNo[r] = r
BY DeliveryAssumption DEF SeqNo

Authorities ==
  /\ committed \in Releases /\ previous \in Optional(Releases)
  /\ highwater \in Releases /\ observed \in Releases
  /\ failed \in Optional(Releases) /\ trial \in Optional(Releases)
  /\ rolling \in BOOLEAN

LEMMA Tried ==
  ASSUME Authorities, AuthorityInv, NEW r \in Releases \ Reinstall, Authority!Try(r)
  PROVE  /\ Authorities' /\ AuthorityInv'
         /\ trial = None /\ trial' = r /\ observed' = r
         /\ observed <= r /\ failed' = None
         /\ r = observed => failed # r \/ r = committed
         /\ UNCHANGED <<committed, previous, highwater, rolling>>
<1>1. /\ trial = None /\ trial' = r /\ observed' = r /\ failed' = None
      /\ r > observed \/ (r = observed /\ (failed # r \/ r = committed))
      /\ UNCHANGED <<committed, previous, highwater, rolling>>
  BY ReleaseFacts DEF Authority!Try, Authority!Quiet, Authorities
<1>2. Authorities'
  BY <1>1 DEF Authorities, Optional
<1>3. AuthorityInv'
  BY <1>1, ReleaseFacts DEF AuthorityInv, NeverFloored, Authorities
<1> QED BY <1>1, <1>2, <1>3, ReleaseFacts DEF Authorities

LEMMA Admitted ==
  ASSUME Authorities, AuthorityInv, NEW r \in Releases \ Reinstall, Authority!Admit(r)
  PROVE  /\ Authorities' /\ AuthorityInv'
         /\ trial = None /\ highwater' = r /\ observed' = r /\ observed < r
         /\ UNCHANGED <<committed, previous, failed, trial, rolling>>
<1>1. /\ trial = None /\ highwater' = r /\ observed' = r /\ observed < r
      /\ UNCHANGED <<committed, previous, failed, trial, rolling>>
  BY ReleaseFacts DEF Authority!Admit, Authority!Quiet, Authorities
<1>2. Authorities'
  BY <1>1 DEF Authorities, Optional
<1>3. AuthorityInv'
  BY <1>1, ReleaseFacts DEF AuthorityInv, NeverFloored, Authorities
<1> QED BY <1>1, <1>2, <1>3

LEMMA Accepted ==
  ASSUME Authorities, AuthorityInv, Authority!Accept
  PROVE  /\ Authorities' /\ AuthorityInv' /\ trial # None /\ trial' = None
         /\ committed' = observed /\ highwater' = observed
         /\ UNCHANGED <<observed, failed>>
<1>1. /\ trial # None /\ committed' = trial /\ previous' = committed
      /\ highwater' = trial /\ trial' = None
      /\ UNCHANGED <<observed, failed, rolling>>
  BY DEF Authority!Accept
<1>2. Authorities'
  BY <1>1 DEF Authorities, Optional
<1>3. AuthorityInv'
  BY <1>1, ReleaseFacts DEF AuthorityInv, NeverFloored, Authorities
<1> QED BY <1>1, <1>2, <1>3 DEF AuthorityInv

LEMMA Rejected ==
  ASSUME Authorities, AuthorityInv, Authority!Reject
  PROVE  /\ Authorities' /\ AuthorityInv' /\ trial # None /\ trial' = None
         /\ failed' = observed
         /\ UNCHANGED <<committed, highwater, observed>>
<1>1. /\ trial # None /\ failed' = observed /\ trial' = None
      /\ UNCHANGED <<committed, previous, highwater, observed, rolling>>
  BY DEF Authority!Reject
<1>2. Authorities'
  BY <1>1 DEF Authorities, Optional
<1>3. AuthorityInv'
  BY <1>1, ReleaseFacts DEF AuthorityInv, NeverFloored, Authorities
<1> QED BY <1>1, <1>2, <1>3

LEMMA AuthorityStays ==
  ASSUME UNCHANGED authority
  PROVE  /\ Authorities => Authorities'
         /\ AuthorityInv => AuthorityInv'
BY DEF authority, Authorities, AuthorityInv, NeverFloored

\* What is loaded is what waits, once the slots can be read.
LEMMA LoadedIs ==
  ASSUME TypeOK
  PROVE  /\ Loaded \in Optional(Releases)
         /\ Loaded # None =>
              /\ session = None /\ observed = highwater /\ ptr = Loaded
              /\ Loaded \in Releases
              /\ gens[Loaded] = "whole" /\ highwater = Loaded
              /\ Loaded > committed /\ failed # Loaded
         /\ Readable /\ Loaded = None => ~Waiting
BY DEF TypeOK, Optional, Loaded, Readable, Loadable, Waiting

(***************************************************************************)
(* The queue.                                                              *)
(***************************************************************************)
LEMMA QueueGrows ==
  ASSUME queue \in Seq(Tasks), NEW t \in Tasks, queue' = Append(queue, t)
  PROVE  /\ queue' \in Seq(Tasks) /\ Len(queue') = Len(queue) + 1
         /\ Len(queue) \in Nat /\ queue'[Len(queue) + 1] = t
         /\ \A i \in 1..Len(queue) : queue'[i] = queue[i] /\ queue[i] \in Tasks
         /\ \A kind, r : Waits(kind, r)' <=>
              Waits(kind, r) \/ t = [kind |-> kind, release |-> r]
<1>1. /\ queue' \in Seq(Tasks) /\ Len(queue') = Len(queue) + 1
      /\ Len(queue) \in Nat /\ queue'[Len(queue) + 1] = t
      /\ \A i \in 1..Len(queue) : queue'[i] = queue[i] /\ queue[i] \in Tasks
  OBVIOUS
<1>2. ASSUME NEW kind, NEW r, Waits(kind, r)'
      PROVE  Waits(kind, r) \/ t = [kind |-> kind, release |-> r]
  <2>1. PICK i \in 1..Len(queue') : queue'[i] = [kind |-> kind, release |-> r]
    BY <1>2 DEF Waits
  <2>2. i \in 1..Len(queue) \/ i = Len(queue) + 1
    BY <1>1
  <2> QED BY <2>1, <2>2, <1>1 DEF Waits
<1>3. ASSUME NEW kind, NEW r, Waits(kind, r) PROVE Waits(kind, r)'
  <2>1. PICK i \in 1..Len(queue) : queue[i] = [kind |-> kind, release |-> r]
    BY <1>3 DEF Waits
  <2>2. i \in 1..Len(queue') /\ queue'[i] = [kind |-> kind, release |-> r]
    BY <2>1, <1>1
  <2> QED BY <2>2 DEF Waits
<1>4. ASSUME NEW kind, NEW r, t = [kind |-> kind, release |-> r] PROVE Waits(kind, r)'
  <2>1. Len(queue) + 1 \in 1..Len(queue')
    BY <1>1
  <2> QED BY <2>1, <1>4, <1>1 DEF Waits
<1> QED BY <1>1, <1>2, <1>3, <1>4

LEMMA QueueShrinks ==
  ASSUME queue \in Seq(Tasks), queue # <<>>, queue' = Tail(queue)
  PROVE  /\ queue' \in Seq(Tasks) /\ Head(queue) \in Tasks
         /\ Len(queue) \in Nat \ {0} /\ Len(queue') = Len(queue) - 1
         /\ Head(queue) = queue[1]
         /\ \A i \in 1..Len(queue') : i + 1 \in 2..Len(queue) /\ queue'[i] = queue[i + 1]
         /\ \A kind, r : Waits(kind, r)' => Waits(kind, r)
         /\ \A kind, r : Waits(kind, r) =>
              Waits(kind, r)' \/ Head(queue) = [kind |-> kind, release |-> r]
         /\ Waits(Head(queue).kind, Head(queue).release)
<1>1. /\ queue' \in Seq(Tasks) /\ Head(queue) \in Tasks
      /\ Len(queue) \in Nat \ {0} /\ Len(queue') = Len(queue) - 1
      /\ Head(queue) = queue[1]
      /\ \A i \in 1..Len(queue') : i + 1 \in 2..Len(queue) /\ queue'[i] = queue[i + 1]
  OBVIOUS
<1>2. ASSUME NEW kind, NEW r, Waits(kind, r)' PROVE Waits(kind, r)
  <2>1. PICK i \in 1..Len(queue') : queue'[i] = [kind |-> kind, release |-> r]
    BY <1>2 DEF Waits
  <2>2. i + 1 \in 1..Len(queue) /\ queue[i + 1] = [kind |-> kind, release |-> r]
    BY <1>1, <2>1
  <2> QED BY <2>2 DEF Waits
<1>3. ASSUME NEW kind, NEW r, Waits(kind, r)
      PROVE  Waits(kind, r)' \/ Head(queue) = [kind |-> kind, release |-> r]
  <2>1. PICK i \in 1..Len(queue) : queue[i] = [kind |-> kind, release |-> r]
    BY <1>3 DEF Waits
  <2>2. CASE i = 1
    BY <1>1, <2>1, <2>2
  <2>3. CASE i # 1
    <3>1. i - 1 \in 1..Len(queue') /\ queue'[i - 1] = [kind |-> kind, release |-> r]
      BY <1>1, <2>1, <2>3
    <3> QED BY <3>1 DEF Waits
  <2> QED BY <2>2, <2>3
<1>4. Waits(Head(queue).kind, Head(queue).release)
  <2>1. Head(queue) = [kind |-> Head(queue).kind, release |-> Head(queue).release]
    BY <1>1 DEF Tasks
  <2>2. 1 \in 1..Len(queue)
    BY <1>1
  <2> QED BY <1>1, <2>1, <2>2 DEF Waits
<1> QED BY <1>1, <1>2, <1>3, <1>4

LEMMA WaitsSame ==
  ASSUME UNCHANGED queue
  PROVE  \A kind, r : Waits(kind, r)' <=> Waits(kind, r)
BY DEF Waits

LEMMA NothingWaits ==
  ASSUME queue = <<>>
  PROVE  \A kind, r : ~Waits(kind, r)
BY DEF Waits

(***************************************************************************)
(* The parts of the invariant.                                             *)
(***************************************************************************)
Memory ==
  /\ at \in Phases /\ arg \in Locals
  /\ queue \in Seq(Tasks) /\ Len(queue) <= MaxQueue
  /\ found \in Optional(Releases) /\ report \in Optional(Releases \ Reinstall)
  /\ snap \in Snapshots /\ started \in BOOLEAN /\ win \in Optional(Releases)
  /\ applying \in {"no", "submitted", "failed", "prepared"}
Disk ==
  /\ exe \in Optional(Releases) /\ core \in Optional(Releases)
  /\ session \in Optional(Sessions) /\ ptr \in Optional(Releases)
  /\ gens \in [Releases -> {"absent", "whole", "damaged"}]
  /\ newest \in Releases /\ tk \in Tks /\ game \in BOOLEAN
  /\ crashes \in 0..MaxCrashes /\ damage \in 0..MaxDamage

LEMMA TypeParts == TypeOK <=> Authorities /\ Memory /\ Disk
BY DEF TypeOK, Authorities, Memory, Disk

LEMMA TypePartsNext == TypeOK' <=> Authorities' /\ Memory' /\ Disk'
BY DEF TypeOK, Authorities, Memory, Disk

LEMMA SessionFields ==
  ASSUME Disk, session # None
  PROVE  /\ session \in Sessions /\ session.release \in Releases
         /\ session.by \in {"boot", "worker", "close", "nobody"}
         /\ session.stage \in {"ready", "applied", "active"}
BY DEF Disk, Optional, Sessions

\* The steps of a process that has no window, and those that end it.
EmptyMemory ==
  /\ at = "idle" /\ arg = NoLocals /\ queue = <<>>
  /\ snap = NoSnapshot /\ started = FALSE /\ win = None /\ applying = "no"
  /\ found = None /\ report = None

LEMMA EmptyTypes == EmptyMemory => Memory
<1> SUFFICES ASSUME EmptyMemory PROVE Memory
  OBVIOUS
<1>1. Len(<<>>) = 0 /\ <<>> \in Seq(Tasks)
  OBVIOUS
<1>2. 0 <= MaxQueue
  BY DeliveryAssumption
<1>3. NoLocals \in Locals
  BY DEF NoLocals, Locals, Optional, Dispositions
<1>4. NoSnapshot \in Snapshots
  BY DEF NoSnapshot, Snapshots, Optional, Dispositions
<1> QED BY <1>1, <1>2, <1>3, <1>4 DEF EmptyMemory, Memory, Optional, Phases

BlankInv ==
  /\ Authorities /\ AuthorityInv /\ Disk /\ EmptyMemory /\ tk \notin Windows
  /\ session # None =>
       /\ trial = session.release
       /\ session.by \in {"nobody", "boot"}
       /\ session.by = "nobody" <=> session.stage = "active"
       /\ session.by = "boot" => tk = "boot"
  /\ ptr # None => ptr \notin Reinstall
  /\ NotSweptUnderSession

LEMMA BlankHolds == BlankInv => DeliveryInv
<1> SUFFICES ASSUME BlankInv PROVE DeliveryInv
  OBVIOUS
<1> USE DEF BlankInv
<1>1. TypeOK
  BY EmptyTypes, TypeParts
<1>2. SessionInv
  BY DEF SessionInv, EmptyMemory
<1>3. \A r \in Releases : ~Held(r) /\ ~Repaired(r)
  BY NothingWaits DEF Held, Repaired, EmptyMemory, Windows, NoSnapshot, NoLocals
<1>4. LauncherInv
  <2>1. Blank
    BY DEF Blank, EmptyMemory
  <2>2. Locality
    BY DEF Locality, EmptyMemory, NoLocals, CopySteps
  <2>3. OneStartup
    <3>1. Len(queue) = 0
      BY DEF EmptyMemory
    <3> QED BY <3>1 DEF OneStartup
  <2>4. Unknowing
    BY <1>3 DEF Unknowing, EmptyMemory
  <2>5. OneApply
    <3>1. Len(queue) = 0 /\ at = "idle"
      BY DEF EmptyMemory
    <3> QED BY <3>1 DEF OneApply, Applying, Queued
  <2> QED BY <2>1, <2>2, <2>3, <2>4, <2>5 DEF LauncherInv, Offered, Windows
<1>5. StagedInv
  BY <1>3 DEF StagedInv, HeldInv, RepairInv, CopyInv, CopySteps, EmptyMemory
<1>6. GateInv
  BY DEF GateInv, Windows
<1> QED BY <1>1, <1>2, <1>4, <1>5, <1>6 DEF DeliveryInv

LEMMA Initially == Init => DeliveryInv
<1> SUFFICES ASSUME Init PROVE DeliveryInv
  OBVIOUS
<1>1. Authorities /\ AuthorityInv
  <2>1. /\ committed = Baseline /\ highwater = Baseline /\ observed = Baseline
        /\ previous = None /\ failed = None /\ trial = None /\ rolling = FALSE
    BY DEF Init, Authority!Init
  <2>2. Authorities
    BY <2>1, ReleaseFacts DEF Authorities, Optional
  <2>3. Baseline <= Baseline
    BY ReleaseFacts
  <2> QED BY <2>1, <2>2, <2>3, ReleaseFacts DEF AuthorityInv, NeverFloored
<1>2. Disk
  <2>1. 0 \in 0..MaxCrashes /\ 0 \in 0..MaxDamage
    BY DeliveryAssumption
  <2> QED BY <2>1, ReleaseFacts DEF Init, Disk, Optional, Tks
<1> QED BY <1>1, <1>2, BlankHolds
        DEF Init, BlankInv, EmptyMemory, Windows, NotSweptUnderSession

LEMMA BlankHoldsNext == BlankInv' => DeliveryInv'
BY BlankHolds, PTL

\* Conversely, what holds without a window.
LEMMA BlankBefore ==
  ASSUME DeliveryInv, tk \notin Windows
  PROVE  BlankInv
<1>1. TypeOK /\ SessionInv /\ CopyInv /\ AuthorityInv /\ NotSweptUnderSession /\ Blank
  BY DEF DeliveryInv, StagedInv, LauncherInv
<1>2. Authorities /\ Memory /\ Disk
  BY <1>1, TypeParts
<1>3. EmptyMemory
  <2>1. started = FALSE
    BY <1>1, <1>2 DEF Blank, Memory
  <2> QED BY <1>1, <2>1 DEF Blank, EmptyMemory
<1>4. session # None => session.by \in {"nobody", "boot"}
  BY <1>1, <1>2, <1>3, SessionFields DEF SessionInv, Windows, EmptyMemory
<1> QED BY <1>1, <1>2, <1>3, <1>4 DEF BlankInv, SessionInv, CopyInv

(***************************************************************************)
(* The launcher without a window, and its end.                             *)
(***************************************************************************)
\* A step that touches neither memory nor authority.
LEMMA BlankStays ==
  ASSUME BlankInv, UNCHANGED <<authority, session, store, worker, checks, ui, env>>,
         tk' \in Tks \ Windows, exe' \in Optional(Releases), core' \in Optional(Releases),
         session # None => session.by = "nobody"
  PROVE  DeliveryInv'
<1>1. Authorities' /\ AuthorityInv'
  BY AuthorityStays DEF BlankInv
<1>2. Disk' /\ EmptyMemory'
  BY DEF BlankInv, Disk, EmptyMemory, store, worker, checks, ui, env
<1>3. NotSweptUnderSession'
  BY DEF BlankInv, NotSweptUnderSession, store, env
<1>4. BlankInv'
  BY <1>1, <1>2, <1>3 DEF BlankInv, authority, store
<1> QED BY <1>4, BlankHoldsNext

LEMMA StartKeeps ==
  ASSUME DeliveryInv,
         Launch \/ SyncNothing \/ SyncAside \/ SyncLauncher \/ SyncCoreFails \/ NothingStale
  PROVE  DeliveryInv'
<1>1. tk \notin Windows /\ tk' \in Tks \ Windows
  BY DEF Launch, SyncNothing, SyncAside, SyncLauncher, SyncCoreFails, NothingStale, Windows, Tks
<1>2. BlankInv
  BY <1>1, BlankBefore
<1>3. session # None => session.by = "nobody"
  BY <1>2 DEF BlankInv, Launch, SyncNothing, SyncAside, SyncLauncher, SyncCoreFails, NothingStale
<1>4. UNCHANGED <<authority, session, store, worker, checks, ui, env>>
  BY DEF Launch, SyncNothing, SyncAside, SyncLauncher, SyncCoreFails, NothingStale, root
<1>5. exe' \in Optional(Releases) /\ core' \in Optional(Releases)
  BY <1>2 DEF Launch, SyncNothing, SyncAside, SyncLauncher, SyncCoreFails, NothingStale,
       root, BlankInv, Disk, Authorities, Optional
<1> QED BY <1>1, <1>2, <1>3, <1>4, <1>5, BlankStays

LEMMA ClearStalePointerKeeps ==
  ASSUME DeliveryInv, ClearStalePointer
  PROVE  DeliveryInv'
<1>1. tk = "stale" /\ tk' = "load" /\ ptr' = None /\ session = None
      /\ UNCHANGED <<exe, core, checks, authority, session, worker, ui, env>>
  BY DEF ClearStalePointer, Readable, root
<1>2. BlankInv
  BY <1>1, BlankBefore DEF Windows
<1>3. gens' \in [Releases -> {"absent", "whole", "damaged"}]
  BY <1>2 DEF ClearStalePointer, BlankInv, Disk
<1>4. Authorities' /\ AuthorityInv'
  BY <1>1, <1>2, AuthorityStays DEF BlankInv
<1>5. Disk' /\ EmptyMemory'
  BY <1>1, <1>2, <1>3 DEF BlankInv, Disk, EmptyMemory, Optional, Tks, worker, checks, ui, env
<1>6. BlankInv'
  BY <1>1, <1>2, <1>4, <1>5 DEF BlankInv, Windows, NotSweptUnderSession
<1> QED BY <1>6, BlankHoldsNext

\* The end of the process, whatever it was doing.
LEMMA GoneKeeps ==
  ASSUME DeliveryInv, Gone, UNCHANGED <<authority, store, newest, game, damage>>,
         exe' \in Optional(Releases), core' \in Optional(Releases),
         crashes' \in 0..MaxCrashes,
         \/ session' = session /\ (session # None => session.by = "nobody")
         \/ session' = None
         \/ session # None /\ Released
  PROVE  DeliveryInv'
<1>1. TypeOK /\ SessionInv /\ CopyInv /\ AuthorityInv /\ NotSweptUnderSession
  BY DEF DeliveryInv, StagedInv
<1>2. Authorities /\ Disk
  BY <1>1, TypeParts
<1>3. Authorities' /\ AuthorityInv'
  BY <1>1, <1>2, AuthorityStays
<1>4. EmptyMemory' /\ tk' = "off"
  BY DEF Gone, EmptyMemory
<1>5. session' # None => /\ trial' = session'.release
                         /\ session'.by = "nobody" /\ session'.stage = "active"
                         /\ session' \in Sessions
  <2>1. CASE session' = session /\ (session # None => session.by = "nobody")
    BY <2>1, <1>1, <1>2, SessionFields DEF SessionInv, authority
  <2>2. CASE session # None /\ Released
    BY <2>2, <1>1, <1>2, SessionFields DEF SessionInv, authority, Released, Sessions
  <2>3. CASE session' = None
    BY <2>3
  <2> QED BY <2>1, <2>2, <2>3
<1>6. Disk'
  BY <1>2, <1>4, <1>5 DEF Disk, store, Tks, Optional
<1>7. NotSweptUnderSession'
  BY <1>5 DEF NotSweptUnderSession
<1>8. BlankInv'
  BY <1>1, <1>3, <1>4, <1>5, <1>6, <1>7 DEF BlankInv, CopyInv, Windows, store
<1> QED BY <1>8, BlankHoldsNext

LEMMA EndKeeps ==
  ASSUME DeliveryInv, SyncCore \/ BootHandsOff \/ TkRelaunch \/ Exit \/ Crash
  PROVE  DeliveryInv'
<1>1. TypeOK /\ SessionInv
  BY DEF DeliveryInv
<1>2. Authorities /\ Disk
  BY <1>1, TypeParts
<1>3. Gone /\ UNCHANGED <<authority, store, newest, game, damage>>
  BY DEF SyncCore, BootHandsOff, TkRelaunch, Exit, Crash, env
<1>4. exe' \in Optional(Releases) /\ core' \in Optional(Releases)
  BY <1>2 DEF SyncCore, BootHandsOff, TkRelaunch, Exit, Crash, root, Disk, Authorities, Optional
<1>5. crashes' \in 0..MaxCrashes
  <2>1. CASE Crash
    BY <2>1, <1>2, DeliveryAssumption DEF Crash, Disk
  <2>2. CASE SyncCore \/ BootHandsOff \/ TkRelaunch \/ Exit
    BY <2>2, <1>2 DEF SyncCore, BootHandsOff, TkRelaunch, Exit, env, Disk
  <2> QED BY <2>1, <2>2
<1>6. \/ session' = session /\ (session # None => session.by = "nobody")
      \/ session' = None
      \/ session # None /\ Released
  <2>1. CASE SyncCore
    <3>1. tk \notin Windows
      BY <2>1 DEF SyncCore, Windows
    <3>2. BlankInv /\ tk = "copy" /\ session' = session
      BY <3>1, <2>1, BlankBefore DEF SyncCore
    <3> QED BY <3>2 DEF BlankInv
  <2>2. CASE BootHandsOff \/ TkRelaunch
    BY <2>2, <1>1 DEF BootHandsOff, TkRelaunch, SessionInv, Holds
  <2>3. CASE Exit \/ Crash
    BY <2>3 DEF Exit, Crash, LeftAlone, Holds
  <2> QED BY <2>1, <2>2, <2>3
<1> QED BY <1>3, <1>4, <1>5, <1>6, GoneKeeps

(***************************************************************************)
(* Handing a release to the helper.                                        *)
(***************************************************************************)
LEMMA Begun ==
  ASSUME Authorities, AuthorityInv, Disk, NEW r \in Releases \ Reinstall,
         NEW by \in {"boot", "worker", "close"}, BeginAccepted(by, r)
  PROVE  /\ Authorities' /\ AuthorityInv'
         /\ session = None /\ session' \in Sessions /\ session' # None
         /\ session'.by = by /\ session'.release = r /\ session'.stage = "ready"
         /\ trial = None /\ trial' = r /\ observed' = r /\ observed <= r
         /\ failed' = None /\ UNCHANGED <<committed, highwater>>
         /\ r = observed => failed # r \/ r = committed
<1>1. Authority!Try(r) /\ session = None
      /\ session' = [by |-> by, release |-> r, stage |-> "ready"]
  BY DEF BeginAccepted
<1>2. session' \in Sessions
  BY <1>1 DEF Sessions
<1>3. None \notin Sessions
  BY SessionAssumption
<1> QED BY <1>1, <1>2, <1>3, Tried

LEMMA Ended ==
  ASSUME Authorities, AuthorityInv, NEW by, PrepareFails(by)
  PROVE  /\ Authorities' /\ AuthorityInv' /\ Holds(by, "ready") /\ session' = None
         /\ UNCHANGED <<committed, highwater, observed>>
         /\ \/ UNCHANGED <<trial, failed>>
            \/ trial' = None /\ failed' = observed
<1>1. CASE ApplyRejected(by)
  BY <1>1, Rejected DEF ApplyRejected
<1>2. CASE CopyFails(by) \/ TimesOut(by)
  BY <1>2, AuthorityStays DEF CopyFails, TimesOut, Abort, authority
<1> QED BY <1>1, <1>2 DEF PrepareFails

LEMMA Applied ==
  ASSUME Disk, NEW by, ApplyAccepted(by)
  PROVE  /\ Holds(by, "ready") /\ UNCHANGED authority
         /\ session' \in Sessions /\ session'.by = by /\ session'.stage = "applied"
         /\ session'.release = session.release
BY SessionFields DEF ApplyAccepted, Holds, Sessions

LEMMA BootBeginKeeps ==
  ASSUME DeliveryInv, BootBegin
  PROVE  DeliveryInv'
<1>1. /\ tk = "load" /\ tk' = "boot" /\ Loaded # None
      /\ BeginAccepted("boot", Loaded)
      /\ UNCHANGED <<root, checks, store, worker, ui, env>>
  BY DEF BootBegin
<1>2. BlankInv /\ TypeOK
  BY <1>1, BlankBefore DEF Windows, DeliveryInv
<1>3. Loaded \in Releases \ Reinstall /\ ptr = Loaded /\ gens[Loaded] = "whole"
  BY <1>1, <1>2, LoadedIs DEF BlankInv
<1>4. Authorities /\ AuthorityInv /\ Disk
  BY <1>2 DEF BlankInv
<1> HIDE DEF Loaded
<1>5. /\ Authorities' /\ AuthorityInv'
      /\ session' \in Sessions /\ session' # None
      /\ session'.by = "boot" /\ session'.release = Loaded /\ session'.stage = "ready"
      /\ trial' = Loaded
  BY <1>1, <1>3, <1>4, Begun
<1>6. Disk' /\ EmptyMemory'
  BY <1>1, <1>2, <1>5 DEF BlankInv, Disk, EmptyMemory, Optional, Tks, root, store,
     worker, checks, ui, env
<1>7. NotSweptUnderSession'
  BY <1>1, <1>3, <1>5 DEF NotSweptUnderSession, store
<1>8. BlankInv'
  BY <1>1, <1>2, <1>5, <1>6, <1>7 DEF BlankInv, Windows, store
<1> QED BY <1>8, BlankHoldsNext

LEMMA BootAppliedKeeps ==
  ASSUME DeliveryInv, BootApplied
  PROVE  DeliveryInv'
<1>1. /\ tk = "boot" /\ ApplyAccepted("boot")
      /\ UNCHANGED <<root, checks, store, tk, worker, ui, env>>
  BY DEF BootApplied
<1>2. BlankInv
  BY <1>1, BlankBefore DEF Windows
<1>3. /\ Holds("boot", "ready") /\ UNCHANGED authority
      /\ session' \in Sessions /\ session'.by = "boot" /\ session'.stage = "applied"
      /\ session'.release = session.release
  BY <1>1, <1>2, Applied DEF BlankInv
<1>4. Authorities' /\ AuthorityInv'
  BY <1>2, <1>3, AuthorityStays DEF BlankInv
<1>5. Disk' /\ EmptyMemory'
  BY <1>1, <1>2, <1>3 DEF BlankInv, Disk, EmptyMemory, Optional, Tks, root, store,
     worker, checks, ui, env
<1>6. BlankInv'
  BY <1>1, <1>2, <1>3, <1>4, <1>5
     DEF BlankInv, Windows, store, NotSweptUnderSession, Holds, authority
<1> QED BY <1>6, BlankHoldsNext

(***************************************************************************)
(* The window opens.                                                       *)
(***************************************************************************)
LEMMA OpenKeeps ==
  ASSUME BlankInv, TypeOK, OpenWindow, UNCHANGED <<root, checks, store, env>>,
         Authorities', AuthorityInv',
         \/ session' = None
         \/ session' = session /\ UNCHANGED authority
              /\ (session # None => session.by = "nobody"),
         Loaded # None => UNCHANGED <<authority, session>>
  PROVE  DeliveryInv'
<1> DEFINE task == [kind |-> "startup", release |-> None]
<1>1. /\ tk' = "ui" /\ queue' = <<task>> /\ win' = Loaded
      /\ snap'.pending = Loaded
      /\ snap' = [pending |-> Loaded,
                  disp |-> IF Loaded = None THEN "none" ELSE "mandatory"]
      /\ at' = "idle" /\ arg' = NoLocals /\ started' = FALSE /\ applying' = "no"
      /\ found' = None /\ report' = None
      /\ UNCHANGED <<exe, core, ptr, gens, newest, game, crashes, damage>>
  BY DEF OpenWindow, BlankInv, EmptyMemory, root, checks, store, env
<1>2. /\ Loaded \in Optional(Releases)
      /\ Loaded # None =>
           /\ session = None /\ observed = highwater /\ ptr = Loaded
           /\ Loaded \in Releases
           /\ gens[Loaded] = "whole" /\ highwater = Loaded
           /\ Loaded > committed /\ failed # Loaded
  BY LoadedIs
<1>3. Authorities /\ AuthorityInv /\ Disk
  BY DEF BlankInv
<1>4. task \in Tasks
  BY DEF Tasks, Optional
<1>5. /\ queue' \in Seq(Tasks) /\ Len(queue') = 1 /\ queue'[1] = task
      /\ \A kind, r : Waits(kind, r)' <=> kind = "startup" /\ r = None
  <2>1. queue' \in Seq(Tasks) /\ Len(queue') = 1 /\ queue'[1] = task
    BY <1>1, <1>4
  <2>2. \A i \in 1..Len(queue') : i = 1
    BY <2>1
  <2>3. \A kind, r : Waits(kind, r)' <=> task = [kind |-> kind, release |-> r]
    BY <2>1, <2>2 DEF Waits
  <2> QED BY <2>1, <2>3
<1> HIDE DEF Loaded, task
<1>6. Memory'
  <2>1. 1 <= MaxQueue
    BY DeliveryAssumption
  <2>2. NoLocals \in Locals
    BY DEF NoLocals, Locals, Optional, Dispositions
  <2>3. snap' \in Snapshots
    BY <1>1, <1>2 DEF Snapshots, Dispositions
  <2> QED BY <1>1, <1>2, <1>5, <2>1, <2>2, <2>3 DEF Memory, Optional, Phases
<1>7. Disk'
  BY <1>1, <1>3 DEF Disk, Tks, Optional
<1>8. TypeOK'
  BY <1>6, <1>7, TypePartsNext
<1>9. SessionInv'
  BY <1>1 DEF BlankInv, SessionInv, authority
<1>10. \A r \in Releases : /\ ~Repaired(r)'
                           /\ Held(r)' => r = Loaded
  BY <1>1, <1>5 DEF Repaired, Held, NoLocals
<1>11. LauncherInv'
  <2>1. Blank' /\ Locality'
    BY <1>1 DEF Blank, Windows, Locality, NoLocals, CopySteps
  <2>2. OneStartup'
    <3>1. Checking'
      BY <1>5 DEF Checking
    <3>2. (started = ~Checking)'
      BY <1>1, <3>1
    <3>3. \A i \in 1..Len(queue') : i = 1 /\ queue'[i].release = None /\ queue'[i].kind = "startup"
      BY <1>5 DEF task
    <3> QED BY <1>1, <3>2, <3>3 DEF OneStartup
  <2>3. Unknowing'
    <3>1. ASSUME session' # None, Loaded # None PROVE FALSE
      BY <3>1, <1>2
    <3> QED BY <1>1, <1>10, <3>1, ReleaseFacts DEF Unknowing
  <2>4. OneApply'
    <3>1. \A i \in 1..Len(queue') : i = 1 /\ queue'[i].kind = "startup"
      BY <1>5 DEF task
    <3> QED BY <1>1, <3>1 DEF OneApply, Applying, Queued
  <2> QED BY <1>1, <2>1, <2>2, <2>3, <2>4 DEF LauncherInv, Offered
<1>12. HeldInv'
  <2>1. ASSUME NEW r \in Releases, Held(r)' PROVE Fits(r)'
    <3>1. r = Loaded /\ Loaded # None
      BY <1>10, <2>1, ReleaseFacts
    <3>2. UNCHANGED <<committed, observed, highwater, failed>> /\ r \notin Reinstall
      BY <1>2, <3>1 DEF authority, AuthorityInv, NeverFloored
    <3>3. ptr' = r /\ gens'[r] = "whole" /\ r <= r /\ ptr' # None
      BY <1>1, <1>2, <3>1, ReleaseFacts
    <3>4. committed' < r /\ r <= observed'
      BY <1>2, <1>3, <3>1, <3>2, ReleaseFacts DEF Authorities
    <3> QED BY <3>2, <3>3, <3>4 DEF Fits
  <2> QED BY <2>1 DEF HeldInv
<1>13. RepairInv' /\ CopyInv' /\ NotSweptUnderSession'
  <2>1. session' # None => session'.stage # "ready"
    BY DEF BlankInv
  <2> QED BY <1>1, <1>10, <2>1
          DEF BlankInv, RepairInv, CopyInv, CopySteps, NotSweptUnderSession
<1>14. GateInv'
  BY <1>1 DEF GateInv
<1> QED BY <1>8, <1>9, <1>11, <1>12, <1>13, <1>14 DEF DeliveryInv, StagedInv

LEMMA WindowOpens ==
  ASSUME DeliveryInv, BootWithoutUpdate \/ BootBeginRefused \/ BootFails
  PROVE  DeliveryInv'
<1>1. tk \notin Windows /\ OpenWindow /\ UNCHANGED <<root, checks, store, env>>
  BY DEF BootWithoutUpdate, BootBeginRefused, BootFails, Windows
<1>2. BlankInv /\ TypeOK
  BY <1>1, BlankBefore DEF DeliveryInv
<1>3. Authorities /\ AuthorityInv
  BY <1>2 DEF BlankInv
<1>4. CASE BootWithoutUpdate \/ BootBeginRefused
  <2>1. UNCHANGED <<authority, session>> /\ tk # "boot"
    BY <1>4 DEF BootWithoutUpdate, BootBeginRefused, BeginRefused, NoHelper
  <2>2. session # None => session.by = "nobody"
    BY <1>2, <2>1 DEF BlankInv
  <2> QED BY <1>1, <1>2, <1>3, <2>1, <2>2, OpenKeeps, AuthorityStays
<1>5. CASE BootFails
  <2>1. Authorities' /\ AuthorityInv' /\ Holds("boot", "ready") /\ session' = None
    BY <1>3, <1>5, Ended DEF BootFails
  <2>2. Loaded = None
    BY <2>1 DEF Loaded, Readable, Holds
  <2> QED BY <1>1, <1>2, <2>1, <2>2, OpenKeeps
<1> QED BY <1>4, <1>5


(***************************************************************************)
(* The worker moves on and touches nothing but its locals.                 *)
(***************************************************************************)
LEMMA SameDisk ==
  ASSUME UNCHANGED <<authority, session, store, damage>>
  PROVE  /\ \A r : Fits(r)' <=> Fits(r)
         /\ \A r : Due(r)' <=> Due(r)
         /\ Waiting' <=> Waiting
         /\ NotSweptUnderSession => NotSweptUnderSession'
         /\ \A r : PointsAbove(r)' <=> PointsAbove(r)
BY DEF authority, store, Fits, Due, Blocked, Holds, Waiting, Loadable,
       NotSweptUnderSession, PointsAbove

\* While something waits, it can be loaded.
LEMMA WaitingLoads ==
  ASSUME DeliveryInv, Waiting
  PROVE  Readable /\ Loaded # None
<1>1. TypeOK /\ SessionInv /\ trial = None /\ observed = highwater
  BY DEF DeliveryInv, Waiting
<1>2. session = None
  BY <1>1, TypeParts, SessionFields, ReleaseFacts DEF SessionInv
<1> QED BY <1>1, <1>2, LoadedIs DEF Readable

\* A helper that goes on by itself leaves the worker nothing to do.
NoStranger == session = None \/ session.by # "nobody"

LEMMA Known ==
  ASSUME DeliveryInv, at \notin {"idle", "broken", "publish"}
  PROVE  NoStranger
BY DEF DeliveryInv, LauncherInv, Unknowing, NoStranger

LEMMA OneApplyStays ==
  ASSUME OneApply, UNCHANGED <<queue, applying>>, at' \notin Applying \/ at' = at
  PROVE  OneApply'
BY DEF OneApply, Queued

LEMMA WorkerMoves ==
  ASSUME DeliveryInv,
         UNCHANGED <<root, report, authority, session, store, tk, queue, ui, env>>,
         at \notin {"idle", "apply", "handoff"}, at' \notin {"apply", "handoff"},
         at' \in Phases, arg' \in Locals, found' \in Optional(Releases),
         Checking' <=> Checking,
         arg'.repair => arg.repair /\ arg'.release = arg.release,
         arg'.pending \in Releases => arg'.pending = arg.pending \/ Fits(arg'.pending),
         NoStranger \/ (found' = None /\ at' \in {"idle", "broken", "publish"}
                          /\ arg'.pending = None /\ arg'.repair = FALSE),
         Locality', CopyInv', GateInv'
  PROVE  DeliveryInv'
<1>1. /\ TypeOK /\ AuthorityInv /\ SessionInv /\ Blank /\ OneStartup /\ OneApply /\ Offered /\ Unknowing
      /\ HeldInv /\ RepairInv /\ NotSweptUnderSession
  BY DEF DeliveryInv, LauncherInv, StagedInv
<1>2. TypeOK'
  <2>1. Authorities /\ Memory /\ Disk
    BY <1>1, TypeParts
  <2>2. Authorities' /\ Memory' /\ Disk'
    BY <2>1, AuthorityStays DEF Memory, Disk, root, store, ui, env
  <2> QED BY <2>2, TypePartsNext
<1>3. AuthorityInv'
  BY <1>1, AuthorityStays
<1>4. SessionInv'
  BY <1>1 DEF SessionInv, Holds, authority, store, ui
<1>5. tk \in Windows /\ Blank'
  BY <1>1 DEF Blank
<1>6. OneStartup'
  <2>1. (started = ~Checking)'
    BY <1>1, <1>5 DEF OneStartup, ui
  <2> QED BY <1>1, <2>1 DEF OneStartup
<1>7. \A r \in Releases : /\ Repaired(r)' => Repaired(r)
                          /\ Held(r)' => Held(r) \/ r = arg'.pending
  BY WaitsSame DEF Repaired, Held, ui
<1>8. Unknowing'
  <2>1. CASE NoStranger
    BY <2>1 DEF NoStranger, Unknowing
  <2>2. CASE ~NoStranger
    BY <1>1, <1>7, <2>2, ReleaseFacts DEF NoStranger, Unknowing
  <2> QED BY <2>1, <2>2
<1>9. HeldInv'
  <2>1. ASSUME NEW r \in Releases, Held(r)' PROVE Fits(r)
    <3>1. r = arg'.pending => r = arg.pending \/ Fits(r)
      OBVIOUS
    <3>2. r = arg.pending => Held(r)
      BY ReleaseFacts DEF Held
    <3> QED BY <1>1, <1>7, <2>1, <3>1, <3>2 DEF HeldInv
  <2>2. \A r : Fits(r)' <=> Fits(r)
    BY SameDisk DEF env
  <2> QED BY <2>1, <2>2 DEF HeldInv
<1>10. RepairInv' /\ NotSweptUnderSession'
  <2>1. (\A r : Due(r)' <=> Due(r)) /\ NotSweptUnderSession'
    BY <1>1, SameDisk DEF env
  <2> QED BY <1>1, <1>7, <2>1 DEF RepairInv
<1>11. Offered' /\ OneApply'
  BY <1>1, OneApplyStays DEF Offered, Applying, ui
<1> QED BY <1>2, <1>3, <1>4, <1>5, <1>6, <1>8, <1>9, <1>10, <1>11
        DEF DeliveryInv, LauncherInv, StagedInv

\* The startup task ends, and publishes what it has.
Starting == \/ at \in {"resolve", "judge", "admit", "stage", "broken"}
            \/ at \in CopySteps /\ ~arg.repair

LEMMA FinishKeeps ==
  ASSUME DeliveryInv, Starting,
         UNCHANGED <<root, report, authority, session, store, tk, ui, env>>,
         NEW pending \in Optional(Releases), NEW disp \in Dispositions,
         Finish(pending, disp), found' \in Optional(Releases),
         pending \in Releases => pending = arg.pending \/ Fits(pending),
         NoStranger \/ (found' = None /\ pending = None),
         tk = "ui" /\ Waiting => ~Open(pending, disp)
  PROVE  DeliveryInv'
<1>1. /\ at' = "publish" /\ arg'.pending = pending /\ arg'.disp = disp
      /\ arg'.release = None /\ arg'.repair = FALSE /\ arg' \in Locals
      /\ queue' = queue
  BY DEF Finish, Step, NoLocals, Locals, Optional
<1>2. GateInv /\ CopyInv
  BY DEF DeliveryInv, StagedInv
<1>3. at \notin {"idle", "apply", "handoff"} /\ Checking /\ Checking'
  BY <1>1 DEF Starting, CopySteps, Checking
<1>4. Locality'
  BY <1>1 DEF Locality, CopySteps
<1>5. CopyInv'
  BY <1>1, <1>2 DEF CopyInv, CopySteps, store
<1>6. GateInv'
  <2>1. Waiting' <=> Waiting
    BY SameDisk DEF env
  <2>2. tk = "ui" /\ Waiting /\ started => ~Open(snap.pending, snap.disp)
    BY <1>2 DEF GateInv
  <2>3. tk' = "ui" /\ Waiting' => ~Open(arg'.pending, arg'.disp)
    BY <1>1, <2>1
  <2>4. tk' = "ui" /\ Waiting' /\ started' => ~Open(snap'.pending, snap'.disp)
    BY <2>1, <2>2 DEF ui
  <2> QED BY <1>1, <2>3, <2>4 DEF GateInv
<1> QED BY <1>1, <1>3, <1>4, <1>5, <1>6, WorkerMoves DEF Phases

LEMMA WorkerKnows ==
  ASSUME DeliveryInv
  PROVE  /\ arg \in Locals /\ found \in Optional(Releases)
         /\ arg.pending \in Optional(Releases) /\ arg.disp \in Dispositions
         /\ arg.release \in Optional(Releases) /\ arg.repair \in BOOLEAN
         /\ tk = "ui" /\ Waiting /\ at \in {"resolve", "judge"} => arg.pending # None
         /\ at \in {"admit", "stage"} \cup CopySteps /\ ~arg.repair => arg.disp = "mandatory"
BY DEF DeliveryInv, TypeOK, Locals, GateInv, LauncherInv, Locality

LEMMA CheckEnds ==
  ASSUME DeliveryInv, NothingServed \/ CheckFails
  PROVE  DeliveryInv'
<1>1. at \in {"resolve", "judge"} /\ NoStranger
  BY Known DEF NothingServed, CheckFails
<1>2. PICK disp \in Dispositions :
        /\ Finish(arg.pending, disp)
        /\ UNCHANGED <<root, checks, authority, session, store, tk, ui, env>>
  BY DEF NothingServed, CheckFails, Kept, Dispositions
<1>3. tk = "ui" /\ Waiting => ~Open(arg.pending, disp)
  BY <1>1, WorkerKnows DEF Open
<1> QED BY <1>1, <1>2, <1>3, WorkerKnows, FinishKeeps DEF Starting, checks

LEMMA FetchKeeps ==
  ASSUME DeliveryInv, Fetch
  PROVE  DeliveryInv'
<1>1. /\ at = "resolve" /\ at' = "judge" /\ queue' = queue
      /\ arg' = [arg EXCEPT !.release = newest]
      /\ UNCHANGED <<root, checks, authority, session, store, tk, ui, env>>
  BY DEF Fetch, Step
<1>2. TypeOK /\ Locality /\ CopyInv /\ GateInv /\ newest \in Releases
  BY DEF DeliveryInv, LauncherInv, StagedInv, TypeOK
<1>3. /\ arg' \in Locals /\ arg'.pending = arg.pending /\ arg'.disp = arg.disp
      /\ arg'.release = newest /\ arg'.repair = arg.repair
  BY <1>1, <1>2, WorkerKnows DEF Locals, Optional
<1>4. NoStranger /\ ~arg.repair
  BY <1>1, <1>2, Known DEF Locality, CopySteps
<1>5. Locality'
  BY <1>1, <1>2, <1>3 DEF Locality, CopySteps
<1>6. CopyInv'
  BY <1>1, <1>2 DEF CopyInv, CopySteps, store
<1>7. GateInv'
  <2>1. Waiting' <=> Waiting
    BY <1>1, SameDisk DEF env
  <2> QED BY <1>1, <1>2, <1>3, <2>1 DEF GateInv, ui
<1>8. Checking /\ Checking'
  BY <1>1 DEF Checking
<1> QED BY <1>1, <1>2, <1>3, <1>4, <1>5, <1>6, <1>7, <1>8, WorkerKnows, WorkerMoves
        DEF Phases, checks

LEMMA DispositionIs ==
  ASSUME NEW r \in Releases
  PROVE  /\ Disposition(r) \in Dispositions
         /\ Installable(r) /\ ShouldAdmit(r) => Disposition(r) = "mandatory"
<1>1. Disposition(r) \in Dispositions
  BY DEF Disposition, Dispositions
<1>2. ASSUME Installable(r), ShouldAdmit(r) PROVE Disposition(r) = "mandatory"
  <2>1. Disposition(r) # "current"
    BY <1>2 DEF ShouldAdmit
  <2>2. CASE r < highwater
    BY <1>2, <2>2 DEF ShouldAdmit, Disposition, Verdict
  <2>3. CASE ~(r < highwater)
    BY <1>2, <2>1, <2>3 DEF Disposition
  <2> QED BY <2>2, <2>3
<1> QED BY <1>1, <1>2

LEMMA ResolveKeeps ==
  ASSUME DeliveryInv, Resolve
  PROVE  DeliveryInv'
<1>1. /\ at = "judge" /\ Readable /\ found' = arg.release
      /\ UNCHANGED <<root, report, authority, session, store, tk, ui, env>>
  BY DEF Resolve
<1>2. /\ TypeOK /\ Locality /\ CopyInv /\ GateInv
      /\ arg.release \in Releases
  BY <1>1 DEF DeliveryInv, LauncherInv, StagedInv, Locality
<1>3. NoStranger /\ found' \in Optional(Releases) /\ ~arg.repair
  BY <1>1, <1>2, Known DEF Optional, Locality, CopySteps
<1>4. CASE Installable(arg.release) /\ ShouldAdmit(arg.release)
  <2>1. at' = "admit" /\ arg' = [arg EXCEPT !.disp = "mandatory"] /\ queue' = queue
    BY <1>2, <1>4, DispositionIs DEF Resolve, Step
  <2>2. /\ arg' \in Locals /\ arg'.pending = arg.pending /\ arg'.disp = "mandatory"
        /\ arg'.release = arg.release /\ arg'.repair = arg.repair
    BY <2>1, WorkerKnows DEF Locals, Dispositions
  <2>3. Locality'
    BY <1>2, <1>3, <1>4, <2>1, <2>2 DEF Locality, CopySteps, Installable
  <2>4. CopyInv'
    BY <1>1, <1>2, <2>1 DEF CopyInv, CopySteps, store
  <2>5. GateInv'
    <3>1. Waiting' <=> Waiting
      BY <1>1, SameDisk DEF env
    <3> QED BY <1>1, <1>2, <2>1, <3>1 DEF GateInv, ui
  <2>6. Checking /\ Checking'
    BY <1>1, <2>1 DEF Checking
  <2> QED BY <1>1, <1>3, <2>1, <2>2, <2>3, <2>4, <2>5, <2>6, WorkerMoves DEF Phases
<1>5. CASE ~(Installable(arg.release) /\ ShouldAdmit(arg.release))
  <2>1. Finish(arg.pending, Disposition(arg.release))
    BY <1>5 DEF Resolve
  <2>2. tk = "ui" /\ Waiting => ~Open(arg.pending, Disposition(arg.release))
    BY <1>1, WorkerKnows DEF Open
  <2>3. Disposition(arg.release) \in Dispositions
    BY <1>2, DispositionIs
  <2> QED BY <1>1, <1>3, <2>1, <2>2, <2>3, WorkerKnows, FinishKeeps DEF Starting
<1> QED BY <1>4, <1>5

LEMMA StageEnds ==
  ASSUME DeliveryInv, AdmitRefused \/ StageRefused \/ StageExisting
  PROVE  DeliveryInv'
<1>1. /\ at \in {"admit", "stage"} /\ ~arg.repair /\ NoStranger
      /\ arg.disp = "mandatory"
      /\ UNCHANGED <<root, checks, authority, session, store, tk, ui, env>>
  BY Known, WorkerKnows
     DEF AdmitRefused, StageRefused, StageExisting, DeliveryInv, LauncherInv, Locality, CopySteps
<1>2. \A pending : ~Open(pending, arg.disp)
  BY <1>1 DEF Open
<1>3. CASE AdmitRefused \/ StageRefused
  BY <1>1, <1>2, <1>3, WorkerKnows, FinishKeeps DEF AdmitRefused, StageRefused, Starting, checks
<1>4. CASE StageExisting
  <2>1. Finish(arg.release, arg.disp) /\ Loaded = arg.release /\ at = "stage"
    BY <1>4 DEF StageExisting
  <2>2. arg.release \in Releases \ Reinstall
    BY <2>1 DEF DeliveryInv, LauncherInv, Locality
  <2>3. Fits(arg.release)
    <3> HIDE DEF Loaded
    <3>1. TypeOK
      BY DEF DeliveryInv
    <3>2. /\ Loaded # None /\ observed = Loaded /\ ptr = Loaded
          /\ gens[Loaded] = "whole" /\ Loaded > committed
      BY <2>1, <2>2, <3>1, LoadedIs, ReleaseFacts
    <3> QED BY <2>1, <2>2, <3>1, <3>2, ReleaseFacts DEF Fits, TypeOK
  <2> QED BY <1>1, <1>2, <2>1, <2>2, <2>3, WorkerKnows, FinishKeeps
          DEF Starting, checks, Optional
<1> QED BY <1>3, <1>4

LEMMA BrokenKeeps ==
  ASSUME DeliveryInv, Broken
  PROVE  DeliveryInv'
<1> DEFINE disp == IF Loaded # None THEN "mandatory" ELSE "none"
<1>1. /\ at = "broken" /\ Finish(Loaded, disp)
      /\ UNCHANGED <<root, checks, authority, session, store, tk, ui, env>>
  BY DEF Broken
<1>2. TypeOK /\ CopyInv /\ Unknowing
  BY DEF DeliveryInv, StagedInv, LauncherInv
<1>3. Loaded \in Releases => Fits(Loaded)
  BY <1>2, LoadedIs, ReleaseFacts DEF Fits, CopyInv
<1>4. disp \in Dispositions /\ (Waiting => ~Open(Loaded, disp))
  BY WaitingLoads DEF Dispositions, Open
<1>5. Loaded \in Optional(Releases) /\ (Loaded # None => session = None)
  BY <1>2, LoadedIs
<1>6. NoStranger \/ (found' = None /\ Loaded = None)
  BY <1>1, <1>2, <1>5 DEF NoStranger, Unknowing, checks
<1> HIDE DEF disp, Loaded
<1> QED BY <1>1, <1>3, <1>4, <1>5, <1>6, WorkerKnows, FinishKeeps DEF Starting, checks

LEMMA StageUnreadableKeeps ==
  ASSUME DeliveryInv, StageUnreadable
  PROVE  DeliveryInv'
<1>1. /\ at = "stage" /\ at' = "broken" /\ arg' = arg /\ queue' = queue
      /\ UNCHANGED <<root, checks, authority, session, store, tk, ui, env>>
  BY DEF StageUnreadable, Step
<1>2. Locality /\ CopyInv /\ GateInv
  BY DEF DeliveryInv, LauncherInv, StagedInv
<1>3. NoStranger /\ ~arg.repair
  BY <1>1, <1>2, Known DEF Locality, CopySteps
<1>4. Locality'
  BY <1>1, <1>3 DEF Locality, CopySteps
<1>5. CopyInv'
  BY <1>1, <1>2 DEF CopyInv, CopySteps, store
<1>6. GateInv'
  <2>1. Waiting' <=> Waiting
    BY <1>1, SameDisk DEF env
  <2> QED BY <1>1, <1>2, <2>1 DEF GateInv, ui
<1>7. Checking /\ Checking'
  BY <1>1 DEF Checking
<1> QED BY <1>1, <1>3, <1>4, <1>5, <1>6, <1>7, WorkerKnows, WorkerMoves
        DEF Phases, checks

\* A new copy starts only if what is there cannot be loaded.
LEMMA StageMissingKeeps ==
  ASSUME DeliveryInv, StageMissing
  PROVE  DeliveryInv'
<1>1. /\ at = "stage" /\ at' = "download" /\ arg' = arg /\ queue' = queue
      /\ Readable /\ Staging(arg.release) /\ Loaded # arg.release
      /\ UNCHANGED <<root, checks, authority, session, store, tk, ui, env>>
  BY DEF StageMissing, Step
<1>2. TypeOK /\ Locality /\ CopyInv /\ GateInv
  BY DEF DeliveryInv, LauncherInv, StagedInv
<1>3. NoStranger /\ ~arg.repair /\ arg.disp = "mandatory" /\ arg.pending = arg.pending
      /\ arg.release \in Releases \ Reinstall
  BY <1>1, <1>2, Known DEF Locality, CopySteps
<1>4. Locality'
  BY <1>1, <1>3 DEF Locality, CopySteps
<1>5. CopyInv'
  <2>1. committed < arg.release /\ arg.release <= observed
    BY <1>1, <1>2, <1>3, ReleaseFacts DEF Staging, TypeOK
  <2>2. ptr # arg.release \/ gens[arg.release] # "whole"
    <3>1. SUFFICES ASSUME ptr = arg.release, gens[arg.release] = "whole" PROVE FALSE
      OBVIOUS
    <3>2. Loadable(ptr) /\ ptr # None
      BY <1>1, <1>3, <3>1, ReleaseFacts DEF Loadable, Staging
    <3> QED BY <1>1, <3>1, <3>2 DEF Loaded
  <2> QED BY <1>1, <1>2, <2>1, <2>2 DEF CopyInv, CopySteps, authority, store
<1>6. GateInv'
  <2>1. Waiting' <=> Waiting
    BY <1>1, SameDisk DEF env
  <2> QED BY <1>1, <1>2, <2>1 DEF GateInv, ui
<1>7. Checking /\ Checking'
  BY <1>1, <1>3 DEF Checking, CopySteps
<1> QED BY <1>1, <1>3, <1>4, <1>5, <1>6, <1>7, WorkerKnows, WorkerMoves
        DEF Phases, checks

LEMMA CopyGivesUp ==
  ASSUME DeliveryInv, at \in CopySteps, TaskFails,
         UNCHANGED <<root, checks, authority, session, store, tk, ui, env>>
  PROVE  DeliveryInv'
<1>1. TypeOK /\ Locality /\ CopyInv /\ GateInv
  BY DEF DeliveryInv, LauncherInv, StagedInv
<1>2. NoStranger
  BY Known DEF CopySteps
<1>3. CASE arg.repair
  <2>1. at' = "idle" /\ arg' = NoLocals /\ queue' = queue
    BY <1>3 DEF TaskFails, Step
  <2>2. arg' \in Locals /\ arg'.repair = FALSE /\ arg'.pending = None
    BY <2>1 DEF Locals, NoLocals, Optional, Dispositions
  <2>3. Locality' /\ CopyInv'
    BY <1>1, <2>1, <2>2 DEF Locality, CopyInv, CopySteps, store
  <2>4. GateInv'
    <3>1. Waiting' <=> Waiting
      BY SameDisk DEF env
    <3> QED BY <1>1, <2>1, <3>1 DEF GateInv, ui
  <2>5. Checking' <=> Checking
    BY <1>3, <2>1, WaitsSame DEF Checking, CopySteps
  <2>6. at \notin {"idle", "apply", "handoff"}
    BY DEF CopySteps
  <2> QED BY <1>2, <2>1, <2>2, <2>3, <2>4, <2>5, <2>6, WorkerKnows, ReleaseFacts, WorkerMoves
          DEF Phases, checks
<1>4. CASE ~arg.repair
  <2>1. Finish(arg.pending, arg.disp) /\ arg.disp = "mandatory"
    BY <1>4, WorkerKnows DEF TaskFails
  <2> QED BY <1>2, <1>4, <2>1, WorkerKnows, FinishKeeps DEF Starting, Open, checks
<1> QED BY <1>3, <1>4

LEMMA DownloadKeeps ==
  ASSUME DeliveryInv, DownloadFails \/ PlaceFails \/ Download
  PROVE  DeliveryInv'
<1>1. /\ at \in CopySteps
      /\ UNCHANGED <<root, checks, authority, session, store, tk, ui, env>>
  BY DEF DownloadFails, PlaceFails, Download, CopySteps
<1>2. CASE TaskFails
  BY <1>1, <1>2, CopyGivesUp
<1>3. CASE ~TaskFails
  <2>1. /\ at = "download" /\ at' = "remove" /\ arg' = arg /\ queue' = queue
        /\ ~PointsAbove(arg.release)
    BY <1>3 DEF DownloadFails, PlaceFails, Download, Step
  <2>2. Locality /\ CopyInv /\ GateInv
    BY DEF DeliveryInv, LauncherInv, StagedInv
  <2>3. NoStranger
    BY <2>1, Known
  <2>4. Locality'
    BY <2>1, <2>2 DEF Locality, CopySteps
  <2>5. CopyInv'
    <3>1. PointsAbove(arg.release)' <=> PointsAbove(arg.release)
      BY <1>1, <2>1 DEF PointsAbove, store
    <3> QED BY <1>1, <2>1, <2>2, <3>1 DEF CopyInv, CopySteps, authority, store
  <2>6. GateInv'
    <3>1. Waiting' <=> Waiting
      BY <1>1, SameDisk DEF env
    <3> QED BY <1>1, <2>1, <2>2, <3>1 DEF GateInv, ui
  <2>7. Checking' <=> Checking
    BY <2>1, WaitsSame DEF Checking, CopySteps
  <2> QED BY <1>1, <2>1, <2>3, <2>4, <2>5, <2>6, <2>7, WorkerKnows, WorkerMoves
          DEF Phases, checks
<1> QED BY <1>2, <1>3

LEMMA RepairFailsKeeps ==
  ASSUME DeliveryInv, RepairFails
  PROVE  DeliveryInv'
<1>1. /\ at = "repaired" /\ at' = "idle" /\ arg' = NoLocals /\ queue' = queue
      /\ UNCHANGED <<root, checks, authority, session, store, tk, ui, env>>
  BY DEF RepairFails, Step
<1>2. Locality /\ CopyInv /\ GateInv
  BY DEF DeliveryInv, LauncherInv, StagedInv
<1>3. arg' \in Locals /\ arg'.repair = FALSE /\ arg'.pending = None
  BY <1>1 DEF Locals, NoLocals, Optional, Dispositions
<1>4. Locality' /\ CopyInv'
  BY <1>1, <1>2, <1>3 DEF Locality, CopyInv, CopySteps, store
<1>5. GateInv'
  <2>1. Waiting' <=> Waiting
    BY <1>1, SameDisk DEF env
  <2> QED BY <1>1, <1>2, <2>1 DEF GateInv, ui
<1>6. Checking' <=> Checking
  BY <1>1, WaitsSame DEF Checking, CopySteps
<1>7. NoStranger
  BY <1>1, Known
<1> QED BY <1>1, <1>3, <1>4, <1>5, <1>6, <1>7, WorkerKnows, ReleaseFacts, WorkerMoves
        DEF Phases, checks

(***************************************************************************)
(* Steps that leave the launcher's memory alone.                           *)
(***************************************************************************)
LEMMA SameMemory ==
  ASSUME UNCHANGED <<tk, worker, checks, ui>>
  PROVE  /\ \A r : (Held(r)' <=> Held(r)) /\ (Repaired(r)' <=> Repaired(r))
         /\ Checking' <=> Checking
         /\ Memory => Memory'
         /\ Blank => Blank'
         /\ Locality => Locality'
         /\ OneStartup => OneStartup'
         /\ Offered => Offered'
         /\ OneApply => OneApply'
<1>1. \A kind, r : Waits(kind, r)' <=> Waits(kind, r)
  BY WaitsSame DEF worker
<1>2. Checking' <=> Checking
  BY <1>1 DEF Checking, CopySteps, worker
<1>3. OneStartup => OneStartup'
  <2>1. OneStartup => (started = ~Checking \/ tk \notin Windows)'
    BY <1>2 DEF OneStartup, ui
  <2> QED BY <2>1 DEF OneStartup, worker
<1>4. OneApply => OneApply'
  BY OneApplyStays DEF worker, ui
<1> QED BY <1>1, <1>2, <1>3, <1>4 DEF Held, Repaired, Memory, Blank, Locality, Offered, worker, checks, ui

LEMMA NothingDisturbed ==
  ASSUME DeliveryInv,
         UNCHANGED <<root, checks, authority, session, store, tk, worker, ui, crashes, damage>>,
         newest' \in Releases, game' \in BOOLEAN
  PROVE  DeliveryInv'
<1>1. /\ TypeOK /\ AuthorityInv /\ SessionInv /\ Blank /\ Locality /\ OneStartup
      /\ OneApply /\ Offered /\ Unknowing
      /\ HeldInv /\ RepairInv /\ CopyInv /\ NotSweptUnderSession /\ GateInv
  BY DEF DeliveryInv, LauncherInv, StagedInv
<1>2. TypeOK'
  <2>1. Authorities /\ Memory /\ Disk
    BY <1>1, TypeParts
  <2>2. Authorities' /\ Memory' /\ Disk'
    BY <2>1, AuthorityStays, SameMemory DEF Disk, root, store
  <2> QED BY <2>2, TypePartsNext
<1>3. AuthorityInv' /\ SessionInv'
  BY <1>1, AuthorityStays DEF SessionInv, Holds, authority, store, worker, ui
<1>4. Blank' /\ Locality' /\ OneStartup' /\ OneApply' /\ Offered' /\ Unknowing'
  BY <1>1, SameMemory DEF Unknowing, checks, worker
<1>5. HeldInv' /\ RepairInv' /\ NotSweptUnderSession'
  BY <1>1, SameMemory, SameDisk DEF HeldInv, RepairInv
<1>6. CopyInv'
  BY <1>1, SameDisk DEF CopyInv, authority, store, worker
<1>7. GateInv'
  BY <1>1, SameDisk DEF GateInv, worker, ui
<1> QED BY <1>2, <1>3, <1>4, <1>5, <1>6, <1>7 DEF DeliveryInv, LauncherInv, StagedInv

LEMMA OutsideKeeps ==
  ASSUME DeliveryInv, ReleasePublished \/ GameChanges \/ UNCHANGED vars
  PROVE  DeliveryInv'
<1>1. newest \in Releases /\ game \in BOOLEAN
  BY DEF DeliveryInv, TypeOK
<1> QED BY <1>1, NothingDisturbed DEF ReleasePublished, GameChanges, vars, env

LEMMA DamageKeeps ==
  ASSUME DeliveryInv, GenerationDamaged
  PROVE  DeliveryInv'
<1>1. /\ ptr # None /\ gens[ptr] = "whole" /\ damage < MaxDamage
      /\ gens' = [gens EXCEPT ![ptr] = "damaged"] /\ damage' = damage + 1
      /\ UNCHANGED <<root, checks, authority, session, ptr, tk, worker, ui, newest, game, crashes>>
  BY DEF GenerationDamaged
<1>2. /\ TypeOK /\ AuthorityInv /\ SessionInv /\ Blank /\ Locality /\ OneStartup
      /\ OneApply /\ Offered /\ Unknowing
      /\ HeldInv /\ RepairInv /\ CopyInv /\ NotSweptUnderSession /\ GateInv
  BY DEF DeliveryInv, LauncherInv, StagedInv
<1>3. damage' \in 0..MaxDamage /\ damage' > 0 /\ ptr \in Releases
  BY <1>1, <1>2, DeliveryAssumption DEF TypeOK, Optional
<1>4. gens' \in [Releases -> {"absent", "whole", "damaged"}] /\ gens'[ptr] = "damaged"
  BY <1>1, <1>2, <1>3 DEF TypeOK
<1>5. TypeOK'
  <2>1. Authorities /\ Memory /\ Disk
    BY <1>2, TypeParts
  <2>2. Authorities' /\ Memory' /\ Disk'
    BY <1>1, <1>3, <1>4, <2>1, AuthorityStays, SameMemory DEF Disk, root
  <2> QED BY <2>2, TypePartsNext
<1>6. AuthorityInv' /\ SessionInv'
  BY <1>1, <1>2, AuthorityStays DEF SessionInv, Holds, authority, worker, ui
<1>7. Blank' /\ Locality' /\ OneStartup' /\ OneApply' /\ Offered' /\ Unknowing'
  BY <1>1, <1>2, SameMemory DEF Unknowing, checks, worker
<1>8. HeldInv' /\ RepairInv' /\ NotSweptUnderSession'
  <2>1. \A r \in Releases : (Fits(r) => Fits(r)') /\ (Due(r) => Due(r)')
    BY <1>1, <1>3 DEF Fits, Due, Blocked, Holds, authority
  <2> QED BY <1>1, <1>2, <1>3, <2>1, SameMemory DEF HeldInv, RepairInv, NotSweptUnderSession
<1>9. CopyInv'
  BY <1>1, <1>2, <1>3, <1>4 DEF CopyInv, PointsAbove, TypeOK, authority, worker
<1>10. GateInv'
  <2>1. ~Waiting'
    BY <1>1, <1>3, <1>4, ReleaseFacts DEF Waiting, Loadable
  <2> QED BY <2>1 DEF GateInv
<1> QED BY <1>5, <1>6, <1>7, <1>8, <1>9, <1>10 DEF DeliveryInv, LauncherInv, StagedInv

\* The helper that goes on by itself ends: it was killed, or has the verdict.
LEMMA StrangerEnds ==
  ASSUME DeliveryInv, Holds("nobody", "active"), session' = None,
         UNCHANGED <<root, checks, store, tk, worker, ui, newest, game, damage>>,
         crashes' \in 0..MaxCrashes, Authorities', AuthorityInv', ~Waiting'
  PROVE  DeliveryInv'
<1>1. /\ TypeOK /\ SessionInv /\ Blank /\ Locality /\ OneStartup /\ OneApply /\ Offered
      /\ Unknowing /\ CopyInv
  BY DEF DeliveryInv, LauncherInv, StagedInv
<1>2. TypeOK'
  <2>1. Memory /\ Disk
    BY <1>1, TypeParts
  <2>2. Memory' /\ Disk'
    BY <2>1, SameMemory DEF Disk, root, store, Optional
  <2> QED BY <2>2, TypePartsNext
<1>3. /\ at \in {"idle", "broken", "publish"} /\ applying # "prepared"
      /\ \A r \in Releases : ~Held(r) /\ ~Repaired(r)
  BY <1>1 DEF Unknowing, SessionInv, Holds
<1>4. SessionInv'
  BY <1>3 DEF SessionInv, worker, ui
<1>5. Blank' /\ Locality' /\ OneStartup' /\ OneApply' /\ Offered' /\ Unknowing'
  BY <1>1, SameMemory DEF Unknowing
<1>6. HeldInv' /\ RepairInv' /\ NotSweptUnderSession'
  BY <1>3, SameMemory DEF HeldInv, RepairInv, NotSweptUnderSession
<1>7. CopyInv'
  BY <1>1, <1>3 DEF CopyInv, CopySteps, store, worker
<1>8. GateInv'
  BY DEF GateInv
<1> QED BY <1>2, <1>4, <1>5, <1>6, <1>7, <1>8 DEF DeliveryInv, LauncherInv, StagedInv

LEMMA HelperKeeps ==
  ASSUME DeliveryInv, Activate \/ HelperKilled
  PROVE  DeliveryInv'
<1>1. TypeOK /\ Authorities /\ AuthorityInv /\ SessionInv
  BY TypeParts DEF DeliveryInv
<1>2. CASE Activate
  <2>1. /\ Holds("nobody", "active") /\ session' = None
        /\ UNCHANGED <<root, checks, store, tk, worker, ui, newest, game, damage, crashes>>
        /\ Authority!Accept \/ Authority!Reject
    BY <1>2 DEF Activate, env
  <2>2. Authorities' /\ AuthorityInv' /\ ~Waiting'
    <3>1. CASE Authority!Accept
      BY <1>1, <3>1, Accepted, ReleaseFacts DEF Waiting, Loadable, Authorities
    <3>2. CASE Authority!Reject
      BY <1>1, <3>2, Rejected DEF Waiting, Loadable
    <3> QED BY <2>1, <3>1, <3>2
  <2>3. crashes' \in 0..MaxCrashes
    BY <1>1, <2>1 DEF TypeOK
  <2> QED BY <2>1, <2>2, <2>3, StrangerEnds
<1>3. CASE HelperKilled
  <2>1. /\ Holds("nobody", "active") /\ session' = None
        /\ crashes < MaxCrashes /\ crashes' = crashes + 1
        /\ UNCHANGED <<root, checks, authority, store, tk, worker, ui, newest, game, damage>>
    BY <1>3 DEF HelperKilled
  <2>2. Authorities' /\ AuthorityInv' /\ ~Waiting'
    <3>1. trial # None
      BY <1>1, <2>1, TypeParts, SessionFields, ReleaseFacts DEF SessionInv, Holds
    <3>2. ~Waiting'
      BY <2>1, <3>1 DEF Waiting, authority
    <3> QED BY <1>1, <2>1, <3>2, AuthorityStays
  <2>3. crashes' \in 0..MaxCrashes
    BY <1>1, <2>1, DeliveryAssumption DEF TypeOK
  <2> QED BY <2>1, <2>2, <2>3, StrangerEnds
<1> QED BY <1>2, <1>3

(***************************************************************************)
(* A copy at work on the store.                                            *)
(***************************************************************************)
LEMMA CopyFacts ==
  ASSUME DeliveryInv, at \in CopySteps
  PROVE  /\ tk \in Windows /\ NoStranger
         /\ arg.release \in Releases /\ arg.release \notin Reinstall
         /\ arg.repair => Due(arg.release) /\ arg.pending = None
         /\ ~arg.repair => /\ committed < arg.release /\ arg.release <= observed
                           /\ arg.disp = "mandatory" /\ started = FALSE
         /\ Checking <=> ~arg.repair
<1>1. /\ Blank /\ Locality /\ OneStartup /\ CopyInv /\ RepairInv /\ TypeOK
      /\ at \notin {"idle", "broken", "publish"}
  BY DEF DeliveryInv, LauncherInv, StagedInv, CopySteps
<1>2. tk \in Windows /\ NoStranger
  BY <1>1, Known DEF Blank
<1>3. arg.release \in Releases /\ arg.release \notin Reinstall
  BY <1>1 DEF Locality
<1>4. arg.repair => Due(arg.release) /\ arg.pending = None
  BY <1>1, <1>3, ReleaseFacts DEF RepairInv, Repaired, Locality
<1>5. Checking <=> ~arg.repair
  <2>1. ~Waits("startup", None)
    <3>1. SUFFICES ASSUME NEW i \in 1..Len(queue),
                          queue[i] = [kind |-> "startup", release |-> None]
                   PROVE  FALSE
      BY DEF Waits
    <3>2. queue[i].kind = "startup"
      BY <3>1
    <3> QED BY <1>1, <3>2 DEF OneStartup
  <2> QED BY <2>1 DEF Checking, CopySteps
<1>6. ~arg.repair => started = FALSE
  BY <1>1, <1>2, <1>5 DEF OneStartup
<1> QED BY <1>1, <1>2, <1>3, <1>4, <1>5, <1>6 DEF Locality, CopyInv

\* What the helper would take is not what a copy replaces.
LEMMA Spared ==
  ASSUME DeliveryInv, at \in {"remove", "place", "point", "sweep"},
         NEW x \in Releases, Fits(x), damage = 0, ~Blocked, x = observed, failed # x
  PROVE  /\ ptr = x /\ gens[x] = "whole"
         /\ at \in {"remove", "place"} => arg.release # x
         /\ at \in {"point", "sweep"} => arg.release = x
<1>1. /\ arg.release \in Releases
      /\ arg.repair => Due(arg.release)
      /\ ~arg.repair => committed < arg.release /\ arg.release <= observed
  BY CopyFacts DEF CopySteps
<1>2. CopyInv /\ committed \in Nat /\ x \in Nat /\ arg.release \in Nat
  <2>1. CopyInv /\ committed \in Releases
    BY DEF DeliveryInv, StagedInv, TypeOK
  <2> QED BY <1>1, <2>1, ReleaseFacts
<1>3. ptr = x /\ gens[x] = "whole" /\ committed < x /\ x # None
  BY ReleaseFacts DEF Fits
<1>4. CASE at = "sweep"
  BY <1>2, <1>3, <1>4 DEF CopyInv
<1>5. CASE at \in {"remove", "place", "point"}
  <2>1. ~(x > arg.release)
    BY <1>2, <1>3, <1>5 DEF CopyInv, PointsAbove
  <2>2. ~arg.repair
    <3>1. SUFFICES ASSUME arg.repair PROVE FALSE
      OBVIOUS
    <3>2. arg.release <= committed
      BY <1>1, <3>1 DEF Due
    <3> QED BY <1>2, <1>3, <2>1, <3>2
  <2>3. arg.release <= x
    BY <1>1, <2>2
  <2>4. arg.release = x
    BY <1>2, <2>1, <2>3
  <2> QED BY <1>2, <1>3, <1>5, <2>2, <2>4 DEF CopyInv, CopySteps
<1> QED BY <1>3, <1>4, <1>5

LEMMA HeldFits ==
  ASSUME DeliveryInv, NEW x \in Releases, Held(x)
  PROVE  Fits(x)
BY DEF DeliveryInv, StagedInv, HeldInv

LEMMA ReadyIsClosing ==
  ASSUME DeliveryInv, at \in CopySteps, session # None, session.stage = "ready"
  PROVE  /\ session.release \in Releases /\ session.release = observed
         /\ Fits(session.release) /\ ~Blocked
<1>1. /\ TypeOK /\ SessionInv /\ AuthorityInv /\ Disk
      /\ at # "handoff" /\ tk \in Windows
  BY CopyFacts, TypeParts DEF DeliveryInv, CopySteps
<1>2. session.by = "close" /\ session.release \in Releases
  BY <1>1, SessionFields DEF SessionInv, Windows
<1>3. session.release = win /\ trial = session.release
  BY <1>1, <1>2 DEF SessionInv
<1>4. Held(win) /\ win \in Releases
  BY <1>2, <1>3, ReleaseFacts DEF Held
<1>5. ~Blocked
  BY <1>2 DEF Blocked, Holds
<1> QED BY <1>1, <1>2, <1>3, <1>4, <1>5, HeldFits, ReleaseFacts DEF AuthorityInv

\* Nor is it what a helper that was begun on close is about to copy.
LEMMA NotReplaced ==
  ASSUME DeliveryInv, at \in {"remove", "place"}, damage = 0,
         session # None, session.stage = "ready"
  PROVE  session.release # arg.release
<1> DEFINE x == session.release
<1>1. x \in Releases /\ x = observed /\ Fits(x) /\ ~Blocked /\ gens[x] = "whole"
  BY ReadyIsClosing DEF CopySteps, DeliveryInv, StagedInv, NotSweptUnderSession
<1>2. /\ arg.release \in Releases
      /\ arg.repair => Due(arg.release)
  BY CopyFacts DEF CopySteps
<1>3. CopyInv /\ committed \in Nat /\ x \in Nat /\ ptr \in Optional(Releases)
  BY <1>1, ReleaseFacts DEF DeliveryInv, StagedInv, TypeOK
<1>4. SUFFICES ASSUME x = arg.release PROVE FALSE
  OBVIOUS
<1> HIDE DEF x
<1>5. committed < x /\ ptr # None /\ x <= ptr
  BY <1>1 DEF Fits
<1>6. ~arg.repair
  BY <1>1, <1>2, <1>3, <1>4, <1>5 DEF Due
<1>7. ~(ptr > x)
  BY <1>3, <1>4, <1>5 DEF CopyInv, PointsAbove
<1>8. ptr = x
  BY <1>3, <1>5, <1>7, ReleaseFacts DEF Optional
<1> QED BY <1>1, <1>3, <1>4, <1>6, <1>8 DEF CopyInv, CopySteps

LEMMA NotSwept ==
  ASSUME DeliveryInv, at = "sweep", session # None, session.stage = "ready"
  PROVE  session.release = arg.release
<1> DEFINE x == session.release
<1>1. x \in Releases /\ x = observed /\ Fits(x) /\ ~Blocked
  BY ReadyIsClosing DEF CopySteps
<1>2. /\ arg.release \in Releases
      /\ arg.repair => Due(arg.release)
      /\ ~arg.repair => arg.release <= observed
  BY CopyFacts DEF CopySteps
<1>3. committed \in Nat /\ x \in Nat /\ arg.release \in Nat /\ ptr = arg.release
  <2>1. CopyInv /\ committed \in Releases
    BY DEF DeliveryInv, StagedInv, TypeOK
  <2> QED BY <1>1, <1>2, <2>1, ReleaseFacts DEF CopyInv
<1> HIDE DEF x
<1>4. committed < x /\ x <= ptr
  BY <1>1 DEF Fits
<1>5. ~arg.repair
  <2>1. SUFFICES ASSUME arg.repair PROVE FALSE
    OBVIOUS
  <2>2. arg.release <= committed
    BY <1>1, <1>2, <2>1 DEF Due
  <2> QED BY <1>3, <1>4, <2>2
<1>6. x = arg.release
  BY <1>1, <1>2, <1>3, <1>4, <1>5
<1> QED BY <1>6 DEF x

LEMMA CopyMoves ==
  ASSUME DeliveryInv, at \in CopySteps,
         UNCHANGED <<root, checks, authority, session, tk, queue, ui, env>>,
         at' \in Phases \ {"apply", "handoff"}, arg' \in Locals,
         Checking' <=> Checking,
         arg'.repair => arg.repair /\ arg'.release = arg.release,
         \A r \in Releases : r = arg'.pending => r = arg.pending \/ Fits(r)',
         ptr' \in Optional(Releases), gens' \in [Releases -> {"absent", "whole", "damaged"}],
         ptr # None => ptr' # None /\ ptr <= ptr',
         \A r \in Releases : Fits(r) => Fits(r)',
         NotSweptUnderSession', Locality', CopyInv', GateInv'
  PROVE  DeliveryInv'
<1>1. /\ TypeOK /\ AuthorityInv /\ SessionInv /\ OneStartup /\ OneApply /\ Offered /\ Unknowing
      /\ HeldInv /\ RepairInv
      /\ at \notin {"idle", "apply", "handoff"} /\ tk \in Windows
  BY CopyFacts DEF DeliveryInv, LauncherInv, StagedInv, CopySteps
<1>2. TypeOK'
  <2>1. Authorities /\ Memory /\ Disk
    BY <1>1, TypeParts
  <2>2. Authorities' /\ Memory' /\ Disk'
    BY <2>1, AuthorityStays DEF Memory, Disk, root, checks, ui, env
  <2> QED BY <2>2, TypePartsNext
<1>3. AuthorityInv'
  BY <1>1, AuthorityStays
<1>4. SessionInv'
  <2>1. session # None /\ session.by = "worker" => ptr' # None /\ session.release <= ptr'
    BY <1>1, SessionFields, TypeParts, ReleaseFacts DEF SessionInv, Optional, TypeOK
  <2> QED BY <1>1, <2>1 DEF SessionInv, Holds, authority, ui
<1>5. Blank' /\ Offered' /\ OneApply'
  BY <1>1, OneApplyStays DEF Blank, Offered, Applying, ui
<1>6. OneStartup'
  <2>1. (started = ~Checking)'
    BY <1>1 DEF OneStartup, ui
  <2> QED BY <1>1, <2>1 DEF OneStartup
<1>7. \A r \in Releases : /\ Repaired(r)' => Repaired(r)
                          /\ Held(r)' => Held(r) \/ r = arg'.pending
  BY <1>1, WaitsSame DEF Repaired, Held, ui, checks
<1>8. Unknowing'
  BY CopyFacts DEF NoStranger, Unknowing
<1>9. HeldInv'
  <2>1. ASSUME NEW r \in Releases, Held(r)' PROVE Fits(r)'
    <3>1. CASE Held(r)
      BY <1>1, <3>1 DEF HeldInv
    <3>2. CASE r = arg'.pending
      <4>1. CASE r = arg.pending
        <5>1. Held(r)
          BY <4>1, ReleaseFacts DEF Held
        <5> QED BY <1>1, <5>1 DEF HeldInv
      <4>2. CASE r # arg.pending
        BY <3>2, <4>2
      <4> QED BY <4>1, <4>2
    <3> QED BY <1>7, <2>1, <3>1, <3>2
  <2> QED BY <2>1 DEF HeldInv
<1>10. RepairInv'
  <2>1. ASSUME NEW r \in Releases, Due(r) PROVE Due(r)'
    <3>1. CASE r <= committed
      BY <2>1, <3>1 DEF Due, authority
    <3>2. CASE Blocked /\ ptr # None /\ trial <= ptr
      <4>1. trial \in Releases
        BY <1>1, <3>2 DEF TypeOK, Blocked, Optional
      <4>2. trial <= ptr'
        BY <1>1, <3>2, <4>1, ReleaseFacts DEF TypeOK, Optional
      <4> QED BY <2>1, <3>2, <4>2 DEF Due, Blocked, Holds, authority
    <3> QED BY <2>1, <3>1, <3>2 DEF Due
  <2> QED BY <1>1, <1>7, <2>1 DEF RepairInv
<1> QED BY <1>2, <1>3, <1>4, <1>5, <1>6, <1>8, <1>9, <1>10
        DEF DeliveryInv, LauncherInv, StagedInv

LEMMA WorkerLocals ==
  ASSUME DeliveryInv
  PROVE  /\ arg \in Locals /\ ptr \in Optional(Releases) /\ Locality /\ CopyInv /\ GateInv
         /\ gens \in [Releases -> {"absent", "whole", "damaged"}]
         /\ NotSweptUnderSession
BY DEF DeliveryInv, TypeOK, LauncherInv, StagedInv

LEMMA Numbers ==
  ASSUME DeliveryInv
  PROVE  /\ committed \in Nat /\ highwater \in Nat /\ observed \in Nat
         /\ ptr # None => ptr \in Nat /\ ptr <= ptr
         /\ \A r \in Releases : r \in Nat /\ r # None
<1>1. committed \in Releases /\ highwater \in Releases /\ observed \in Releases
      /\ ptr \in Releases \cup {None}
  BY DEF DeliveryInv, TypeOK, Optional
<1> QED BY <1>1, ReleaseFacts

LEMMA RemoveOldKeeps ==
  ASSUME DeliveryInv, RemoveOld
  PROVE  DeliveryInv'
<1>1. /\ at = "remove" /\ at' = "place" /\ arg' = arg /\ queue' = queue
      /\ UNCHANGED <<root, checks, authority, session, ptr, tk, ui, env>>
  BY DEF RemoveOld, Step
<1>2. PICK left \in {"absent", "damaged"} : gens' = [gens EXCEPT ![arg.release] = left]
  BY DEF RemoveOld
<1>3. at \in CopySteps /\ arg.release \in Releases
  BY <1>1, CopyFacts DEF CopySteps
<1>4. /\ gens' \in [Releases -> {"absent", "whole", "damaged"}]
      /\ gens'[arg.release] # "whole"
      /\ \A r \in Releases : r # arg.release => gens'[r] = gens[r]
  BY <1>2, <1>3, WorkerLocals
<1>5. ASSUME NEW r \in Releases, Fits(r) PROVE Fits(r)'
  <2>1. ASSUME damage = 0, ~Blocked, r = observed, failed # r
        PROVE  ptr = r /\ gens'[r] = "whole"
    BY <1>1, <1>4, <1>5, <2>1, Spared
  <2> QED BY <1>1, <1>5, <2>1 DEF Fits, Blocked, Holds, authority, env
<1>6. NotSweptUnderSession'
  <2>1. SUFFICES ASSUME session # None, session.stage = "ready", damage = 0
                 PROVE  gens'[session.release] = "whole"
    BY <1>1 DEF NotSweptUnderSession, env
  <2>2. session.release # arg.release /\ session.release \in Releases
    BY <1>1, <1>3, <2>1, NotReplaced, ReadyIsClosing
  <2> QED BY <1>4, <2>1, <2>2, WorkerLocals DEF NotSweptUnderSession
<1>7. Locality'
  BY <1>1, WorkerLocals DEF Locality, CopySteps
<1>8. CopyInv'
  <2>1. PointsAbove(arg.release)' <=> PointsAbove(arg.release)
    BY <1>1 DEF PointsAbove
  <2> QED BY <1>1, <1>4, <2>1, WorkerLocals DEF CopyInv, CopySteps, authority
<1>9. GateInv'
  <2>1. Waiting' => Waiting
    <3>1. ptr # None /\ gens'[ptr] = "whole" => gens[ptr] = "whole"
      BY <1>4, WorkerLocals DEF Optional
    <3> QED BY <1>1, <3>1 DEF Waiting, Loadable, authority
  <2> QED BY <1>1, <2>1, WorkerLocals DEF GateInv, ui
<1>10. Checking' <=> Checking
  BY <1>1, WaitsSame DEF Checking, CopySteps
<1>11. ptr # None => ptr <= ptr
  BY Numbers
<1> QED BY <1>1, <1>3, <1>4, <1>5, <1>6, <1>7, <1>8, <1>9, <1>10, <1>11,
           WorkerLocals, CopyMoves DEF Phases

\* A repair leaves nothing that waits: what it places is committed already, or a
\* transaction is open.
LEMMA RepairStages ==
  ASSUME DeliveryInv, at \in CopySteps, arg.repair
  PROVE  trial # None \/ ~(highwater = arg.release /\ arg.release > committed)
BY CopyFacts, ReleaseFacts DEF Due, Blocked, DeliveryInv, TypeOK

LEMMA PlaceKeeps ==
  ASSUME DeliveryInv, Place
  PROVE  DeliveryInv'
<1>1. /\ at = "place" /\ at' = "point" /\ arg' = arg /\ queue' = queue
      /\ gens' = [gens EXCEPT ![arg.release] = "whole"]
      /\ UNCHANGED <<root, checks, authority, session, ptr, tk, ui, env>>
  BY DEF Place, Step
<1>2. at \in CopySteps /\ arg.release \in Releases
  BY <1>1, CopyFacts DEF CopySteps
<1>3. /\ gens' \in [Releases -> {"absent", "whole", "damaged"}]
      /\ gens'[arg.release] = "whole"
      /\ \A r \in Releases : r # arg.release => gens'[r] = gens[r]
  BY <1>1, <1>2, WorkerLocals
<1>4. ASSUME NEW r \in Releases, Fits(r) PROVE Fits(r)'
  BY <1>1, <1>3, <1>4 DEF Fits, Blocked, Holds, authority, env
<1>5. NotSweptUnderSession'
  <2>1. SUFFICES ASSUME session # None, session.stage = "ready", damage = 0
                 PROVE  gens'[session.release] = "whole"
    BY <1>1 DEF NotSweptUnderSession, env
  <2> QED BY <1>2, <1>3, <2>1, ReadyIsClosing, WorkerLocals DEF NotSweptUnderSession
<1>6. Locality'
  BY <1>1, WorkerLocals DEF Locality, CopySteps
<1>7. CopyInv'
  <2>1. PointsAbove(arg.release)' <=> PointsAbove(arg.release)
    BY <1>1 DEF PointsAbove
  <2> QED BY <1>1, <1>3, <2>1, WorkerLocals DEF CopyInv, CopySteps, authority
<1>8. GateInv'
  <2>1. ~arg.repair => started' = FALSE
    BY <1>1, <1>2, CopyFacts DEF ui
  <2>2. arg.repair /\ Waiting' => Waiting
    <3>1. SUFFICES ASSUME arg.repair, Waiting' PROVE Waiting
      OBVIOUS
    <3>2. ptr # arg.release
      BY <1>1, <1>2, <3>1, RepairStages, ReleaseFacts DEF Waiting, Loadable, authority
    <3> QED BY <1>1, <1>3, <3>1, <3>2, WorkerLocals DEF Waiting, Loadable, Optional, authority
  <2> QED BY <1>1, <2>1, <2>2, WorkerLocals DEF GateInv, ui
<1>9. Checking' <=> Checking
  BY <1>1, WaitsSame DEF Checking, CopySteps
<1>10. ptr # None => ptr <= ptr
  BY Numbers
<1> QED BY <1>1, <1>2, <1>3, <1>4, <1>5, <1>6, <1>7, <1>8, <1>9, <1>10,
           WorkerLocals, CopyMoves DEF Phases

LEMMA PointKeeps ==
  ASSUME DeliveryInv, Point
  PROVE  DeliveryInv'
<1>1. /\ at = "point" /\ at' = "sweep" /\ arg' = arg /\ queue' = queue
      /\ ptr' = arg.release
      /\ UNCHANGED <<root, checks, authority, session, gens, tk, ui, env>>
  BY DEF Point, Step
<1>2. /\ at \in CopySteps /\ arg.release \in Releases /\ arg.release \notin Reinstall
      /\ arg.release # None
  BY <1>1, CopyFacts, ReleaseFacts DEF CopySteps
<1>3. ptr # None => ptr <= ptr'
  BY <1>1, <1>2, Numbers, WorkerLocals DEF CopyInv, PointsAbove
<1>4. ASSUME NEW r \in Releases, Fits(r) PROVE Fits(r)'
  <2>1. r <= ptr'
    BY <1>1, <1>2, <1>3, <1>4, Numbers DEF Fits
  <2>2. ASSUME damage = 0, ~Blocked, r = observed, failed # r
        PROVE  ptr' = r /\ gens[r] = "whole"
    BY <1>1, <1>4, <2>2, Spared
  <2> QED BY <1>1, <1>2, <1>4, <2>1, <2>2 DEF Fits, Blocked, Holds, authority, env
<1>5. NotSweptUnderSession'
  BY <1>1, WorkerLocals DEF NotSweptUnderSession, env
<1>6. Locality'
  BY <1>1, WorkerLocals DEF Locality, CopySteps
<1>7. CopyInv'
  BY <1>1, <1>2, WorkerLocals DEF CopyInv, CopySteps, authority, env
<1>8. GateInv'
  <2>1. ~arg.repair => started' = FALSE
    BY <1>1, <1>2, CopyFacts DEF ui
  <2>2. arg.repair => ~Waiting'
    BY <1>1, <1>2, RepairStages DEF Waiting, Loadable, authority
  <2> QED BY <1>1, <2>1, <2>2 DEF GateInv, ui
<1>9. Checking' <=> Checking
  BY <1>1, WaitsSame DEF Checking, CopySteps
<1> QED BY <1>1, <1>2, <1>3, <1>4, <1>5, <1>6, <1>7, <1>8, <1>9,
           WorkerLocals, CopyMoves DEF Phases, Optional

LEMMA SweepKeeps ==
  ASSUME DeliveryInv, Sweep
  PROVE  DeliveryInv'
<1>1. /\ at = "sweep" /\ queue' = queue
      /\ gens' = [r \in Releases |-> IF r = arg.release THEN gens[r] ELSE "absent"]
      /\ UNCHANGED <<root, checks, authority, session, ptr, tk, ui, env>>
      /\ IF arg.repair THEN at' = "repaired" /\ arg' = arg
         ELSE at' = "publish" /\ arg' = [NoLocals EXCEPT !.pending = arg.release,
                                                         !.disp = arg.disp]
  BY DEF Sweep, Swept, Step, Finish
<1>2. /\ at \in CopySteps /\ arg.release \in Releases /\ arg.release \notin Reinstall
      /\ arg.release # None /\ ptr = arg.release
      /\ gens[arg.release] = "whole" \/ damage > 0
  BY <1>1, CopyFacts, WorkerLocals, ReleaseFacts DEF CopySteps, CopyInv
<1>3. /\ gens' \in [Releases -> {"absent", "whole", "damaged"}]
      /\ gens'[arg.release] = gens[arg.release]
  BY <1>1, <1>2, WorkerLocals
<1>4. ASSUME NEW r \in Releases, Fits(r) PROVE Fits(r)'
  <2>1. ASSUME damage = 0, ~Blocked, r = observed, failed # r
        PROVE  ptr = r /\ gens'[r] = "whole"
    BY <1>1, <1>3, <1>4, <2>1, Spared
  <2> QED BY <1>1, <1>4, <2>1 DEF Fits, Blocked, Holds, authority, env
<1>5. NotSweptUnderSession'
  <2>1. SUFFICES ASSUME session # None, session.stage = "ready", damage = 0
                 PROVE  gens'[session.release] = "whole"
    BY <1>1 DEF NotSweptUnderSession, env
  <2> QED BY <1>1, <1>3, <2>1, NotSwept, WorkerLocals DEF NotSweptUnderSession
<1>6. Waiting' <=> Waiting
  BY <1>1, <1>2, <1>3 DEF Waiting, Loadable, authority
<1>7. CopyInv'
  BY <1>1, WorkerLocals DEF CopyInv, CopySteps
<1>8. ptr # None => ptr <= ptr
  BY Numbers
<1>9. CASE arg.repair
  <2>1. at' = "repaired" /\ arg' = arg
    BY <1>1, <1>9
  <2>2. Locality'
    BY <1>1, <1>2, <2>1, WorkerLocals DEF Locality, CopySteps
  <2>3. GateInv'
    BY <1>1, <1>6, <2>1, WorkerLocals DEF GateInv, ui
  <2>4. Checking' <=> Checking
    BY <1>1, <1>9, <2>1, WaitsSame DEF Checking, CopySteps
  <2> QED BY <1>1, <1>2, <1>3, <1>4, <1>5, <1>7, <1>8, <2>1, <2>2, <2>3, <2>4,
             WorkerLocals, CopyMoves DEF Phases
<1>10. CASE ~arg.repair
  <2>1. /\ at' = "publish" /\ arg' \in Locals /\ arg'.pending = arg.release
        /\ arg'.disp = "mandatory" /\ arg'.repair = FALSE
        /\ committed < arg.release /\ arg.release <= observed
    BY <1>1, <1>2, <1>10, CopyFacts, WorkerKnows DEF NoLocals, Locals, Optional
  <2>2. Locality'
    BY <2>1 DEF Locality, CopySteps
  <2>3. GateInv'
    BY <1>1, <1>6, <2>1, WorkerLocals DEF GateInv, Open, ui
  <2>4. Checking /\ Checking'
    BY <1>2, <1>10, <2>1 DEF Checking
  <2>5. Fits(arg.release)
    BY <1>2, <2>1, Numbers DEF Fits
  <2>6. \A r \in Releases : r = arg'.pending => Fits(r)'
    BY <1>2, <1>4, <2>1, <2>5
  <2> QED BY <1>1, <1>2, <1>3, <1>4, <1>5, <1>7, <1>8, <2>1, <2>2, <2>3, <2>4, <2>6,
             WorkerLocals, CopyMoves DEF Phases
<1> QED BY <1>9, <1>10

(***************************************************************************)
(* The answer is published; a release is admitted; the check starts.       *)
(***************************************************************************)
LEMMA NoStartup ==
  ASSUME DeliveryInv, at # "idle"
  PROVE  tk \in Windows /\ \A r : ~Waits("startup", r)
<1>1. Blank /\ OneStartup
  BY DEF DeliveryInv, LauncherInv
<1>2. ASSUME NEW r, Waits("startup", r) PROVE FALSE
  <2>1. PICK i \in 1..Len(queue) : queue[i] = [kind |-> "startup", release |-> r]
    BY <1>2 DEF Waits
  <2>2. queue[i].kind = "startup"
    BY <2>1
  <2> QED BY <1>1, <2>2 DEF OneStartup
<1> QED BY <1>1, <1>2 DEF Blank

LEMMA PublishKeeps ==
  ASSUME DeliveryInv, Publish
  PROVE  DeliveryInv'
<1>1. /\ at = "publish" /\ at' = "idle" /\ arg' = NoLocals /\ queue' = queue
      /\ started' = TRUE
      /\ snap' = [pending |-> arg.pending, disp |-> arg.disp]
      /\ UNCHANGED <<root, checks, authority, session, store, tk, win, applying, env>>
  BY DEF Publish, Step
<1>2. /\ TypeOK /\ AuthorityInv /\ SessionInv /\ OneStartup /\ OneApply /\ Offered /\ Unknowing
      /\ HeldInv /\ RepairInv /\ CopyInv /\ NotSweptUnderSession /\ GateInv
      /\ arg \in Locals /\ tk \in Windows
  BY <1>1, NoStartup, WorkerLocals DEF DeliveryInv, LauncherInv, StagedInv
<1>3. TypeOK'
  <2>1. Authorities /\ Memory /\ Disk
    BY <1>2, TypeParts
  <2>2. arg' \in Locals /\ snap' \in Snapshots
    BY <1>1, <1>2 DEF NoLocals, Locals, Snapshots, Optional, Dispositions
  <2>3. Authorities' /\ Memory' /\ Disk'
    BY <1>1, <2>1, <2>2, AuthorityStays DEF Memory, Disk, Phases, root, checks, store, env
  <2> QED BY <2>3, TypePartsNext
<1>4. AuthorityInv' /\ SessionInv'
  BY <1>1, <1>2, AuthorityStays DEF SessionInv, Holds, authority, store
<1>5. Blank' /\ Locality' /\ Offered' /\ OneApply'
  BY <1>1, <1>2, OneApplyStays DEF Blank, Locality, Offered, Applying, NoLocals, CopySteps
<1>6. OneStartup'
  <2>1. ~Checking'
    BY <1>1, NoStartup, WaitsSame DEF Checking, CopySteps
  <2>2. (started = ~Checking)'
    BY <1>1, <2>1
  <2> QED BY <1>1, <1>2, <2>2 DEF OneStartup
<1>7. \A r \in Releases : (Repaired(r)' => Repaired(r)) /\ (Held(r)' => Held(r))
  BY <1>1, WaitsSame DEF Repaired, Held, checks, NoLocals
<1>8. Unknowing'
  BY <1>1, <1>2, <1>7 DEF Unknowing, checks
<1>9. HeldInv' /\ RepairInv' /\ NotSweptUnderSession'
  BY <1>1, <1>2, <1>7, SameDisk DEF HeldInv, RepairInv, env
<1>10. CopyInv'
  BY <1>1, <1>2 DEF CopyInv, CopySteps, store
<1>11. GateInv'
  BY <1>1, <1>2, SameDisk DEF GateInv, env
<1> QED BY <1>3, <1>4, <1>5, <1>6, <1>8, <1>9, <1>10, <1>11
        DEF DeliveryInv, LauncherInv, StagedInv

\* The floor rises, or the release was admitted before.
LEMMA AdmissionKeeps ==
  ASSUME DeliveryInv, at = "admit", session = None, trial = None,
         Authorities', AuthorityInv', trial' = None,
         committed' = committed, failed' = failed,
         observed < observed' \/ observed' = observed,
         UNCHANGED <<root, checks, session, store, tk, queue, win, started, applying, env>>,
         at' \in {"stage", "publish"}, arg' \in Locals,
         arg'.pending = arg.pending, arg'.disp = arg.disp, arg'.repair = FALSE,
         arg'.release = arg.release \/ at' = "publish",
         snap' \in Snapshots, snap'.pending \in {snap.pending, arg.pending}
  PROVE  DeliveryInv'
<1>1. /\ SessionInv /\ OneStartup /\ OneApply /\ Offered /\ Unknowing
      /\ HeldInv /\ RepairInv /\ TypeOK /\ tk \in Windows
  BY NoStartup DEF DeliveryInv, LauncherInv, StagedInv
<1>2. TypeOK'
  <2>1. Memory /\ Disk
    BY <1>1, TypeParts
  <2>2. Memory' /\ Disk'
    BY <2>1 DEF Memory, Disk, Phases, root, checks, store, env
  <2> QED BY <2>2, TypePartsNext
<1>3. SessionInv'
  BY <1>1 DEF SessionInv, Holds
<1>4. arg.disp = "mandatory" /\ arg.release \in Releases \ Reinstall /\ ~arg.repair
  BY WorkerLocals DEF Locality, CopySteps
<1>5. Blank' /\ Locality' /\ Offered' /\ OneApply'
  BY <1>1, <1>4, OneApplyStays DEF Blank, Locality, Offered, Applying, CopySteps
<1>6. Checking /\ Checking' /\ started = FALSE
  BY <1>1 DEF Checking, OneStartup
<1>7. OneStartup'
  <2>1. (started = ~Checking)'
    BY <1>6
  <2>2. at # "idle"
    OBVIOUS
  <2> QED BY <1>1, <2>1, <2>2 DEF OneStartup
<1>8. \A r \in Releases : (Repaired(r)' => Repaired(r)) /\ (Held(r)' => Held(r))
  BY WaitsSame DEF Repaired, Held, checks
<1>9. Unknowing'
  BY DEF Unknowing
<1>10. HeldInv' /\ RepairInv' /\ NotSweptUnderSession'
  <2>1. observed \in Nat /\ observed' \in Nat
    BY <1>1, <1>2, ReleaseFacts DEF TypeOK
  <2>2. \A r \in Releases : (Fits(r) => Fits(r)') /\ (Due(r) => Due(r)')
    BY <2>1, Numbers DEF Fits, Due, Blocked, Holds, store, env
  <2> QED BY <1>1, <1>8, <2>2 DEF HeldInv, RepairInv, NotSweptUnderSession
<1>11. CopyInv'
  BY WorkerLocals DEF CopyInv, CopySteps, store
<1>12. GateInv'
  BY <1>4, <1>6 DEF GateInv, Open
<1> QED BY <1>2, <1>3, <1>5, <1>7, <1>9, <1>10, <1>11, <1>12
        DEF DeliveryInv, LauncherInv, StagedInv

LEMMA AdmitKeeps ==
  ASSUME DeliveryInv, AdmitAccepted \/ AdmitAnswerLost
  PROVE  DeliveryInv'
<1>1. /\ at = "admit" /\ session = None
      /\ Authority!Admit(arg.release) \/ AdmitUnchanged(arg.release)
      /\ UNCHANGED <<root, checks, session, store, tk, started, win, applying, env>>
  BY DEF AdmitAccepted, AdmitAnswerLost, ui
<1>2. /\ TypeOK /\ Authorities /\ AuthorityInv /\ arg \in Locals
      /\ arg.release \in Releases \ Reinstall /\ arg.repair = FALSE
      /\ snap \in Snapshots /\ arg.disp = "mandatory"
  <2>1. ~arg.repair /\ arg.disp = "mandatory" /\ arg.release \in Releases \ Reinstall
    BY <1>1, WorkerLocals DEF Locality, CopySteps
  <2> QED BY <2>1, TypeParts, WorkerKnows DEF DeliveryInv, TypeOK
<1>3. /\ trial = None /\ Authorities' /\ AuthorityInv' /\ trial' = None
      /\ committed' = committed /\ failed' = failed
      /\ observed < observed' \/ observed' = observed
  <2>1. CASE Authority!Admit(arg.release)
    BY <1>2, <2>1, Admitted
  <2>2. CASE AdmitUnchanged(arg.release)
    BY <1>2, <2>2, AuthorityStays DEF AdmitUnchanged, Authority!Quiet, authority
  <2> QED BY <1>1, <2>1, <2>2
<1>4. CASE AdmitAccepted
  <2>1. at' = "stage" /\ arg' = arg /\ queue' = queue
        /\ snap' = [pending |-> arg.pending, disp |-> arg.disp]
    BY <1>4 DEF AdmitAccepted, Step
  <2>2. snap' \in Snapshots /\ snap'.pending = arg.pending
    BY <2>1, WorkerKnows DEF Snapshots
  <2> QED BY <1>1, <1>2, <1>3, <2>1, <2>2, AdmissionKeeps
<1>5. CASE AdmitAnswerLost
  <2>1. at' = "publish" /\ queue' = queue /\ snap' = snap
        /\ arg' = [NoLocals EXCEPT !.pending = arg.pending, !.disp = arg.disp]
    BY <1>5 DEF AdmitAnswerLost, Finish, Step, ui
  <2>2. /\ arg' \in Locals /\ arg'.pending = arg.pending /\ arg'.disp = arg.disp
        /\ arg'.repair = FALSE
    BY <2>1, WorkerKnows DEF NoLocals, Locals, Optional
  <2> QED BY <1>1, <1>2, <1>3, <2>1, <2>2, AdmissionKeeps
<1> QED BY <1>4, <1>5, <1>1 DEF AdmitAccepted, AdmitAnswerLost

(***************************************************************************)
(* The worker takes its next task.                                         *)
(***************************************************************************)
LEMMA Taken ==
  ASSUME DeliveryInv, NEW kind, NEW phase, Take(kind, phase)
  PROVE  /\ at = "idle" /\ arg = NoLocals /\ tk \in Windows /\ at' = phase
         /\ queue' \in Seq(Tasks) /\ Len(queue') <= MaxQueue
         /\ Head(queue).kind = kind /\ Head(queue).release \in Optional(Releases)
         /\ Waits(kind, Head(queue).release)
         /\ \A i \in 1..Len(queue') : /\ queue'[i].kind # "startup"
                                      /\ queue'[i].release = None
                                           <=> queue'[i].kind \in {"startup", "check"}
         /\ \A k, r : Waits(k, r)' => Waits(k, r)
         /\ \A r : ~Waits("startup", r)'
         /\ Head(queue).release = None <=> kind \in {"startup", "check"}
         /\ Checking <=> kind = "startup"
         /\ started = (kind # "startup")
<1>1. at = "idle" /\ queue # <<>> /\ Head(queue).kind = kind /\ at' = phase
      /\ queue' = Tail(queue)
  BY DEF Take
<1>2. /\ Blank /\ Locality /\ OneStartup
      /\ queue \in Seq(Tasks) /\ Len(queue) <= MaxQueue
  BY DEF DeliveryInv, LauncherInv, TypeOK
<1>3. arg = NoLocals /\ tk \in Windows
  BY <1>1, <1>2 DEF Locality, Blank
<1>4. /\ queue' \in Seq(Tasks) /\ Head(queue) \in Tasks
      /\ Len(queue) \in Nat \ {0} /\ Len(queue') = Len(queue) - 1
      /\ Head(queue) = queue[1]
      /\ \A i \in 1..Len(queue') : i + 1 \in 2..Len(queue) /\ queue'[i] = queue[i + 1]
      /\ \A k, r : Waits(k, r)' => Waits(k, r)
      /\ \A k, r : Waits(k, r) =>
           Waits(k, r)' \/ Head(queue) = [kind |-> k, release |-> r]
      /\ Waits(kind, Head(queue).release)
  BY <1>1, <1>2, QueueShrinks
<1>5. Len(queue') <= MaxQueue /\ Head(queue).release \in Optional(Releases)
  BY <1>2, <1>4, DeliveryAssumption DEF Tasks
<1>6. ASSUME NEW i \in 1..Len(queue')
      PROVE  /\ queue'[i].kind # "startup"
             /\ queue'[i].release = None <=> queue'[i].kind \in {"startup", "check"}
  <2>1. i + 1 \in 1..Len(queue) /\ i + 1 # 1 /\ queue'[i] = queue[i + 1]
    BY <1>4
  <2> QED BY <1>2, <2>1 DEF OneStartup
<1>7. ASSUME NEW r, Waits("startup", r)' PROVE FALSE
  <2>1. PICK i \in 1..Len(queue') : queue'[i] = [kind |-> "startup", release |-> r]
    BY <1>7 DEF Waits
  <2> QED BY <1>6, <2>1
<1>8. Head(queue).release = None <=> kind \in {"startup", "check"}
  <2>1. 1 \in 1..Len(queue)
    BY <1>4
  <2> QED BY <1>1, <1>2, <1>4, <2>1 DEF OneStartup
<1>9. Checking <=> kind = "startup"
  <2>1. Checking <=> Waits("startup", None)
    BY <1>1 DEF Checking, CopySteps
  <2>2. Waits("startup", None) => Head(queue) = [kind |-> "startup", release |-> None]
    BY <1>4, <1>7
  <2>3. Waits("startup", None) => kind = "startup"
    BY <1>1, <2>2
  <2>4. kind = "startup" => Waits("startup", None)
    BY <1>4, <1>8
  <2> QED BY <2>1, <2>3, <2>4
<1>10. started = (kind # "startup")
  BY <1>2, <1>3, <1>9 DEF OneStartup
<1> QED BY <1>1, <1>3, <1>4, <1>5, <1>6, <1>7, <1>8, <1>9, <1>10

LEMMA ApplyTaken ==
  ASSUME DeliveryInv, NEW kind, NEW phase, Take(kind, phase), applying' = applying,
         phase # "handoff", phase = "apply" => kind = "apply"
  PROVE  OneApply'
<1>1. /\ at = "idle" /\ queue # <<>> /\ Head(queue).kind = kind /\ at' = phase
      /\ queue' = Tail(queue)
  BY DEF Take
<1>2. OneApply /\ queue \in Seq(Tasks)
  BY DEF DeliveryInv, LauncherInv, TypeOK
<1>3. /\ Len(queue) \in Nat \ {0} /\ Len(queue') = Len(queue) - 1
      /\ Head(queue) = queue[1]
      /\ \A i \in 1..Len(queue') : i + 1 \in 2..Len(queue) /\ queue'[i] = queue[i + 1]
  BY <1>1, <1>2, QueueShrinks
<1>4. 1 \in 1..Len(queue) /\ queue[1].kind = kind
  BY <1>1, <1>3
<1>5. ASSUME NEW i \in 1..Len(queue'), NEW j \in 1..Len(queue'),
             queue'[i].kind = "apply", queue'[j].kind = "apply"
      PROVE  i = j
  <2>1. i + 1 \in 1..Len(queue) /\ j + 1 \in 1..Len(queue)
        /\ queue[i + 1].kind = "apply" /\ queue[j + 1].kind = "apply"
    BY <1>3, <1>5
  <2>2. i + 1 = j + 1
    BY <1>2, <2>1 DEF OneApply
  <2> QED BY <1>3, <2>2
<1>6. Queued("apply")' => Queued("apply")
  <2>1. ASSUME NEW i \in 1..Len(queue'), queue'[i].kind = "apply"
        PROVE  i + 1 \in 1..Len(queue) /\ queue[i + 1].kind = "apply"
    BY <1>3, <2>1
  <2> QED BY <2>1 DEF Queued
<1>7. kind = "apply" => Queued("apply") /\ ~Queued("apply")'
  <2>1. SUFFICES ASSUME kind = "apply" PROVE Queued("apply") /\ ~Queued("apply")'
    OBVIOUS
  <2>2. ASSUME NEW i \in 1..Len(queue'), queue'[i].kind = "apply" PROVE FALSE
    <3>1. i + 1 \in 1..Len(queue) /\ i + 1 # 1 /\ queue[i + 1].kind = "apply"
      BY <1>3, <2>2
    <3> QED BY <1>2, <1>4, <2>1, <3>1 DEF OneApply
  <2> QED BY <1>4, <2>1, <2>2 DEF Queued
<1> QED BY <1>1, <1>2, <1>5, <1>6, <1>7 DEF OneApply, Applying

LEMMA StartupReadsKeeps ==
  ASSUME DeliveryInv, StartupReads
  PROVE  DeliveryInv'
<1>1. /\ Take("startup", "resolve") /\ Readable
      /\ arg' = [NoLocals EXCEPT !.pending = Loaded]
      /\ gens' = [r \in Releases |-> IF r = ptr THEN gens[r] ELSE "absent"]
      /\ snap' = [pending |-> Loaded,
                  disp |-> IF Loaded = None THEN "none" ELSE "mandatory"]
      /\ UNCHANGED <<root, checks, authority, session, ptr, tk, started, win, applying, env>>
  BY DEF StartupReads
<1>2. /\ TypeOK /\ AuthorityInv /\ SessionInv /\ Offered /\ HeldInv /\ RepairInv /\ CopyInv
  BY DEF DeliveryInv, LauncherInv, StagedInv
<1>3. /\ Loaded \in Optional(Releases)
      /\ Loaded # None => /\ observed = Loaded /\ ptr = Loaded /\ Loaded \in Releases
                          /\ gens[Loaded] = "whole" /\ Loaded > committed
      /\ Waiting => Loaded # None
  BY <1>1, <1>2, LoadedIs
<1> HIDE DEF Loaded
<1>4. /\ arg' \in Locals /\ arg'.pending = Loaded /\ arg'.repair = FALSE
      /\ snap' \in Snapshots /\ snap'.pending = Loaded
  BY <1>1, <1>3 DEF NoLocals, Locals, Snapshots, Optional, Dispositions
<1>5. /\ gens' \in [Releases -> {"absent", "whole", "damaged"}]
      /\ ptr \in Releases => gens'[ptr] = gens[ptr]
  BY <1>1, WorkerLocals
<1>6. TypeOK'
  <2>1. Authorities /\ Memory /\ Disk
    BY <1>2, TypeParts
  <2>2. Authorities' /\ Memory' /\ Disk'
    BY <1>1, <1>4, <1>5, <2>1, Taken, AuthorityStays
       DEF Memory, Disk, Phases, root, checks, env
  <2> QED BY <2>2, TypePartsNext
<1>7. AuthorityInv' /\ session = None /\ session' = None /\ at' = "resolve" /\ tk \in Windows
  BY <1>1, <1>2, AuthorityStays, Taken DEF Readable
<1>8. SessionInv'
  BY <1>1, <1>2, <1>7 DEF SessionInv, Holds
<1>9. Blank' /\ Locality' /\ OneApply' /\ Offered' /\ Unknowing'
  BY <1>1, <1>2, <1>4, <1>7, ApplyTaken DEF Blank, Locality, Offered, Unknowing, CopySteps
<1>10. OneStartup'
  <2>1. Checking' /\ started = FALSE
    BY <1>1, <1>7, Taken DEF Checking
  <2>2. (started = ~Checking)'
    BY <1>1, <2>1
  <2> QED BY <1>1, <2>2, Taken DEF OneStartup
<1>11. Waiting' <=> Waiting
  <2>1. ptr # None => gens'[ptr] = gens[ptr]
    BY <1>5, WorkerLocals DEF Optional
  <2> QED BY <1>1, <2>1 DEF Waiting, Loadable, authority
<1>12. HeldInv'
  <2>1. ASSUME NEW r \in Releases, Fits(r) PROVE Fits(r)'
    BY <1>1, <1>5, <2>1 DEF Fits, Blocked, Holds, authority, env
  <2>2. ASSUME NEW r \in Releases, r = Loaded PROVE Fits(r)
    BY <1>2, <1>3, <2>2, Numbers DEF Fits, CopyInv
  <2>3. ASSUME NEW r \in Releases, Held(r)' PROVE Held(r) \/ r = Loaded
    BY <1>1, <1>4, <1>7, <2>3, Taken DEF Held
  <2> QED BY <1>2, <2>1, <2>2, <2>3 DEF HeldInv
<1>13. RepairInv' /\ NotSweptUnderSession'
  <2>1. \A r \in Releases : Repaired(r)' => Repaired(r)
    BY <1>1, <1>4, Taken DEF Repaired, checks
  <2>2. \A r \in Releases : Due(r) => Due(r)'
    BY <1>1 DEF Due, Blocked, Holds, authority
  <2> QED BY <1>2, <1>7, <2>1, <2>2 DEF RepairInv, NotSweptUnderSession
<1>14. CopyInv'
  BY <1>1, <1>2, <1>7 DEF CopyInv, CopySteps
<1>15. GateInv'
  <2>1. started' = FALSE
    BY <1>1, Taken
  <2> QED BY <1>3, <1>4, <1>7, <1>11, <2>1 DEF GateInv
<1> QED BY <1>6, <1>7, <1>8, <1>9, <1>10, <1>12, <1>13, <1>14, <1>15
        DEF DeliveryInv, LauncherInv, StagedInv

\* The other tasks start from the empty locals, and leave the disk alone.
LEMMA TaskKeeps ==
  ASSUME DeliveryInv, NEW kind \in {"startup", "check", "repair", "apply"}, NEW phase,
         Take(kind, phase), phase \in {"idle", "broken", "download", "apply"},
         phase = "broken" <=> kind = "startup",
         UNCHANGED <<root, found, authority, session, store, tk, ui, env>>,
         arg' \in Locals, Locality', arg'.pending = None,
         report' \in Optional(Releases \ Reinstall),
         \A r \in Releases : (Held(r)' => Held(r)) /\ (Repaired(r)' => Due(r)),
         phase = "download" => arg'.repair, phase = "apply" => kind = "apply",
         NoStranger \/ (report' = report /\ phase \in {"idle", "broken"}
                          /\ \A r \in Releases : Repaired(r)' => Repaired(r))
  PROVE  DeliveryInv'
<1>1. /\ TypeOK /\ AuthorityInv /\ SessionInv /\ Offered /\ Unknowing /\ HeldInv /\ RepairInv
      /\ CopyInv /\ NotSweptUnderSession /\ GateInv
  BY DEF DeliveryInv, LauncherInv, StagedInv
<1>2. TypeOK'
  <2>1. Authorities /\ Memory /\ Disk
    BY <1>1, TypeParts
  <2>2. Authorities' /\ Memory' /\ Disk'
    BY <2>1, Taken, AuthorityStays DEF Memory, Disk, Phases, root, store, ui, env
  <2> QED BY <2>2, TypePartsNext
<1>3. AuthorityInv' /\ tk \in Windows /\ at = "idle" /\ at' = phase
  BY <1>1, AuthorityStays, Taken
<1>4. SessionInv'
  BY <1>1, <1>3 DEF SessionInv, Holds, authority, store, ui
<1>5. Blank' /\ Offered' /\ OneApply'
  BY <1>1, <1>3, ApplyTaken DEF Blank, Offered, ui
<1>6. Unknowing'
  <2>1. CASE NoStranger
    BY <2>1 DEF Unknowing, NoStranger
  <2>2. CASE ~NoStranger
    BY <1>1, <1>3, <2>2 DEF Unknowing, NoStranger
  <2> QED BY <2>1, <2>2
<1>7. OneStartup'
  <2>1. Checking' <=> kind = "startup"
    BY <1>3, Taken DEF Checking, CopySteps
  <2>2. started = (kind # "startup")
    BY Taken
  <2>3. (started = ~Checking)'
    BY <2>1, <2>2 DEF ui
  <2> QED BY <2>3, Taken DEF OneStartup
<1>8. HeldInv' /\ RepairInv' /\ NotSweptUnderSession'
  BY <1>1, SameDisk DEF HeldInv, RepairInv, env
<1>9. CopyInv'
  BY <1>1, <1>3 DEF CopyInv, CopySteps, store
<1>10. GateInv'
  BY <1>1, <1>3, SameDisk DEF GateInv, ui, env
<1> QED BY <1>2, <1>3, <1>4, <1>5, <1>6, <1>7, <1>8, <1>9, <1>10
        DEF DeliveryInv, LauncherInv, StagedInv

LEMMA NoLocalsTyped ==
  /\ NoLocals \in Locals /\ NoLocals.pending = None /\ NoLocals.release = None
  /\ NoLocals.repair = FALSE
BY DEF NoLocals, Locals, Optional, Dispositions

LEMMA StartupUnreadableKeeps ==
  ASSUME DeliveryInv, StartupUnreadable
  PROVE  DeliveryInv'
<1>1. /\ Take("startup", "broken") /\ arg' = NoLocals
      /\ UNCHANGED <<root, checks, authority, session, store, tk, ui, env>>
  BY DEF StartupUnreadable
<1>2. Locality'
  BY <1>1, Taken, NoLocalsTyped DEF Locality, CopySteps
<1>3. \A r \in Releases : (Held(r)' => Held(r)) /\ (Repaired(r)' => Repaired(r))
  BY <1>1, Taken, NoLocalsTyped DEF Held, Repaired, checks, ui
<1>4. RepairInv /\ report \in Optional(Releases \ Reinstall)
  BY DEF DeliveryInv, StagedInv, TypeOK
<1> QED BY <1>1, <1>2, <1>3, <1>4, NoLocalsTyped, TaskKeeps DEF RepairInv, checks

\* The installed release can be repaired, and so can the one the startup check
\* found while a helper of this launcher holds the slots.
LEMMA ComparedDue ==
  ASSUME DeliveryInv, tk = "ui", at = "idle", Compared # None, Installable(Compared)
  PROVE  Compared \in Releases \ Reinstall /\ Due(Compared) /\ NoStranger
<1>1. TypeOK /\ SessionInv /\ Unknowing /\ Authorities /\ Disk
  BY TypeParts DEF DeliveryInv, LauncherInv
<1>2. Compared \in Releases \ Reinstall
  BY <1>1 DEF Compared, Installable, TypeOK, Optional
<1>3. CASE session = None
  BY <1>2, <1>3, Numbers DEF Compared, Due, NoStranger
<1>4. CASE session # None
  <2>1. found # None
    BY <1>4 DEF Compared
  <2>2. session.by \in {"boot", "worker", "close"}
    BY <1>1, <1>4, <2>1, SessionFields DEF Unknowing
  <2>3. session.by = "worker" /\ session.stage \in {"ready", "applied", "active"}
    BY <1>1, <1>4, <2>2, SessionFields DEF SessionInv
  <2>4. session.stage = "applied" /\ trial = session.release /\ ptr # None
        /\ session.release <= ptr
    BY <1>1, <1>4, <2>3 DEF SessionInv
  <2>5. trial # None
    BY <1>1, <1>4, <2>4, SessionFields, ReleaseFacts
  <2> QED BY <1>2, <1>4, <2>3, <2>4, <2>5 DEF Due, Blocked, Holds, NoStranger
<1> QED BY <1>3, <1>4

LEMMA FileCheckKeeps ==
  ASSUME DeliveryInv, FileCheck
  PROVE  DeliveryInv'
<1>1. /\ Take("check", "idle") /\ arg' = NoLocals
      /\ UNCHANGED <<root, found, authority, session, store, tk, ui, env>>
      /\ report' \in IF Compared = None THEN {report} ELSE Repairable(Compared)
  BY DEF FileCheck
<1>2. Locality'
  BY <1>1, Taken, NoLocalsTyped DEF Locality, CopySteps
<1>3. \A r \in Releases : Held(r)' => Held(r)
  BY <1>1, Taken, NoLocalsTyped DEF Held, ui
<1>4. at = "idle"
  BY <1>1, Taken
<1>5. RepairInv /\ report \in Optional(Releases \ Reinstall)
  BY DEF DeliveryInv, StagedInv, TypeOK
<1>6. \/ report' = report
      \/ report' = None
      \/ report' = Compared /\ Compared # None /\ Installable(Compared)
  BY <1>1 DEF Repairable
<1>7. report' \in Optional(Releases \ Reinstall)
  <2>1. ASSUME report' = Compared, Compared # None, Installable(Compared)
        PROVE  Compared \in Releases \ Reinstall
    BY <2>1 DEF Compared, Installable, DeliveryInv, TypeOK, Optional
  <2> QED BY <1>5, <1>6, <2>1 DEF Optional
<1>8. \A r \in Releases : Repaired(r)' => Repaired(r) \/ (tk = "ui" /\ r = report')
  BY <1>1, <1>4, Taken, NoLocalsTyped DEF Repaired
<1>9. ASSUME tk = "ui", report' \notin {report, None}
      PROVE  Due(report') /\ NoStranger
  BY <1>4, <1>6, <1>9, ComparedDue
<1>10. \A r \in Releases : tk = "ui" /\ r = report => Repaired(r)
  BY ReleaseFacts DEF Repaired
<1>11. \A r \in Releases : Repaired(r)' => Due(r)
  BY <1>5, <1>8, <1>9, <1>10, ReleaseFacts DEF RepairInv
<1>12. CASE tk = "ui" /\ report' \notin {report, None}
  BY <1>1, <1>2, <1>3, <1>7, <1>9, <1>11, <1>12, NoLocalsTyped, TaskKeeps
<1>13. CASE ~(tk = "ui" /\ report' \notin {report, None})
  <2>1. \A r \in Releases : Repaired(r)' => Repaired(r)
    BY <1>8, <1>10, <1>13, ReleaseFacts
  <2>2. CASE report' = report
    BY <1>1, <1>2, <1>3, <1>7, <1>11, <2>1, <2>2, NoLocalsTyped, TaskKeeps
  <2>3. CASE report' # report
    <3>1. NoStranger
      <4>1. Compared # None
        BY <1>1, <2>3
      <4> QED BY <4>1 DEF Compared, NoStranger, DeliveryInv, LauncherInv, Unknowing
    <3> QED BY <1>1, <1>2, <1>3, <1>7, <1>11, <2>1, <3>1, NoLocalsTyped, TaskKeeps
  <2> QED BY <2>2, <2>3
<1> QED BY <1>12, <1>13

LEMMA StartRepairKeeps ==
  ASSUME DeliveryInv, StartRepair
  PROVE  DeliveryInv'
<1>1. /\ Take("repair", "download")
      /\ arg' = [NoLocals EXCEPT !.release = Head(queue).release, !.repair = TRUE]
      /\ UNCHANGED <<root, checks, authority, session, store, tk, ui, env>>
  BY DEF StartRepair
<1> DEFINE r0 == Head(queue).release
<1>2. r0 \in Releases /\ Waits("repair", r0) /\ at = "idle" /\ at' = "download"
  BY <1>1, Taken DEF Optional
<1>3. Repaired(r0)
  BY <1>2, ReleaseFacts DEF Repaired
<1>4. RepairInv /\ Unknowing /\ report \in Optional(Releases \ Reinstall)
  BY DEF DeliveryInv, StagedInv, LauncherInv, TypeOK
<1>5. Due(r0) /\ NoStranger
  BY <1>2, <1>3, <1>4 DEF RepairInv, Unknowing, NoStranger
<1>6. /\ arg' \in Locals /\ arg'.release = r0 /\ arg'.repair = TRUE
      /\ arg'.pending = None
  BY <1>1, <1>2 DEF NoLocals, Locals, Optional, Dispositions
<1> HIDE DEF r0
<1>7. Locality'
  BY <1>2, <1>5, <1>6 DEF Locality, CopySteps, Due
<1>8. \A r \in Releases : (Held(r)' => Held(r)) /\ (Repaired(r)' => Repaired(r) \/ r = r0)
  BY <1>1, <1>2, <1>6, Taken DEF Held, Repaired, checks, ui
<1>9. \A r \in Releases : Repaired(r)' => Due(r)
  BY <1>4, <1>5, <1>8 DEF RepairInv
<1> QED BY <1>1, <1>4, <1>5, <1>6, <1>7, <1>8, <1>9, TaskKeeps DEF checks

LEMMA StartApplyKeeps ==
  ASSUME DeliveryInv, StartApply
  PROVE  DeliveryInv'
<1>1. /\ Take("apply", "apply")
      /\ arg' = [NoLocals EXCEPT !.release = Head(queue).release]
      /\ UNCHANGED <<root, checks, authority, session, store, tk, ui, env>>
  BY DEF StartApply
<1> DEFINE r0 == Head(queue).release
<1>2. r0 \in Releases /\ Waits("apply", r0) /\ at = "idle" /\ at' = "apply"
  BY <1>1, Taken DEF Optional
<1>3. Held(r0)
  BY <1>2, ReleaseFacts DEF Held
<1>4. RepairInv /\ Unknowing /\ report \in Optional(Releases \ Reinstall)
  BY DEF DeliveryInv, StagedInv, LauncherInv, TypeOK
<1>5. r0 \notin Reinstall /\ NoStranger
  BY <1>2, <1>3, <1>4, HeldFits DEF Fits, Unknowing, NoStranger
<1>6. /\ arg' \in Locals /\ arg'.release = r0 /\ arg'.repair = FALSE
      /\ arg'.pending = None
  BY <1>1, <1>2 DEF NoLocals, Locals, Optional, Dispositions
<1> HIDE DEF r0
<1>7. Locality'
  BY <1>2, <1>5, <1>6 DEF Locality, CopySteps
<1>8. \A r \in Releases : (Held(r)' => Held(r) \/ r = r0) /\ (Repaired(r)' => Repaired(r))
  BY <1>1, <1>2, <1>6, Taken DEF Held, Repaired, checks, ui
<1>9. \A r \in Releases : (Held(r)' => Held(r)) /\ (Repaired(r)' => Due(r))
  BY <1>3, <1>4, <1>8 DEF RepairInv
<1> QED BY <1>1, <1>4, <1>5, <1>6, <1>7, <1>9, TaskKeeps DEF checks

(***************************************************************************)
(* What is asked of the worker.                                            *)
(***************************************************************************)
LEMMA AskKeeps ==
  ASSUME DeliveryInv, tk = "ui", Len(queue) < MaxQueue,
         NEW t \in Tasks, queue' = Append(queue, t), t.kind # "startup",
         t.release = None <=> t.kind = "check",
         t.kind = "repair" => t.release = report,
         t.kind = "apply" => t.release \in {win, snap.pending},
         win' \in {win, snap.pending},
         IF t.kind = "apply" THEN applying = "no" /\ applying' = "submitted"
                             ELSE applying' = applying,
         UNCHANGED <<root, checks, authority, session, store, tk, at, arg, snap, started, env>>
  PROVE  DeliveryInv'
<1>1. /\ TypeOK /\ AuthorityInv /\ SessionInv /\ Locality /\ OneStartup /\ OneApply /\ Offered
      /\ Unknowing /\ HeldInv /\ RepairInv /\ CopyInv /\ NotSweptUnderSession /\ GateInv
  BY DEF DeliveryInv, LauncherInv, StagedInv
<1>2. /\ queue' \in Seq(Tasks) /\ Len(queue') = Len(queue) + 1
      /\ Len(queue) \in Nat /\ queue'[Len(queue) + 1] = t
      /\ \A i \in 1..Len(queue) : queue'[i] = queue[i] /\ queue[i] \in Tasks
      /\ \A kind, r : Waits(kind, r)' <=>
           Waits(kind, r) \/ t = [kind |-> kind, release |-> r]
  BY <1>1, QueueGrows DEF TypeOK
<1>3. TypeOK'
  <2>1. Authorities /\ Memory /\ Disk
    BY <1>1, TypeParts
  <2>2. Len(queue') <= MaxQueue
    BY <1>2, DeliveryAssumption
  <2>3. win' \in Optional(Releases)
    BY <1>1 DEF TypeOK, Snapshots
  <2>4. Authorities' /\ Memory' /\ Disk'
    BY <1>2, <2>1, <2>2, <2>3, AuthorityStays DEF Memory, Disk, root, checks, store, env
  <2> QED BY <2>4, TypePartsNext
<1>4. AuthorityInv' /\ SessionInv'
  BY <1>1, AuthorityStays DEF SessionInv, Holds, authority, store
<1>5. Blank' /\ Locality' /\ Offered'
  BY <1>1 DEF Blank, Locality, Offered, Windows
<1>6. OneStartup'
  <2>1. Checking' <=> Checking
    BY <1>2 DEF Checking, CopySteps
  <2>2. (started = ~Checking)'
    BY <1>1, <2>1 DEF OneStartup, Windows
  <2>3. ASSUME NEW i \in 1..Len(queue')
        PROVE  /\ queue'[i].kind = "startup" => i = 1 /\ at' = "idle"
               /\ queue'[i].release = None <=> queue'[i].kind \in {"startup", "check"}
    <3>1. CASE i \in 1..Len(queue)
      BY <1>1, <1>2, <3>1 DEF OneStartup
    <3>2. CASE i = Len(queue) + 1
      BY <1>2, <3>2
    <3> QED BY <1>2, <3>1, <3>2
  <2> QED BY <2>2, <2>3 DEF OneStartup
<1>7. \A r \in Releases : Held(r)' => Held(r)
  <2>1. \A r \in Releases : Waits("apply", r)' => Waits("apply", r) \/ r \in {win, snap.pending}
    BY <1>2
  <2> QED BY <2>1 DEF Held
<1>8. \A r \in Releases : Repaired(r)' => Repaired(r)
  <2>1. \A r \in Releases : Waits("repair", r)' => Waits("repair", r) \/ r = report
    BY <1>2
  <2> QED BY <2>1 DEF Repaired, checks
<1>9. Unknowing'
  BY <1>1, <1>7, <1>8 DEF Unknowing, checks
<1>10. HeldInv' /\ RepairInv' /\ NotSweptUnderSession'
  BY <1>1, <1>7, <1>8, SameDisk DEF HeldInv, RepairInv, env
<1>11. CopyInv' /\ GateInv'
  BY <1>1, SameDisk DEF CopyInv, GateInv, authority, store, env
<1>12. OneApply'
  <2>1. ASSUME t.kind # "apply", NEW i \in 1..Len(queue'), queue'[i].kind = "apply"
        PROVE  i \in 1..Len(queue) /\ queue[i].kind = "apply"
    BY <1>2, <2>1
  <2>2. CASE t.kind # "apply"
    <3>1. Queued("apply")' => Queued("apply")
      BY <2>1, <2>2 DEF Queued
    <3> QED BY <1>1, <2>1, <2>2, <3>1 DEF OneApply
  <2>3. CASE t.kind = "apply"
    <3>1. ~Queued("apply") /\ at \notin Applying
      BY <1>1, <2>3 DEF OneApply
    <3>2. ASSUME NEW i \in 1..Len(queue'), queue'[i].kind = "apply"
          PROVE  i = Len(queue) + 1
      BY <1>2, <3>1, <3>2 DEF Queued
    <3> QED BY <2>3, <3>1, <3>2 DEF OneApply
  <2> QED BY <2>2, <2>3
<1> QED BY <1>3, <1>4, <1>5, <1>6, <1>9, <1>10, <1>11, <1>12
        DEF DeliveryInv, LauncherInv, StagedInv

LEMMA RequestKeeps ==
  ASSUME DeliveryInv, RequestCheck \/ RequestRepair \/ SubmitApply
  PROVE  DeliveryInv'
<1>1. report \in Optional(Releases) /\ win \in Optional(Releases) /\ snap.pending \in Optional(Releases)
  BY DEF DeliveryInv, TypeOK, Snapshots, Optional
<1>2. CASE RequestCheck
  <2> DEFINE t == [kind |-> "check", release |-> None]
  <2>1. t \in Tasks /\ t.kind = "check" /\ t.release = None
    BY DEF Tasks, Optional
  <2>2. /\ tk = "ui" /\ Len(queue) < MaxQueue /\ queue' = Append(queue, t)
        /\ UNCHANGED <<root, checks, authority, session, store, tk, at, arg, ui, env>>
    BY <1>2 DEF RequestCheck
  <2> HIDE DEF t
  <2> QED BY <2>1, <2>2, AskKeeps DEF ui
<1>3. CASE RequestRepair
  <2> DEFINE t == [kind |-> "repair", release |-> report]
  <2>1. t \in Tasks /\ t.kind = "repair" /\ t.release = report
    BY <1>1 DEF Tasks, Optional
  <2>2. /\ tk = "ui" /\ Len(queue) < MaxQueue /\ queue' = Append(queue, t) /\ report # None
        /\ UNCHANGED <<root, checks, authority, session, store, tk, at, arg, ui, env>>
    BY <1>3 DEF RequestRepair
  <2> HIDE DEF t
  <2> QED BY <2>1, <2>2, AskKeeps DEF ui
<1>4. CASE SubmitApply
  <2> DEFINE t == [kind |-> "apply", release |-> WindowPending]
  <2>1. t \in Tasks /\ t.kind = "apply" /\ t.release = WindowPending
        /\ WindowPending \in {win, snap.pending}
    BY <1>1 DEF Tasks, Optional, WindowPending
  <2>2. /\ tk = "ui" /\ Len(queue) < MaxQueue /\ queue' = Append(queue, t)
        /\ WindowPending # None /\ win' = WindowPending
        /\ applying = "no" /\ applying' = "submitted"
        /\ UNCHANGED <<root, checks, authority, session, store, tk, at, arg, snap, started, env>>
    BY <1>4 DEF SubmitApply
  <2> HIDE DEF t, WindowPending
  <2> QED BY <2>1, <2>2, AskKeeps
<1> QED BY <1>2, <1>3, <1>4

(***************************************************************************)
(* What a session does to the staged generations.                          *)
(***************************************************************************)
LEMMA SessionTrial ==
  ASSUME DeliveryInv, session # None
  PROVE  /\ trial = session.release /\ trial \in Releases /\ trial # None
         /\ session \in Sessions
         /\ at = "handoff" => session.by = "worker" /\ session.stage = "ready"
         /\ applying = "prepared" => session.by = "worker" /\ session.stage = "applied"
BY TypeParts, SessionFields, ReleaseFacts DEF DeliveryInv, SessionInv, Holds

\* What is handed over is the release of the authority, and it is staged.
LEMMA BegunFits ==
  ASSUME DeliveryInv, NEW r \in Releases, Held(r), NEW by \in {"worker", "close"},
         BeginAccepted(by, r), UNCHANGED <<store, damage>>
  PROVE  /\ Authorities' /\ AuthorityInv'
         /\ session = None /\ session' \in Sessions /\ session' # None
         /\ session'.by = by /\ session'.release = r /\ session'.stage = "ready"
         /\ trial = None /\ trial' = r /\ r \notin Reinstall
         /\ ptr # None /\ r <= ptr
         /\ UNCHANGED <<committed, observed>>
         /\ \A x \in Releases : (Fits(x) => Fits(x)') /\ (Due(x) => Due(x)')
         /\ NotSweptUnderSession' /\ ~Waiting'
<1>1. Fits(r) /\ Authorities /\ AuthorityInv /\ Disk
  BY HeldFits, TypeParts DEF DeliveryInv
<1>2. r \in Releases \ Reinstall /\ committed < r /\ r <= observed /\ ptr # None /\ r <= ptr
  BY <1>1 DEF Fits
<1>3. /\ Authorities' /\ AuthorityInv'
      /\ session = None /\ session' \in Sessions /\ session' # None
      /\ session'.by = by /\ session'.release = r /\ session'.stage = "ready"
      /\ trial = None /\ trial' = r /\ observed' = r /\ observed <= r
      /\ failed' = None /\ UNCHANGED <<committed, highwater>>
      /\ r = observed => failed # r \/ r = committed
  BY <1>1, <1>2, Begun
<1>4. r = observed /\ failed # r
  BY <1>2, <1>3, Numbers
<1>5. ASSUME NEW x \in Releases, Fits(x) PROVE Fits(x)'
  <2>1. /\ x \notin Reinstall /\ committed < x /\ x <= observed /\ x <= ptr
        /\ damage = 0 /\ ~Blocked /\ x = observed /\ failed # x =>
             ptr = x /\ gens[x] = "whole"
    BY <1>5 DEF Fits
  <2>2. ~Blocked
    BY <1>3 DEF Blocked
  <2>3. damage = 0 /\ x = observed => ptr = x /\ gens[x] = "whole"
    BY <1>4, <2>1, <2>2
  <2> QED BY <1>2, <1>3, <1>4, <2>1, <2>3 DEF Fits, store
<1>6. ASSUME NEW x \in Releases, Due(x) PROVE Due(x)'
  BY <1>3, <1>6 DEF Due, Blocked
<1>7. NotSweptUnderSession'
  <2>1. damage = 0 => gens[r] = "whole"
    BY <1>1, <1>3, <1>4 DEF Fits, Blocked
  <2> QED BY <1>3, <2>1 DEF NotSweptUnderSession, store
<1>8. ~Waiting'
  BY <1>3, ReleaseFacts DEF Waiting
<1> QED BY <1>2, <1>3, <1>4, <1>5, <1>6, <1>7, <1>8

LEMMA EndedFits ==
  ASSUME DeliveryInv, NEW by \in {"worker", "close"}, PrepareFails(by),
         UNCHANGED <<store, damage>>
  PROVE  /\ Authorities' /\ AuthorityInv' /\ Holds(by, "ready") /\ session' = None
         /\ UNCHANGED <<committed, observed>>
         /\ \A x \in Releases : (Fits(x) => Fits(x)') /\ (Due(x) => Due(x)')
         /\ NotSweptUnderSession' /\ ~Waiting'
<1>1. /\ Authorities' /\ AuthorityInv' /\ Holds(by, "ready") /\ session' = None
      /\ UNCHANGED <<committed, highwater, observed>>
      /\ \/ UNCHANGED <<trial, failed>>
         \/ trial' = None /\ failed' = observed
  BY Ended, TypeParts DEF DeliveryInv
<1>2. trial # None /\ ~Blocked
  BY <1>1, SessionTrial DEF Holds, Blocked
<1>3. ASSUME NEW x \in Releases, Fits(x) PROVE Fits(x)'
  BY <1>1, <1>2, <1>3 DEF Fits, Blocked, store
<1>4. ASSUME NEW x \in Releases, Due(x) PROVE Due(x)'
  BY <1>1, <1>2, <1>4 DEF Due
<1>5. ~Waiting'
  BY <1>1, <1>2 DEF Waiting, Loadable
<1> QED BY <1>1, <1>3, <1>4, <1>5 DEF NotSweptUnderSession

LEMMA AppliedFits ==
  ASSUME DeliveryInv, NEW by \in {"worker", "close"}, ApplyAccepted(by),
         UNCHANGED <<store, damage>>
  PROVE  /\ Authorities' /\ AuthorityInv' /\ Holds(by, "ready") /\ UNCHANGED authority
         /\ session' \in Sessions /\ session'.by = by /\ session'.stage = "applied"
         /\ session'.release = session.release
         /\ \A x \in Releases : (Fits(x) => Fits(x)') /\ (Due(x) => Due(x)')
         /\ NotSweptUnderSession' /\ ~Waiting'
<1>1. /\ Holds(by, "ready") /\ UNCHANGED authority
      /\ session' \in Sessions /\ session'.by = by /\ session'.stage = "applied"
      /\ session'.release = session.release
  BY Applied, TypeParts DEF DeliveryInv
<1>2. Authorities' /\ AuthorityInv'
  BY <1>1, AuthorityStays, TypeParts DEF DeliveryInv
<1>3. trial # None /\ ~Blocked
  BY <1>1, SessionTrial DEF Holds, Blocked
<1>4. ASSUME NEW x \in Releases, Fits(x) PROVE Fits(x)'
  BY <1>1, <1>3, <1>4 DEF Fits, store, authority
<1>5. ASSUME NEW x \in Releases, Due(x) PROVE Due(x)'
  BY <1>1, <1>3, <1>5 DEF Due, authority
<1>6. ~Waiting'
  BY <1>1, <1>3 DEF Waiting, authority
<1> QED BY <1>1, <1>2, <1>4, <1>5, <1>6 DEF NotSweptUnderSession

LEMMA AbortedFits ==
  ASSUME DeliveryInv, applying = "prepared", Abort("worker"), UNCHANGED <<store, damage>>
  PROVE  /\ Authorities' /\ AuthorityInv' /\ session' = None /\ UNCHANGED authority
         /\ at # "handoff"
         /\ \A x \in Releases : (Fits(x) => Fits(x)') /\ (Due(x) => Due(x)')
         /\ NotSweptUnderSession'
<1>1. session # None /\ session' = None /\ UNCHANGED authority
  BY DEF Abort
<1>2. Authorities' /\ AuthorityInv'
  BY <1>1, AuthorityStays, TypeParts DEF DeliveryInv
<1>3. Blocked /\ Blocked' /\ at # "handoff"
  BY <1>1, SessionTrial DEF Holds, Blocked, authority
<1>4. ASSUME NEW x \in Releases, Fits(x) PROVE Fits(x)'
  BY <1>1, <1>3, <1>4 DEF Fits, store, authority
<1>5. ASSUME NEW x \in Releases, Due(x) PROVE Due(x)'
  BY <1>1, <1>3, <1>5 DEF Due, store, authority
<1> QED BY <1>1, <1>2, <1>3, <1>4, <1>5 DEF NotSweptUnderSession

(***************************************************************************)
(* The worker hands over what was asked for.                               *)
(***************************************************************************)
LEMMA ApplyFacts ==
  ASSUME DeliveryInv, at \in {"apply", "handoff"}
  PROVE  /\ arg.release \in Releases /\ Held(arg.release) /\ arg.repair = FALSE
         /\ arg.pending = None /\ tk \in Windows /\ NoStranger
         /\ ~Checking /\ started
<1>1. /\ Locality /\ OneStartup
  BY DEF DeliveryInv, LauncherInv
<1>2. /\ arg.release \in Releases /\ arg.repair = FALSE /\ arg.pending = None
  BY <1>1, WorkerKnows DEF Locality, CopySteps
<1>3. Held(arg.release)
  BY <1>2, ReleaseFacts DEF Held
<1>4. tk \in Windows /\ NoStranger /\ ~Checking
  BY NoStartup, Known DEF Checking, CopySteps
<1> QED BY <1>1, <1>2, <1>3, <1>4 DEF OneStartup

LEMMA ApplyMoves ==
  ASSUME DeliveryInv, at \in {"apply", "handoff"},
         UNCHANGED <<root, checks, store, tk, queue, snap, started, win, env>>,
         \/ at' = "handoff" /\ arg' = arg /\ applying' = applying
         \/ at' = "idle" /\ arg' = NoLocals /\ applying' \in {"failed", "prepared"},
         session' \in Optional(Sessions),
         session' = None \/ session'.by # "nobody",
         Authorities', AuthorityInv', SessionInv', NotSweptUnderSession',
         \A x \in Releases : (Fits(x) => Fits(x)') /\ (Due(x) => Due(x)'),
         Waiting' => Waiting
  PROVE  DeliveryInv'
<1>1. /\ TypeOK /\ Locality /\ OneStartup /\ OneApply /\ Offered /\ Unknowing /\ HeldInv /\ RepairInv
      /\ CopyInv /\ GateInv
  BY DEF DeliveryInv, LauncherInv, StagedInv
<1>2. /\ arg' \in Locals /\ arg'.repair = FALSE /\ arg'.pending = None
      /\ arg'.release \in Optional(Releases) /\ tk \in Windows
      /\ at' \in {"handoff", "idle"}
  BY ApplyFacts, WorkerKnows, NoLocalsTyped DEF Optional
<1>3. TypeOK'
  <2>1. Memory /\ Disk
    BY <1>1, TypeParts
  <2>2. Memory' /\ Disk'
    BY <1>2, <2>1 DEF Memory, Disk, Phases, root, checks, store, env
  <2> QED BY <2>2, TypePartsNext
<1>4. Blank' /\ OneApply' /\ Offered' /\ Unknowing'
  <2>1. OneApply'
    BY <1>1 DEF OneApply, Applying, Queued
  <2> QED BY <1>1, <1>2, <2>1 DEF Blank, Offered, Unknowing
<1>5. Locality'
  BY <1>1, <1>2 DEF Locality, CopySteps
<1>6. OneStartup'
  <2>1. ~Checking' /\ started
    BY <1>2, ApplyFacts, WaitsSame DEF Checking, CopySteps
  <2>2. (started = ~Checking)'
    BY <1>1, <2>1 DEF TypeOK
  <2>3. at # "idle"
    OBVIOUS
  <2> QED BY <1>1, <2>2, <2>3 DEF OneStartup
<1>7. \A r \in Releases : (Held(r)' => Held(r)) /\ (Repaired(r)' => Repaired(r))
  BY <1>2, WaitsSame DEF Held, Repaired, checks
<1>8. HeldInv' /\ RepairInv'
  BY <1>1, <1>7 DEF HeldInv, RepairInv
<1>9. CopyInv'
  BY <1>1, <1>2 DEF CopyInv, CopySteps, store
<1>10. GateInv'
  BY <1>1, <1>2 DEF GateInv
<1> QED BY <1>3, <1>4, <1>5, <1>6, <1>8, <1>9, <1>10
        DEF DeliveryInv, LauncherInv, StagedInv

LEMMA ApplyKeeps ==
  ASSUME DeliveryInv, ApplyBegin \/ ApplyBlocked \/ ApplyCopied \/ ApplyFails
  PROVE  DeliveryInv'
<1>1. /\ TypeOK /\ AuthorityInv /\ SessionInv /\ NotSweptUnderSession /\ Authorities
      /\ session \in Optional(Sessions)
  BY TypeParts DEF DeliveryInv, StagedInv, TypeOK
<1>2. CASE ApplyBegin
  <2>1. /\ at = "apply" /\ BeginAccepted("worker", arg.release)
        /\ at' = "handoff" /\ arg' = arg /\ queue' = queue
        /\ UNCHANGED <<root, checks, store, tk, ui, env>>
    BY <1>2 DEF ApplyBegin, Step
  <2>2. /\ arg.release \in Releases /\ Held(arg.release) /\ started
    BY <2>1, ApplyFacts
  <2>3. /\ Authorities' /\ AuthorityInv'
        /\ session = None /\ session' \in Sessions /\ session' # None
        /\ session'.by = "worker" /\ session'.release = arg.release
        /\ session'.stage = "ready" /\ trial' = arg.release
        /\ ptr # None /\ arg.release <= ptr
        /\ \A x \in Releases : (Fits(x) => Fits(x)') /\ (Due(x) => Due(x)')
        /\ NotSweptUnderSession' /\ ~Waiting'
    BY <2>1, <2>2, BegunFits DEF env
  <2>4. SessionInv'
    BY <1>1, <2>1, <2>2, <2>3 DEF SessionInv, Holds, store, ui
  <2> QED BY <1>1, <2>1, <2>3, <2>4, ApplyMoves DEF ui, Optional, TypeOK
<1>3. CASE ApplyBlocked
  <2>1. /\ at = "apply" /\ at' = "idle" /\ arg' = NoLocals /\ queue' = queue
        /\ applying' = "failed" /\ UNCHANGED <<authority, session>>
        /\ UNCHANGED <<root, checks, store, tk, snap, started, win, env>>
    BY <1>3 DEF ApplyBlocked, ApplyEnds, Step, BeginRefused, NoHelper
  <2>2. Authorities' /\ AuthorityInv' /\ NotSweptUnderSession' /\ (Waiting' => Waiting)
        /\ \A x \in Releases : (Fits(x) => Fits(x)') /\ (Due(x) => Due(x)')
    BY <1>1, <2>1, AuthorityStays, SameDisk DEF env
  <2>3. NoStranger
    BY <2>1, ApplyFacts
  <2>4. SessionInv'
    <3>1. applying # "prepared" /\ (session # None /\ session.by = "worker" => session.stage # "applied")
      BY <1>1, <2>1 DEF SessionInv, DeliveryInv, LauncherInv, OneApply, Applying
    <3> QED BY <1>1, <2>1, <3>1 DEF SessionInv, Holds, authority, store
  <2> QED BY <1>1, <2>1, <2>2, <2>3, <2>4, ApplyMoves DEF NoStranger
<1>4. CASE ApplyCopied
  <2>1. /\ at = "handoff" /\ ApplyAccepted("worker")
        /\ at' = "idle" /\ arg' = NoLocals /\ queue' = queue /\ applying' = "prepared"
        /\ UNCHANGED <<root, checks, store, tk, snap, started, win, env>>
    BY <1>4 DEF ApplyCopied, ApplyEnds, Step
  <2>2. /\ Authorities' /\ AuthorityInv' /\ Holds("worker", "ready") /\ UNCHANGED authority
        /\ session' \in Sessions /\ session'.by = "worker" /\ session'.stage = "applied"
        /\ session'.release = session.release
        /\ \A x \in Releases : (Fits(x) => Fits(x)') /\ (Due(x) => Due(x)')
        /\ NotSweptUnderSession' /\ ~Waiting'
    BY <2>1, AppliedFits DEF env
  <2>3. SessionInv'
    BY <1>1, <2>1, <2>2, SessionAssumption DEF SessionInv, Holds, authority, store
  <2> QED BY <1>1, <2>1, <2>2, <2>3, ApplyMoves DEF Optional
<1>5. CASE ApplyFails
  <2>1. /\ at = "handoff" /\ PrepareFails("worker")
        /\ at' = "idle" /\ arg' = NoLocals /\ queue' = queue /\ applying' = "failed"
        /\ UNCHANGED <<root, checks, store, tk, snap, started, win, env>>
    BY <1>5 DEF ApplyFails, ApplyEnds, Step
  <2>2. /\ Authorities' /\ AuthorityInv' /\ session' = None
        /\ \A x \in Releases : (Fits(x) => Fits(x)') /\ (Due(x) => Due(x)')
        /\ NotSweptUnderSession' /\ ~Waiting'
    BY <2>1, EndedFits DEF env
  <2>3. SessionInv'
    BY <2>1, <2>2 DEF SessionInv
  <2> QED BY <1>1, <2>1, <2>2, <2>3, ApplyMoves DEF Optional
<1> QED BY <1>2, <1>3, <1>4, <1>5

(***************************************************************************)
(* The window, and its end.                                                *)
(***************************************************************************)
LEMMA WindowMoves ==
  ASSUME DeliveryInv, tk \in Windows, tk' \in Windows, tk' = "ui" => tk = "ui",
         UNCHANGED <<root, checks, store, worker, snap, started, env>>,
         win' \in {win, snap.pending}, tk' = "offer" => win' # None,
         applying' = applying \/ (applying' = "no" /\ applying \in {"failed", "prepared"}),
         session' \in Optional(Sessions),
         session' = None \/ session' = session \/ session'.by # "nobody",
         Authorities', AuthorityInv', SessionInv', NotSweptUnderSession',
         UNCHANGED <<committed, observed>>,
         \A x \in Releases : (Fits(x) => Fits(x)') /\ (Due(x) => Due(x)'),
         tk' = "ui" /\ Waiting' => Waiting
  PROVE  DeliveryInv'
<1>1. /\ TypeOK /\ Locality /\ OneStartup /\ OneApply /\ Unknowing /\ HeldInv /\ RepairInv
      /\ CopyInv /\ GateInv
  BY DEF DeliveryInv, LauncherInv, StagedInv
<1>2. TypeOK'
  <2>1. Memory /\ Disk
    BY <1>1, TypeParts
  <2>2. win' \in Optional(Releases) /\ tk' \in Tks
    BY <1>1 DEF TypeOK, Snapshots, Windows, Tks
  <2>3. Memory' /\ Disk'
    BY <2>1, <2>2 DEF Memory, Disk, root, checks, store, worker, env
  <2> QED BY <2>3, TypePartsNext
<1>3. Blank' /\ Offered' /\ Locality'
  BY <1>1 DEF Blank, Offered, Locality, worker
<1>4. \A kind, r : Waits(kind, r)' <=> Waits(kind, r)
  BY WaitsSame DEF worker
<1>5. OneStartup'
  <2>1. Checking' <=> Checking
    BY <1>4 DEF Checking, CopySteps, worker
  <2>2. (started = ~Checking)'
    BY <1>1, <2>1 DEF OneStartup
  <2> QED BY <1>1, <2>2 DEF OneStartup, worker
<1>6. OneApply'
  BY <1>1 DEF OneApply, Queued, worker
<1>7. \A r \in Releases : (Held(r)' => Held(r)) /\ (Repaired(r)' => Repaired(r))
  BY <1>4 DEF Held, Repaired, checks, worker
<1>8. HeldInv' /\ RepairInv'
  BY <1>1, <1>7 DEF HeldInv, RepairInv
<1>9. Unknowing'
  BY <1>1, <1>7 DEF Unknowing, checks, worker
<1>10. CopyInv'
  <2>1. PointsAbove(arg.release)' <=> PointsAbove(arg.release)
    BY DEF PointsAbove, store, worker
  <2> QED BY <1>1, <2>1 DEF CopyInv, store, worker, env
<1>11. GateInv'
  BY <1>1 DEF GateInv, worker
<1> QED BY <1>2, <1>3, <1>5, <1>6, <1>8, <1>9, <1>10, <1>11
        DEF DeliveryInv, LauncherInv, StagedInv

LEMMA WindowKeeps ==
  ASSUME DeliveryInv, TakeAnswer \/ TkApplyFailed \/ CloseBeginRefused
  PROVE  DeliveryInv'
<1>1. /\ tk \in Windows /\ tk' \in Windows /\ (tk' = "ui" => tk = "ui") /\ tk' # "offer"
      /\ UNCHANGED <<root, checks, authority, session, store, worker, snap, started, env>>
      /\ win' \in {win, snap.pending}
      /\ \/ applying' = applying
         \/ applying' = "no" /\ applying = "failed"
  BY DEF TakeAnswer, TkApplyFailed, CloseBeginRefused, BeginRefused, NoHelper, Windows, ui
<1>2. win' = win \/ tk = "ui"
  BY DEF TakeAnswer, TkApplyFailed, CloseBeginRefused, ui
<1>3. /\ AuthorityInv /\ SessionInv /\ Authorities /\ NotSweptUnderSession
      /\ session \in Optional(Sessions)
  BY TypeParts DEF DeliveryInv, StagedInv, TypeOK
<1>4. /\ Authorities' /\ AuthorityInv' /\ NotSweptUnderSession' /\ (Waiting' => Waiting)
      /\ \A x \in Releases : (Fits(x) => Fits(x)') /\ (Due(x) => Due(x)')
  BY <1>1, <1>3, AuthorityStays, SameDisk DEF env
<1>5. SessionInv'
  <2>1. tk' = tk \/ tk = "offer"
    BY DEF TakeAnswer, TkApplyFailed, CloseBeginRefused
  <2>2. session # None /\ session.by = "close" => tk' = "closing" /\ session.release = win'
    BY <1>1, <1>2, <1>3, <2>1 DEF SessionInv
  <2>3. session # None => session.by # "boot"
    BY <1>1, <1>3 DEF SessionInv, Windows
  <2> QED BY <1>1, <1>3, <2>2, <2>3 DEF SessionInv, Holds, authority, store, worker
<1> QED BY <1>1, <1>3, <1>4, <1>5, WindowMoves DEF authority

LEMMA CloseKeeps ==
  ASSUME DeliveryInv, Close \/ AbortCallback
  PROVE  DeliveryInv'
<1>1. /\ tk \in {"ui", "closing"} /\ tk' \in {"offer", "closing"}
      /\ win' \in {win, snap.pending} /\ (tk' = "offer" => win' # None)
      /\ UNCHANGED <<root, checks, store, worker, snap, started, env>>
  BY DEF Close, AbortCallback, WindowPending
<1>2. \/ UNCHANGED <<authority, session, applying>> /\ tk = "ui"
      \/ applying = "prepared" /\ Abort("worker") /\ applying' = "no"
  BY DEF Close, AbortCallback
<1>3. /\ AuthorityInv /\ SessionInv /\ Authorities /\ NotSweptUnderSession
      /\ session \in Optional(Sessions)
  BY TypeParts DEF DeliveryInv, StagedInv, TypeOK
<1>4. tk \in Windows /\ tk' \in Windows /\ tk' # "ui"
  BY <1>1 DEF Windows
<1>5. CASE UNCHANGED <<authority, session, applying>> /\ tk = "ui"
  <2>1. /\ Authorities' /\ AuthorityInv' /\ NotSweptUnderSession'
        /\ \A x \in Releases : (Fits(x) => Fits(x)') /\ (Due(x) => Due(x)')
    BY <1>1, <1>3, <1>5, AuthorityStays, SameDisk DEF env
  <2>2. SessionInv'
    BY <1>1, <1>3, <1>5 DEF SessionInv, Holds, authority, store, worker
  <2>3. UNCHANGED <<committed, observed>> /\ session' \in Optional(Sessions)
    BY <1>3, <1>5 DEF authority
  <2> QED BY <1>1, <1>4, <1>5, <2>1, <2>2, <2>3, WindowMoves
<1>6. CASE applying = "prepared" /\ Abort("worker") /\ applying' = "no"
  <2>1. /\ Authorities' /\ AuthorityInv' /\ session' = None /\ UNCHANGED authority
        /\ at # "handoff"
        /\ \A x \in Releases : (Fits(x) => Fits(x)') /\ (Due(x) => Due(x)')
        /\ NotSweptUnderSession'
    BY <1>1, <1>6, AbortedFits DEF env
  <2>2. SessionInv'
    BY <1>1, <1>6, <2>1 DEF SessionInv, worker
  <2>3. UNCHANGED <<committed, observed>> /\ session' \in Optional(Sessions)
    BY <2>1 DEF authority, Optional
  <2> QED BY <1>1, <1>4, <1>6, <2>1, <2>2, <2>3, WindowMoves
<1> QED BY <1>2, <1>5, <1>6

LEMMA OfferKeeps ==
  ASSUME DeliveryInv, CloseBegin \/ CloseApplied \/ CloseFails
  PROVE  DeliveryInv'
<1>1. /\ tk \in {"offer", "closing"} /\ tk' = "closing"
      /\ UNCHANGED <<root, checks, store, worker, ui, env>>
      /\ UNCHANGED <<snap, started, win, applying>>
  BY DEF CloseBegin, CloseApplied, CloseFails, ui
<1>2. SessionInv /\ Offered /\ tk \in Windows /\ tk' \in Windows /\ win \in Optional(Releases)
  BY <1>1 DEF DeliveryInv, LauncherInv, Windows, TypeOK
<1>3. CASE CloseBegin
  <2>1. tk = "offer" /\ BeginAccepted("close", win)
    BY <1>3 DEF CloseBegin
  <2>2. win \in Releases /\ Held(win)
    BY <1>2, <2>1 DEF Offered, Optional, Held
  <2>3. /\ Authorities' /\ AuthorityInv'
        /\ session = None /\ session' \in Sessions /\ session' # None
        /\ session'.by = "close" /\ session'.release = win
        /\ session'.stage = "ready" /\ trial' = win
        /\ UNCHANGED <<committed, observed>>
        /\ \A x \in Releases : (Fits(x) => Fits(x)') /\ (Due(x) => Due(x)')
        /\ NotSweptUnderSession' /\ ~Waiting'
    BY <1>1, <2>1, <2>2, BegunFits DEF env
  <2>4. SessionInv'
    BY <1>1, <1>2, <2>3 DEF SessionInv, Holds, worker
  <2> QED BY <1>1, <1>2, <2>3, <2>4, WindowMoves DEF Optional
<1>4. CASE CloseApplied
  <2>1. ApplyAccepted("close")
    BY <1>4 DEF CloseApplied
  <2>2. /\ Authorities' /\ AuthorityInv' /\ Holds("close", "ready") /\ UNCHANGED authority
        /\ session' \in Sessions /\ session'.by = "close" /\ session'.stage = "applied"
        /\ session'.release = session.release
        /\ \A x \in Releases : (Fits(x) => Fits(x)') /\ (Due(x) => Due(x)')
        /\ NotSweptUnderSession'
    BY <1>1, <2>1, AppliedFits DEF env
  <2>3. SessionInv'
    BY <1>1, <1>2, <2>2, SessionAssumption DEF SessionInv, Holds, authority, worker
  <2> QED BY <1>1, <1>2, <2>2, <2>3, WindowMoves DEF Optional, authority
<1>5. CASE CloseFails
  <2>1. PrepareFails("close")
    BY <1>5 DEF CloseFails
  <2>2. /\ Authorities' /\ AuthorityInv' /\ Holds("close", "ready") /\ session' = None
        /\ UNCHANGED <<committed, observed>>
        /\ \A x \in Releases : (Fits(x) => Fits(x)') /\ (Due(x) => Due(x)')
        /\ NotSweptUnderSession'
    BY <1>1, <2>1, EndedFits DEF env
  <2>3. SessionInv'
    BY <1>1, <1>2, <2>2 DEF SessionInv, Holds, worker
  <2> QED BY <1>1, <1>2, <2>2, <2>3, WindowMoves DEF Optional
<1> QED BY <1>3, <1>4, <1>5

(***************************************************************************)
(* Every step.                                                             *)
(***************************************************************************)
LEMMA StepKeeps ==
  ASSUME DeliveryInv, [Next]_vars
  PROVE  DeliveryInv'
<1>1. CASE Helper \/ Fault
  BY <1>1, HelperKeeps, EndKeeps, OutsideKeeps, DamageKeeps DEF Helper, Fault
<1>2. CASE Boot
  BY <1>2, StartKeeps, EndKeeps, ClearStalePointerKeeps, WindowOpens, BootBeginKeeps,
     BootAppliedKeeps DEF Boot
<1>3. CASE Check
  BY <1>3, StartupReadsKeeps, StartupUnreadableKeeps, CheckEnds, FetchKeeps, ResolveKeeps,
     AdmitKeeps, StageEnds, StageUnreadableKeeps, StageMissingKeeps, DownloadKeeps,
     RemoveOldKeeps, PlaceKeeps, PointKeeps, SweepKeeps, BrokenKeeps, PublishKeeps DEF Check
<1>4. CASE Repair
  BY <1>4, FileCheckKeeps, StartRepairKeeps, RepairFailsKeeps DEF Repair
<1>5. CASE Apply
  BY <1>5, StartApplyKeeps, ApplyKeeps DEF Apply
<1>6. CASE Window
  BY <1>6, WindowKeeps, EndKeeps DEF Window
<1>7. CASE Closing
  BY <1>7, CloseKeeps, WindowKeeps, OfferKeeps, EndKeeps DEF Closing
<1>8. CASE User
  BY <1>8, StartKeeps, RequestKeeps, CloseKeeps, OutsideKeeps DEF User
<1>9. CASE UNCHANGED vars
  BY <1>9, OutsideKeeps
<1> QED BY <1>1, <1>2, <1>3, <1>4, <1>5, <1>6, <1>7, <1>8, <1>9 DEF Next

\* The memory of the launcher, its sessions, the staged generations and the
\* gate agree, whatever is published, damaged, killed or closed in between.
THEOREM DeliveryHolds == Spec => []DeliveryInv
<1>1. Init => DeliveryInv
  BY Initially
<1>2. DeliveryInv /\ [Next]_vars => DeliveryInv'
  BY StepKeeps
<1> QED BY <1>1, <1>2, PTL DEF Spec

\* No worker removes or sweeps the generation that a session is about to copy,
\* and a release that this updater cannot install never becomes the floor.
THEOREM StoreIsKept == Spec => []StoreOK
<1>1. DeliveryInv => StoreOK
  BY DEF DeliveryInv, StagedInv, AuthorityInv, StoreOK
<1> QED BY <1>1, DeliveryHolds, PTL

\* The login gate stays shut while a staged update waits for the helper.
THEOREM GateStaysShut == Spec => []GateHolds
<1>1. DeliveryInv => GateHolds
  <2>1. SUFFICES ASSUME DeliveryInv, tk = "ui", LoginOpen, trial = None, Loaded # None
                 PROVE  FALSE
    BY DEF GateHolds
  <2>2. Waiting
    BY <2>1 DEF Loaded, Readable, Waiting
  <2> QED BY <2>1, <2>2 DEF DeliveryInv, GateInv, Open, LoginOpen
<1> QED BY <1>1, DeliveryHolds, PTL

(***************************************************************************)
(* The staged release stays.                                               *)
(***************************************************************************)
LEMMA StoreSteps ==
  ASSUME [Next]_vars
  PROVE  \/ UNCHANGED store
         \/ ClearStalePointer \/ GenerationDamaged \/ StartupReads
         \/ RemoveOld \/ Place \/ Point \/ Sweep
<1>1. CASE Helper \/ Fault
  BY <1>1 DEF Helper, Fault, Activate, Crash, HelperKilled, ReleasePublished, store
<1>2. CASE Boot
  BY <1>2 DEF Boot, SyncNothing, SyncAside, SyncLauncher, SyncCore, SyncCoreFails, NothingStale,
     BootWithoutUpdate, BootBegin, BootBeginRefused, BootApplied, BootFails, BootHandsOff, store
<1>3. CASE Check
  BY <1>3 DEF Check, StartupUnreadable, NothingServed, CheckFails, Fetch, Resolve,
     AdmitAccepted, AdmitAnswerLost, AdmitRefused, StageExisting, StageRefused,
     StageUnreadable, StageMissing, DownloadFails, Download, PlaceFails, Broken, Publish, store
<1>4. CASE Repair \/ Apply
  BY <1>4 DEF Repair, Apply, FileCheck, StartRepair, RepairFails, StartApply, ApplyBegin,
     ApplyBlocked, ApplyCopied, ApplyFails, ApplyEnds, store
<1>5. CASE Window \/ Closing
  BY <1>5 DEF Window, Closing, TakeAnswer, TkApplyFailed, TkRelaunch, AbortCallback,
     CloseBegin, CloseBeginRefused, CloseApplied, CloseFails, Exit, store
<1>6. CASE User
  BY <1>6 DEF User, Launch, RequestCheck, RequestRepair, SubmitApply, Close, GameChanges, store
<1>7. CASE UNCHANGED vars
  BY <1>7 DEF vars
<1> QED BY <1>1, <1>2, <1>3, <1>4, <1>5, <1>6, <1>7 DEF Next

LEMMA StagedStays ==
  ASSUME DeliveryInv, [Next]_vars, NEW r \in Releases, Loadable(r), ~Loadable(r)',
         authority' = authority, damage' = damage
  PROVE  PointsAbove(r)' \/ trial = r
<1>1. /\ ptr = r /\ gens[r] = "whole" /\ highwater = r /\ committed < r
      /\ r \in Nat /\ r # None /\ committed \in Nat
  BY Numbers DEF Loadable
<1>2. ~(ptr' = r /\ gens'[r] = "whole")
  BY <1>1 DEF Loadable, authority
<1>3. /\ CopyInv /\ gens \in [Releases -> {"absent", "whole", "damaged"}]
  BY WorkerLocals
<1>4. CASE UNCHANGED store
  BY <1>1, <1>2, <1>4 DEF store
<1>5. CASE ClearStalePointer
  BY <1>1, <1>5 DEF ClearStalePointer, PointsUpTo
<1>6. CASE GenerationDamaged
  <2>1. damage \in Nat
    BY DeliveryAssumption DEF DeliveryInv, TypeOK
  <2> QED BY <1>6, <2>1 DEF GenerationDamaged
<1>7. CASE StartupReads
  BY <1>1, <1>2, <1>3, <1>7 DEF StartupReads
<1>8. CASE RemoveOld
  <2>1. /\ at = "remove" /\ ptr' = ptr
        /\ \A x \in Releases : x # arg.release => gens'[x] = gens[x]
    BY <1>3, <1>8 DEF RemoveOld
  <2>2. arg.release = r
    BY <1>1, <1>2, <2>1
  <2>3. arg.repair
    BY <1>1, <1>3, <2>1, <2>2 DEF CopyInv
  <2>4. Due(r)
    BY <2>1, <2>2, <2>3, CopyFacts DEF CopySteps
  <2>5. trial # None /\ trial <= r
    BY <1>1, <2>4 DEF Due, Blocked
  <2>6. trial = observed /\ r <= observed
    BY <1>1, <2>5 DEF DeliveryInv, AuthorityInv
  <2> QED BY <1>1, <2>5, <2>6, Numbers
<1>9. CASE Place
  BY <1>1, <1>2, <1>3, <1>9 DEF Place
<1>10. CASE Point
  <2>1. at = "point" /\ ptr' = arg.release /\ gens' = gens
    BY <1>10 DEF Point
  <2>2. arg.release \in Releases
    BY <2>1, CopyFacts DEF CopySteps
  <2>3. ~(r > arg.release) /\ ptr' # r
    BY <1>1, <1>2, <1>3, <2>1 DEF CopyInv, PointsAbove
  <2>4. ptr' \in Nat /\ ptr' # None
    BY <2>1, <2>2, Numbers
  <2>5. ptr' > r
    BY <1>1, <2>1, <2>3, <2>4
  <2> QED BY <2>4, <2>5 DEF PointsAbove
<1>11. CASE Sweep
  <2>1. ptr' = ptr /\ ptr = arg.release
        /\ gens' = [x \in Releases |-> IF x = arg.release THEN gens[x] ELSE "absent"]
    BY <1>3, <1>11 DEF Sweep, Swept, CopyInv
  <2> QED BY <1>1, <1>2, <2>1
<1> QED BY <1>4, <1>5, <1>6, <1>7, <1>8, <1>9, <1>10, <1>11, StoreSteps

\* A staged release that the helper would take is lost only to the disk, to the
\* authority, to a newer release or to the transaction on it.
THEOREM StagedIsNotLost == Spec => StagedSurvives
<1>1. DeliveryInv /\ [Next]_vars =>
        [\A r \in Releases :
           Loadable(r) /\ ~Loadable(r)' =>
             \/ authority' # authority \/ damage' # damage
             \/ PointsAbove(r)' \/ trial = r]_vars
  BY StagedStays
<1> QED BY <1>1, DeliveryHolds, PTL DEF Spec, StagedSurvives
================================================================================
