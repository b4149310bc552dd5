------------------------------ MODULE SlotStore ------------------------------
(***************************************************************************)
(* The two state slots of the updater.  A slot file holds one frame: a     *)
(* record of UpdateState, a torn frame, or a file of the wrong size.  Each *)
(* file has two contents: `cache`, what any process reads back, and        *)
(* `disk`, what a power loss leaves.  The slot files are opened without    *)
(* write-through, so only FlushFileBuffers makes the two equal.            *)
(***************************************************************************)
EXTENDS UpdateState

CONSTANTS Torn,    \* a frame whose checksum does not match
          Short    \* a slot file that is not SLOT_FRAME_SIZE bytes long

ASSUME FrameAssumption ==
  Torn \notin States /\ Short \notin States /\ Torn # Short

VARIABLES cache, disk

Slots == {"a", "b"}
Other(x) == IF x = "a" THEN "b" ELSE "a"
Frames == States \cup {Torn, Short}
IsState(f) == f \notin {Torn, Short}

\* select_active_slot: image img selects slot x.
Selects(img, x) ==
  LET this == img[x]
      that == img[Other(x)]
  IN
  /\ IsState(this) /\ Authenticated(this)
  /\ IsState(that) =>
       /\ Authenticated(that)
       /\ \/ /\ this.revision = that.revision + 1
             /\ ValidTransition(that, this)
          \/ /\ x = "a" /\ this = that
             /\ this.phase = "ENROLLING" /\ this.revision = 1

\* SELECTED, against REPAIR_REQUIRED.
Selected(img) == \E x \in Slots : Selects(img, x)
ActiveSlot(img) == CHOOSE x \in Slots : Selects(img, x)
Current(img) == img[ActiveSlot(img)]

\* SlotStore() refuses a slot file of the wrong size.
Openable(img) == \A x \in Slots : img[x] # Short

\* What write_state checks before it touches the inactive slot.
WriteChecked(img, s) ==
  /\ Selected(img)
  /\ s.revision = Current(img).revision + 1
  /\ ValidTransition(Current(img), s)

\* Mutant: the record is written over the one it succeeds.
InactiveSlotActive(img) == ActiveSlot(img)

InactiveSlot(img) == Other(ActiveSlot(img))

Dirty(x) == cache[x] # disk[x]

\* The images a power loss may leave: a slot that was not flushed keeps its
\* old frame, gets the new one, or is torn, and so is one being written.
PowerLossImages(writing) ==
  {img \in [Slots -> {cache[x] : x \in Slots} \cup {disk[x] : x \in Slots}
                     \cup {Torn}] :
     \A x \in Slots :
       \/ img[x] \in {cache[x], disk[x]}
       \/ img[x] = Torn /\ (Dirty(x) \/ x \in writing)}
=============================================================================
