----------------------------- MODULE FixedQueue -----------------------------
(***************************************************************************)
(* The ring of fixed_queue.c: pushing to a full ring overwrites the oldest *)
(* item, and items are counted back from the newest one.  One slot stays   *)
(* unused, so that a full ring is not taken for an empty one.              *)
(***************************************************************************)
EXTENDS Integers

CONSTANTS
  Size,   \* q->size
  Items,
  Blank   \* what a slot holds before it is first written

ASSUME FixedQueueAssumption ==
  /\ Size \in Nat \ {0, 1}
  /\ Blank \notin Items

VARIABLES
  current,  \* the slot of the next push
  first,    \* the oldest item, if first # current
  buffer

vars == <<current, first, buffer>>

Slots == 0..(Size - 1)

-----------------------------------------------------------------------------
\* fixed_queue_size
QueueSize == IF current >= first THEN current - first ELSE Size - first + current

\* The slot after s, and the one k before it.
After(s) == IF s + 1 >= Size THEN 0 ELSE s + 1
Back(s, k) == IF s - k < 0 THEN s - k + Size ELSE s - k

\* The slot of the item at an offset from the newest one.
SlotAt(offset) == Back(current, offset + 1)

Offsets == 0..(QueueSize - 1)

\* fixed_queue_peekn, NULL for an offset out of range
Peekn(offset, NULL) == IF offset \in Offsets THEN buffer[SlotAt(offset)] ELSE NULL

\* fixed_queue_get_index
IndexOf(d) == {k \in Offsets : buffer[SlotAt(k)] = d}
GetIndex(d) == IF IndexOf(d) = {} THEN -1
               ELSE CHOOSE k \in IndexOf(d) : \A j \in IndexOf(d) : k <= j

-----------------------------------------------------------------------------
Init ==
  /\ current = 0
  /\ first = 0
  /\ buffer = [s \in Slots |-> Blank]

\* fixed_queue_move_next
MoveNext ==
  /\ current' = After(current)
  /\ first' = IF After(current) = first THEN After(first) ELSE first

\* fixed_queue_push
Push(d) == buffer' = [buffer EXCEPT ![current] = d] /\ MoveNext

\* fixed_queue_pop
Pop ==
  /\ first # current
  /\ first' = After(first)
  /\ UNCHANGED <<current, buffer>>

\* Mutant: the items are moved up to the top only, which is lost.
RotatedShort(offset) ==
  [s \in Slots |->
     IF \E k \in 1..offset : s = SlotAt(k) THEN buffer[After(s)] ELSE buffer[s]]

\* The items from the offset to the newest, each moved down by one slot, and
\* the one at the offset on top of them.
Rotated(offset) ==
  [s \in Slots |->
     IF s = SlotAt(0) THEN buffer[SlotAt(offset)]
     ELSE IF \E k \in 1..offset : s = SlotAt(k) THEN buffer[After(s)]
     ELSE buffer[s]]

\* fixed_queue_move_to_top: an offset of 0, or out of range, is refused.
MoveToTop(offset) ==
  /\ buffer' = IF offset \in Offsets \ {0} THEN Rotated(offset) ELSE buffer
  /\ UNCHANGED <<current, first>>

\* fixed_queue_reset
Reset == current' = 0 /\ first' = 0 /\ UNCHANGED buffer

Next ==
  \/ \E d \in Items : Push(d)
  \/ Pop \/ Reset
  \/ \E offset \in Slots : MoveToTop(offset)

Spec == Init /\ [][Next]_vars

-----------------------------------------------------------------------------
TypeOK ==
  /\ current \in Slots
  /\ first \in Slots
  /\ buffer \in [Slots -> Items \cup {Blank}]

Contents == [i \in 1..QueueSize |-> buffer[SlotAt(i - 1)]]

\* Every slot between the two indexes holds something that was pushed: no
\* operation makes a slot visible that was never written, or not since a
\* reset (fixed_queue.c:24-78).
NoBlankVisible == \A i \in 1..QueueSize : Contents[i] \in Items

\* Whatever the position of the two indexes, the ring is a list of the
\* Size - 1 newest items (fixed_queue.c:12-115).
List == INSTANCE RecencyList WITH Capacity <- Size - 1, items <- Contents

ImplementsRecencyList == List!Spec

=============================================================================
