----------------------------- MODULE RecencyList -----------------------------
(***************************************************************************)
(* What fixed_queue.c promises: a list of at most Capacity items, newest   *)
(* first, which forgets its oldest item when a new one has no room.        *)
(***************************************************************************)
EXTENDS Integers, Sequences

CONSTANTS Capacity, Items

VARIABLE items

Init == items = <<>>

\* The first n of s, or all of them.
Prefix(s, n) == SubSeq(s, 1, IF Len(s) <= n THEN Len(s) ELSE n)

Push(d) == items' = Prefix(<<d>> \o items, Capacity)

Pop == items # <<>> /\ items' = SubSeq(items, 1, Len(items) - 1)

\* The item at position k becomes the newest; those before it move down.
MoveToTop(k) ==
  items' = [i \in 1..Len(items) |->
              CASE i = 1 -> items[k]
                [] i \in 2..k -> items[i - 1]
                [] OTHER -> items[i]]

Clear == items' = <<>>

Next ==
  \/ \E d \in Items : Push(d)
  \/ Pop \/ Clear
  \/ \E k \in 1..Len(items) : MoveToTop(k)

Spec == Init /\ [][Next]_items

=============================================================================
