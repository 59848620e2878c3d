------------------------------ MODULE HeapBlocks ------------------------------
(***************************************************************************)
(* What the allocator of heap.c does to blocks, without the pointers that  *)
(* string them together: Heap.tla has those, and implements this module.   *)
(***************************************************************************)
EXTENDS HeapLayout

Covered(S) == UNION {Extent(b) : b \in S}

VARIABLES
  free,  \* the blocks of the list free_blocks
  used   \* the blocks of the list used_blocks

vars == <<free, used>>

Init == free = Spaces /\ used = {}

-----------------------------------------------------------------------------
(* Heap_Alloc: the first block that is large enough, whole when what would *)
(* remain of it could hold no payload, otherwise its upper end.            *)

FirstFit(b, n) ==
  /\ b \in free
  /\ b.size >= n
  /\ \A c \in free : c.size >= n => b.addr <= c.addr

AllocWhole(b, n) ==
  /\ b.size - n <= 1
  /\ free' = free \ {b}
  /\ used' = used \cup {b}

AllocSplit(b, n) ==
  /\ b.size - n > 1
  /\ free' = (free \ {b}) \cup {[addr |-> b.addr, size |-> b.size - n - 1]}
  /\ used' = used \cup {[addr |-> b.addr + b.size - n, size |-> n]}

Alloc(bytes) ==
  \E b \in free :
    /\ FirstFit(b, Units(bytes))
    /\ AllocWhole(b, Units(bytes)) \/ AllocSplit(b, Units(bytes))

-----------------------------------------------------------------------------
(* Heap_Free: the block becomes free and grows over the free blocks that   *)
(* follow it without a gap, or the one that ends where it starts grows     *)
(* over it and those.                                                      *)

\* The last unit of the blocks of S that follow each other from address a.
RunEnd(S, a) ==
  CHOOSE e \in a..HeapEnd :
    /\ a..e \subseteq Covered(S)
    /\ e + 1 \notin Covered(S)

\* Those blocks made into one.
Merged(S, a) ==
  {c \in S : c.addr \notin a..RunEnd(S, a)}
    \cup {[addr |-> a, size |-> RunEnd(S, a) - a]}

EndsAt(c, a) == c.addr + c.size + 1 = a

Free(b) ==
  /\ used' = used \ {b}
  /\ IF \E c \in free : EndsAt(c, b.addr)
     THEN \E c \in free : /\ EndsAt(c, b.addr)
                          /\ free' = Merged(free \cup {b}, c.addr)
     ELSE free' = Merged(free \cup {b}, b.addr)

Next ==
  \/ \E bytes \in Requests : Alloc(bytes)
  \/ \E b \in used : Free(b)

Spec == Init /\ [][Next]_vars

-----------------------------------------------------------------------------
TypeOK == free \subseteq Block /\ used \subseteq Block

\* No two blocks share memory, free or used (heap.c:50-238): what one caller
\* writes no other caller and no list header sees.
NoOverlap == free \cap used = {} /\ Disjoint(free \cup used)

\* The blocks cover the heap all the time: no memory is lost, and none comes
\* from outside it (heap.c:50-238).
NoLeak == Covered(free \cup used) = Covered(Spaces)

=============================================================================
