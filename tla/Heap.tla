-------------------------------- MODULE Heap --------------------------------
(***************************************************************************)
(* The allocator of heap.c with its two doubly linked lists of headers:    *)
(* the free blocks in the order of their addresses, the used blocks last   *)
(* one first.  free_size is in bytes.                                      *)
(*                                                                         *)
(* "header" has an entry for each address that holds the header of a       *)
(* block.  A header that Heap_Merge swallowed is payload from then on, and *)
(* the callers' to overwrite, so its entry goes; to read it is an error.   *)
(***************************************************************************)
EXTENDS HeapLayout

NULL == 0

VARIABLES
  header,       \* [prev, next, size] of each block
  free_blocks,  \* head of the free list
  used_blocks,  \* head of the used list
  free_size,    \* bytes
  live          \* bytes each block was asked for, by its address

vars == <<header, free_blocks, used_blocks, free_size, live>>

-----------------------------------------------------------------------------
(* Heap_Init: one free block per space, linked in the order given.         *)

Base(i) == IF i \in 1..SpaceCount THEN heap_spaces[i].heap_base ELSE NULL

SpaceHeader(i) ==
  [prev |-> Base(i - 1), next |-> Base(i + 1),
   size |-> SpaceUnits(heap_spaces[i])]

\* f[1] + ... + f[n]
Total(f, n) ==
  LET t[i \in 0..n] == IF i = 0 THEN 0 ELSE t[i - 1] + f[i]
  IN t[n]

Init ==
  /\ header = [a \in {Base(i) : i \in 1..SpaceCount} |->
                 SpaceHeader(CHOOSE i \in 1..SpaceCount : Base(i) = a)]
  /\ free_blocks = Base(1)
  /\ used_blocks = NULL
  /\ free_size = Total([i \in 1..SpaceCount |-> heap_spaces[i].heap_size - HEADER],
                       SpaceCount)
  /\ live = [a \in {} |-> 0]

-----------------------------------------------------------------------------
(* Lists.  An edit of the lists is an operator from headers to headers.    *)

Onward(hdr, a) == IF a = NULL THEN NULL ELSE hdr[a].next

\* The addresses met from a along next, and NULL from the end of the list on.
Walk(hdr, a) ==
  LET w[i \in 0..HeapEnd] == IF i = 0 THEN a ELSE Onward(hdr, w[i - 1])
  IN w

List(hdr, a) ==
  LET w == Walk(hdr, a)
  IN {w[i] : i \in 0..HeapEnd} \ {NULL}

Least(S) == CHOOSE x \in S : \A y \in S : x <= y

\* The first of the blocks S that a loop along the list from a meets.
FirstMet(hdr, a, S) ==
  LET w == Walk(hdr, a)
  IN w[Least({i \in 0..HeapEnd : w[i] \in S})]

\* "a->prev = p" and "a->next = n", where a may be NULL: then no write.
SetPrev(hdr, a, p) == IF a = NULL THEN hdr ELSE [hdr EXCEPT ![a].prev = p]
SetNext(hdr, a, n) == IF a = NULL THEN hdr ELSE [hdr EXCEPT ![a].next = n]

Unlink(hdr, a) ==
  SetNext(SetPrev(hdr, hdr[a].next, hdr[a].prev), hdr[a].prev, hdr[a].next)

\* Mutant: the head of the list stays.
HeadKept(hdr, head, a) == head

\* The head of the list from which a is unlinked.
HeadWithout(hdr, head, a) == IF hdr[a].prev = NULL THEN hdr[a].next ELSE head

\* Between p and n.
Link(hdr, a, p, n) ==
  [SetNext(SetPrev(hdr, n, a), p, a) EXCEPT ![a].prev = p, ![a].next = n]

-----------------------------------------------------------------------------
(* Heap_Alloc                                                              *)

LargeEnough(bytes) ==
  {a \in List(header, free_blocks) : header[a].size >= Units(bytes)}

\* The block at a goes to the front of the used list and to a caller.
Hand(hdr, a, bytes) ==
  /\ header' = Link(hdr, a, NULL, used_blocks)
  /\ used_blocks' = a
  /\ live' = [x \in DOMAIN live \cup {a} |-> IF x = a THEN bytes ELSE live[x]]

\* Mutant: the unit too many that comes with the block is not charged.
AllocWholeChargesRequest(a, bytes) ==
  /\ header[a].size - Units(bytes) <= 1
  /\ free_blocks' = HeadWithout(header, free_blocks, a)
  /\ free_size' = free_size - Units(bytes) * HEADER
  /\ Hand(Unlink(header, a), a, bytes)

AllocWhole(a, bytes) ==
  /\ header[a].size - Units(bytes) <= 1
  /\ free_blocks' = HeadWithout(header, free_blocks, a)
  /\ free_size' = free_size - header[a].size * HEADER
  /\ Hand(Unlink(header, a), a, bytes)

\* The block at a keeps rest units, and a new one has n.
Carved(hdr, a, rest, new, n) ==
  [x \in DOMAIN hdr \cup {new} |->
     CASE x = a -> [hdr[a] EXCEPT !.size = rest]
       [] x = new -> [prev |-> NULL, next |-> NULL, size |-> n]
       [] OTHER -> hdr[x]]

\* Mutant: the new header is not counted in the old block's size.
AllocSplitHeaderForgotten(a, bytes) ==
  LET n == Units(bytes)
      rest == header[a].size - n
      new == a + rest + 1
  IN /\ header[a].size - n > 1
     /\ Hand(Carved(header, a, rest, new, n), new, bytes)
     /\ free_size' = free_size - (n + 1) * HEADER
     /\ UNCHANGED free_blocks

AllocSplit(a, bytes) ==
  LET n == Units(bytes)
      rest == header[a].size - (n + 1)
      new == a + rest + 1
  IN /\ header[a].size - n > 1
     /\ Hand(Carved(header, a, rest, new, n), new, bytes)
     /\ free_size' = free_size - (n + 1) * HEADER
     /\ UNCHANGED free_blocks

Alloc(bytes) ==
  /\ LargeEnough(bytes) # {}
  /\ LET a == FirstMet(header, free_blocks, LargeEnough(bytes))
     IN AllocWhole(a, bytes) \/ AllocSplit(a, bytes)

-----------------------------------------------------------------------------
(* Heap_Free.  Heap_Merge works on "hi", the header and free_size.         *)

Without(f, b) == [x \in DOMAIN f \ {b} |-> f[x]]

\* The next block becomes a part of a if it starts where a ends.
Swallow(hi, a) ==
  LET hdr == hi.header
      b == hdr[a].next
      grown == [hdr EXCEPT ![a].size = @ + hdr[b].size + 1, ![a].next = hdr[b].next]
  IN IF b = NULL \/ b # a + hdr[a].size + 1 THEN hi
     ELSE [header |-> Without(SetPrev(grown, hdr[b].next, a), b),
           free_size |-> hi.free_size + HEADER]

\* Heap_Merge, which calls itself until nothing is swallowed.
Merge(hi, a) ==
  LET m[i \in 0..HeapEnd] == IF i = 0 THEN hi ELSE Swallow(m[i - 1], a)
  IN m[HeapEnd]

\* Where the search for the place of a stops: at a block above it, or the last.
Stop(hdr, a) ==
  FirstMet(hdr, free_blocks,
           {x \in List(hdr, free_blocks) : x >= a \/ hdr[x].next = NULL})

\* Mutant: the block always goes in front of the one the search stopped at.
InsertBefore(hdr, a) == Link(hdr, a, hdr[Stop(hdr, a)].prev, Stop(hdr, a))

Insert(hdr, a) ==
  LET stop == Stop(hdr, a)
  IN IF stop >= a THEN Link(hdr, a, hdr[stop].prev, stop)
                  ELSE Link(hdr, a, stop, hdr[stop].next)

\* Mutant: a block with a predecessor in the list is not merged forwards.
CoalesceBackwards(hi, a) ==
  LET prev == hi.header[a].prev
  IN IF prev # NULL THEN Merge(hi, prev) ELSE Merge(hi, a)

Coalesce(hi, a) ==
  LET prev == hi.header[a].prev
  IN IF prev # NULL /\ Merge(hi, prev) # hi THEN Merge(hi, prev) ELSE Merge(hi, a)

\* Heap_AddressWithinHeap
WithinHeap(a) ==
  \E i \in 1..SpaceCount :
    /\ a >= Base(i)
    /\ a * HEADER <= Base(i) * HEADER + heap_spaces[i].heap_size - HEADER

Free(a) ==
  LET unlinked == Unlink(header, a)
      inserted == Insert(unlinked, a)
      returned == free_size + header[a].size * HEADER
      merged == Coalesce([header |-> inserted, free_size |-> returned], a)
  IN /\ WithinHeap(a)
     /\ used_blocks' = HeadWithout(header, used_blocks, a)
     /\ live' = Without(live, a)
     /\ \/ /\ free_blocks # NULL
           /\ header' = merged.header
           /\ free_size' = merged.free_size
           /\ free_blocks' = IF inserted[a].prev = NULL THEN a ELSE free_blocks
        \/ /\ free_blocks = NULL
           /\ header' = Link(unlinked, a, NULL, NULL)
           /\ free_blocks' = a
           /\ free_size' = returned

Next ==
  \/ \E bytes \in Requests : Alloc(bytes)
  \/ \E a \in DOMAIN live : Free(a)

Spec == Init /\ [][Next]_vars

-----------------------------------------------------------------------------
FreeList == List(header, free_blocks)
UsedList == List(header, used_blocks)

TypeOK ==
  /\ DOMAIN header \subseteq 1..(HeapEnd - 1)
  /\ \A a \in DOMAIN header :
       header[a] \in [prev : 0..HeapEnd, next : 0..HeapEnd, size : 0..HeapEnd]
  /\ {free_blocks, used_blocks} \subseteq DOMAIN header \cup {NULL}
  /\ free_size \in Nat
  /\ live \in [DOMAIN live -> Requests]

\* Each block is in exactly one of the two lists, the links back are the
\* inverse of the links forward, the used blocks are those the callers hold,
\* and the free list goes upwards and its blocks do not overlap, as Heap_Check
\* asserts (heap.c:50-238, :250, :256).
ListsWellFormed ==
  /\ FreeList \cap UsedList = {}
  /\ FreeList \cup UsedList = DOMAIN header
  /\ UsedList = DOMAIN live
  /\ \A a \in DOMAIN header :
       /\ header[a].next # NULL => header[header[a].next].prev = a
       /\ header[a].prev # NULL => header[header[a].prev].next = a
       /\ header[a].prev = NULL => a \in {free_blocks, used_blocks}
  /\ \A a \in FreeList :
       LET n == header[a].next
       IN n # NULL => n # header[a].prev /\ n >= a + header[a].size + 1

\* free_size is what could be handed out if every free block were handed out
\* whole, and the bytes at the end of a space that make no unit
\* (heap.c:34, :81, :92, :126, :195).
FreeSizeExact ==
  LET list == FreeList
      units == [a \in 1..HeapEnd |-> IF a \in list THEN header[a].size ELSE 0]
      left == [i \in 1..SpaceCount |-> heap_spaces[i].heap_size % HEADER]
  IN free_size = HEADER * Total(units, HeapEnd) + Total(left, SpaceCount)

\* Two free blocks touch only where two spaces do: freed memory is available
\* to larger requests again (heap.c:121-140, :221-227).
Coalesced ==
  \A a \in FreeList :
    a + header[a].size + 1 \in FreeList =>
      \E i \in 1..SpaceCount : Base(i) = a + header[a].size + 1

\* A caller's block has room for what was asked for, until it is freed
\* (heap.c:57-58, :115-119).
BlocksLargeEnough ==
  \A a \in DOMAIN live : header[a].size * HEADER >= live[a]

Blocks(list) == {[addr |-> a, size |-> header[a].size] : a \in list}

\* The lists do to the blocks what HeapBlocks says (heap.c:50-238): what is
\* proved there of blocks holds of the lists.
AsBlocks == INSTANCE HeapBlocks
              WITH free <- Blocks(FreeList), used <- Blocks(UsedList)

ImplementsHeapBlocks == AsBlocks!Spec

=============================================================================
