----------------------------- MODULE HeapLayout -----------------------------
(***************************************************************************)
(* The memory heap.c is given, and its arithmetic.  The unit of address    *)
(* and size is one HeapBlockHeader.  A block is a header and "size" units  *)
(* of payload after it.                                                    *)
(***************************************************************************)
EXTENDS Integers, Sequences

CONSTANTS
  HEADER,       \* sizeof(HeapBlockHeader), bytes
  heap_spaces,  \* sequence of [heap_base, heap_size], heap_size in bytes
  HeapEnd,      \* no space reaches this address
  Requests      \* sizes in bytes that callers ask for; 0 gets no block

SpaceCount == Len(heap_spaces)

\* heap_size / sizeof(HeapBlockHeader) - 1: less than a unit is left over.
SpaceUnits(s) == s.heap_size \div HEADER - 1

\* Mutant: no unit for the remainder of the division.
UnitsRoundedDown(bytes) == bytes \div HEADER

\* "size /= sizeof(HeapBlockHeader); size++"
Units(bytes) == bytes \div HEADER + 1

Block == [addr : 1..HeapEnd, size : 0..HeapEnd]

\* The blocks Heap_Init makes.
Spaces == {[addr |-> heap_spaces[i].heap_base, size |-> SpaceUnits(heap_spaces[i])] :
             i \in 1..SpaceCount}

Extent(b) == b.addr..(b.addr + b.size)

Disjoint(S) == \A b, c \in S : b # c => Extent(b) \cap Extent(c) = {}

\* The bases go upwards: Heap_Check (heap.c:256) wants it of the first list too.
ASSUME HeapAssumption ==
  /\ HEADER \in Nat \ {0}
  /\ HeapEnd \in Nat
  /\ heap_spaces \in Seq([heap_base : Nat, heap_size : Nat])
  /\ \A i \in 2..SpaceCount : heap_spaces[i - 1].heap_base < heap_spaces[i].heap_base
  /\ Spaces \subseteq Block
  /\ \A s \in Spaces : s.addr + s.size < HeapEnd
  /\ Disjoint(Spaces)
  /\ Requests \subseteq Nat \ {0}

=============================================================================
