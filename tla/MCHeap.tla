------------------------------- MODULE MCHeap -------------------------------
(* A heap of three spaces: the second starts where the first ends, the     *)
(* third after a gap and with 5 bytes that make no unit.                   *)
EXTENDS Heap

ThreeSpaces ==
  << [heap_base |-> 1, heap_size |-> 72],
     [heap_base |-> 7, heap_size |-> 48],
     [heap_base |-> 12, heap_size |-> 41] >>
=============================================================================
