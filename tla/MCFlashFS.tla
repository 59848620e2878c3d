------------------------------ MODULE MCFlashFS ------------------------------
(* TLC instances of FlashFS. *)
EXTENDS FlashFS, TLC

CONSTANTS n1, n2, long

NoBadNames == [x \in {} |-> NoName]
LongIsN1 == long :> n1      \* a name of over 13 characters, n1 when cut off

Symmetry == Permutations({n1, n2})
=============================================================================
