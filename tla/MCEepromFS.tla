----------------------------- MODULE MCEepromFS -----------------------------
(* TLC instance of EepromFS. *)
EXTENDS EepromFS, TLC

CONSTANTS a, b, c

Symmetry == Permutations(Names)
=============================================================================
