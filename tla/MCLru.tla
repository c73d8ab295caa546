------------------------------- MODULE MCLru --------------------------------
(***************************************************************************)
(* Small instances of Lru for TLC.                                         *)
(***************************************************************************)
EXTENDS Lru, TLC

\* The items are interchangeable.
Symmetry == Permutations(Items)
=============================================================================
