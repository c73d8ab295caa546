---------------------------- MODULE MCRcHashMap -----------------------------
(***************************************************************************)
(* Small instances of RcHashMap for TLC.                                   *)
(***************************************************************************)
EXTENDS RcHashMap, TLC

\* The hash indices of the keys: all collide but the last one.
Colliding == [k \in Keys |-> IF k = 3 THEN 2 ELSE 0]

\* The items are interchangeable.
Symmetry == Permutations(Items)
=============================================================================
