--------------------------- MODULE MCRcRadixTree ----------------------------
(***************************************************************************)
(* Small instances of RcRadixTree for TLC.                                 *)
(***************************************************************************)
EXTENDS RcRadixTree, TLC

\* The leaves and the items are interchangeable.
Symmetry == Permutations(Leaves) \cup Permutations(Items)
=============================================================================
