---------------------------- MODULE MCThreadpool ----------------------------
(***************************************************************************)
(* Small instances of Threadpool for TLC.                                  *)
(***************************************************************************)
EXTENDS Threadpool, TLC

\* Jobs and cells are interchangeable in every definition of the model.
Symmetry == Permutations(Jobs) \cup Permutations(Tasks)
=============================================================================
