--------------------------- MODULE MCPoolFutures ----------------------------
(***************************************************************************)
(* A small instance of PoolFutures for TLC.                                *)
(***************************************************************************)
EXTENDS PoolFutures, TLC

CONSTANTS j1, j2

\* j2 waits for the future of j1.
MCAwaits == (j2 :> {j1}) @@ [j \in Jobs |-> {}]
=============================================================================
