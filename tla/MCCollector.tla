---------------------------- MODULE MCCollector -----------------------------
(***************************************************************************)
(* A small instance of Collector for TLC.                                  *)
(***************************************************************************)
EXTENDS Collector

CONSTANTS ca, cb, cc

\* Strings that are empty, of one byte and of two.
MCTexts == {<<>>, <<ca>>, <<cb, cc>>}
=============================================================================
