------------------------------- MODULE MCSafeTx -------------------------------
(***************************************************************************)
(* SafeTx for TLC.                                                         *)
(***************************************************************************)
EXTENDS SafeTx, TLC

\* Operators run the same commands; no property of the run is temporal.
OperatorsAreAlike == Permutations(Operators)
=============================================================================
