------------------------------- MODULE MCRelease -------------------------------
(***************************************************************************)
(* Instances of Release for TLC: two recipients, a supply of two; two      *)
(* versions of the ledger that add up to it and one that does not.         *)
(***************************************************************************)
EXTENDS Release, TLC

CONSTANTS r1, r2

MCLedgers ==
  {[version |-> 1, amounts |-> (r1 :> 1 @@ r2 :> 1)],
   [version |-> 2, amounts |-> (r1 :> 1 @@ r2 :> 1)],
   [version |-> 3, amounts |-> (r1 :> 1 @@ r2 :> 0)]}
=============================================================================
