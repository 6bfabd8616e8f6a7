--------------------------- MODULE MCMigrationVault ---------------------------
(***************************************************************************)
(* Instances of MigrationVault for TLC: two holders with different         *)
(* entitlements, a funding Safe, and a V1 that may withhold one unit.      *)
(***************************************************************************)
EXTENDS MigrationVault

CONSTANTS vault, timelock, h1, h2, safe, a1, a2

MCRows ==
  {[holder |-> h1, amount |-> 1, action |-> a1], [holder |-> h1, amount |-> 2, action |-> a1],
   [holder |-> h2, amount |-> 2, action |-> a2],
   [holder |-> h2, amount |-> 1, action |-> a1], [holder |-> vault, amount |-> 1, action |-> a2],
   [holder |-> Zero, amount |-> 1, action |-> a1], [holder |-> h1, amount |-> 0, action |-> a1],
   [holder |-> h1, amount |-> 1, action |-> NoAction]}

\* Every batch of the permitted length, the empty one and one too long.
MCBatches ==
  BoundedSeq(MCRows, 2) \union
  {<<[holder |-> h1, amount |-> 1, action |-> a1], [holder |-> h2, amount |-> 1, action |-> a2],
     [holder |-> safe, amount |-> 1, action |-> a1]>>}

\* h1 may sign for the Safe, with either deadline, or for the vault itself.
MCSignable ==
  {[holder |-> h1, recipient |-> safe, amount |-> 1, deadline |-> 0],
   [holder |-> h1, recipient |-> vault, amount |-> 1, deadline |-> 1]}

MCV1Routes == {<<h2, h1>>, <<h1, vault>>}

MCInitialV1 == [a \in Accounts |-> CASE a = h1 -> 1 [] a = h2 -> 2 [] OTHER -> 0]
MCInitialV2 == [a \in Accounts |-> IF a = safe THEN 6 ELSE 0]
=============================================================================
