----------------------------- MODULE MCBiniToken -----------------------------
(***************************************************************************)
(* One factory, a pool it creates, a wallet that imitates a pool of that   *)
(* factory, and the accounts of governance.                                *)
(***************************************************************************)
EXTENDS BiniToken

CONSTANTS timelock, pauser, genesis, factory, pool, wallet

MCRealKind == [f \in Factories |-> "UNISWAP_V2"]
MCFactoryOf ==
  [a \in Addresses |-> IF a \in {pool, wallet} THEN factory ELSE NoFactory]
MCListable == {{}, {wallet}, {wallet, genesis}, {pool, Zero}}
=============================================================================
