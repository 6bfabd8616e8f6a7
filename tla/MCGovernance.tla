----------------------------- MODULE MCGovernance -----------------------------
(***************************************************************************)
(* One factory and one router in the DEX policy, and an operation written  *)
(* by hand: one of those listed.                                           *)
(***************************************************************************)
EXTENDS Governance

CONSTANTS timelock, governance, security, genesis, factory, router

MCPolicyKind == [f \in {factory} |-> "UNISWAP_V2"]
MCDrafts ==
  {Operation("openMarket", {}, "", "own"),
   Operation("unpause", {}, "", "own"),
   Operation("delist", {router}, "", "own"),
   Operation("grantRole", {security}, "UNPAUSER", "own"),
   Operation("revokeRole", {timelock}, "UNPAUSER", "own")}
MCDraftSets == {{op} : op \in MCDrafts}
MCNoDrafts == {}
MCOperations == {UnpauseOp, OpenMarketOp} \union PolicyOps \union MCDrafts
MCOperationsNoDrafts == {UnpauseOp, OpenMarketOp} \union PolicyOps
MCFactoryOf == [a \in Addresses |-> NoFactory]
=============================================================================
