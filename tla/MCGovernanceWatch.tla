--------------------------- MODULE MCGovernanceWatch ---------------------------
(* The instance of MCGovernance with the two commands that watch it.       *)
EXTENDS MCGovernance, GovernanceWatch
=============================================================================
