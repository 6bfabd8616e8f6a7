------------------------------- MODULE MCEvidence -------------------------------
(***************************************************************************)
(* Two artifacts in two roots: the record of the Timelock, JSON in the     *)
(* network's own directory, and a log kept in artifacts/deployments, where *)
(* the category is that of the token.  .gitignore hides the latter, and    *)
(* the former on the local rehearsal network only.                         *)
(***************************************************************************)
EXTENDS Evidence

CONSTANTS timelockJson, deployLog, sepolia, rehearsal

MCIgnored == [n \in Networks |-> IF n = rehearsal THEN Artifacts ELSE {deployLog}]
MCSubstitutes == {Absent, Whole(1)}
MCRoot == [a \in Artifacts |-> IF a = timelockJson THEN 1 ELSE 2]
MCCategory == [a \in Artifacts |-> IF a = timelockJson THEN "infrastructure" ELSE "token"]
=============================================================================
