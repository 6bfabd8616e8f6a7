---------------------------- MODULE GovernanceWatch ----------------------------
(***************************************************************************)
(* Governance with the commands that watch it: operation-status (module    *)
(* TimelockStatus), asked about the unpause, and verify-open-market, which *)
(* writes the evidence of the opening.  They read the chain call by call   *)
(* while the Safes, the Timelock and the planning commands go on.          *)
(*                                                                         *)
(* An operator named XFault is X with one plausible mistake in it; no      *)
(* action uses it.  It serves to see that the properties notice the        *)
(* mistake.                                                                *)
(***************************************************************************)
EXTENDS Governance, TimelockStatus

CONSTANT NoOperation

ASSUME NotAnOperation == NoOperation \notin Operations
ASSUME AskedOperation == Asked \in Operations

VARIABLES
  checking,   \* the operation verify-open-market is about
  evidence    \* the operation its latest verification names

openVars == <<checking, evidence>>
watchVars == <<govVars, pc, answers, report, held, openVars>>

WatchInit ==
  /\ GovInit
  /\ StatusInit
  /\ checking = NoOperation
  /\ evidence = NoOperation
-----------------------------------------------------------------------------
\* One operator runs the two commands, one after the other.  They write
\* nothing the other reads.
StatusCommand ==
  /\ checking = NoOperation
  /\ Start \/ ReadDone \/ ReadReady \/ ReadPending \/ PrintState
  /\ UNCHANGED <<tokenVars, files, openVars>>

\* What may be passed to verify-open-market: the package of open-market, or
\* any operation document whose target answers marketOpen().  Nothing asks
\* what the operation calls.
Verifiable ==
  {op \in documents : op.call # "elsewhere"} \union (proposals \intersect {OpenMarketOp})

MarketIsOpen == Token!marketOpen

VerifyOpenMarket(op) ==
  /\ checking = NoOperation /\ pc = "idle"
  /\ op \in Verifiable
  /\ MarketIsOpen
  /\ checking' = op
  /\ UNCHANGED <<govVars, pc, answers, report, held, evidence>>

\* The operation is done, the supply is still the whole of it, and a call of
\* openMarket from the Timelock would revert; otherwise nothing is written.
OpenedByFault(op) == isOperationPending(op) /\ ~Token!PreMarket   \* FAULT: in the queue will do.
OpenedBy(op) == isOperationDone(op) /\ ~Token!PreMarket

OpenMarketVerified ==
  /\ checking # NoOperation
  /\ evidence' = IF OpenedBy(checking) THEN checking ELSE evidence
  /\ checking' = NoOperation
  /\ UNCHANGED <<govVars, pc, answers, report, held>>

GovernanceStep ==
  /\ GovNext
  /\ Watching
  /\ UNCHANGED openVars

WatchNext ==
  \/ StatusCommand
  \/ \E op \in Operations : VerifyOpenMarket(op)
  \/ OpenMarketVerified
  \/ GovernanceStep

WatchSpec == WatchInit /\ [][WatchNext]_watchVars /\ GovFairness
-----------------------------------------------------------------------------
(* Properties.                                                             *)

\* Evidence of the opening, also when it was written for the document of
\* another operation: the market is open, the operation it names is done,
\* and the market was opened by an operation that went through the queue, or
\* by a Safe that was given the role by one.
OpenEvidenceIsTrue ==
  evidence # NoOperation =>
    /\ Token!marketOpen
    /\ isOperationDone(evidence)
    /\ \E op \in Operations :
         /\ isOperationDone(op)
         /\ op.call = "openMarket" \/ (op.call = "grantRole" /\ op.how = "MARKET_MANAGER")
=============================================================================
