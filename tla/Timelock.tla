------------------------------- MODULE Timelock -------------------------------
(***************************************************************************)
(* The OpenZeppelin TimelockController that DeployTimelock.s.sol sets up:  *)
(* the Governance Safe schedules and executes operations, the Security     *)
(* Safe cancels them, nobody else does anything.  The contract is a        *)
(* library the repository builds on; it is modelled from the calls the     *)
(* repository makes to it (schedule, cancel, execute, isOperationReady,    *)
(* isOperationPending, isOperationDone) and the rejections its rehearsal   *)
(* provokes.                                                               *)
(*                                                                         *)
(* The contract keeps one timestamp per operation: 0 when it is unknown, 1 *)
(* when it is done, else the time it becomes ready.  The model keeps the   *)
(* case in status and, while it waits, the time left in left, so that      *)
(* the clock needs no bound.                                               *)
(***************************************************************************)
EXTENDS Integers

CONSTANTS
  Operations,      \* operation ids: the hash of target, data and salt
  GovernanceSafe,  \* proposer and executor
  SecuritySafe,    \* canceller
  MinDelay,        \* getMinDelay()
  Delays           \* bound: delays that are asked for

ASSUME TimelockDelays == MinDelay \in Nat \ {0} /\ Delays \subseteq Nat
ASSUME TimelockSafes == GovernanceSafe # SecuritySafe

VARIABLES
  status,     \* what timestamps[id] says: unknown, waiting or done
  left,       \* time until a waiting operation is ready
  cancelled,  \* operations with a Cancelled event in the logs
  waited      \* history: time since the operation was last scheduled, up to MinDelay

queueVars == <<status, left, cancelled, waited>>

Callers == {GovernanceSafe, SecuritySafe}

Init ==
  /\ status = [op \in Operations |-> "UNSET"]
  /\ left = [op \in Operations |-> 0]
  /\ cancelled = {}
  /\ waited = [op \in Operations |-> 0]

isOperation(op) == status[op] # "UNSET"
isOperationPending(op) == status[op] = "WAITING"
isOperationReady(op) == status[op] = "WAITING" /\ left[op] = 0
isOperationDone(op) == status[op] = "DONE"

DelayIsEnough(delay) == delay >= MinDelay

MaySchedule(op) == ~isOperation(op)

\* schedule and scheduleBatch
Schedule(caller, op, delay) ==
  /\ caller = GovernanceSafe
  /\ MaySchedule(op)
  /\ DelayIsEnough(delay)
  /\ status' = [status EXCEPT ![op] = "WAITING"]
  /\ left' = [left EXCEPT ![op] = delay]
  /\ waited' = [waited EXCEPT ![op] = 0]
  /\ UNCHANGED cancelled

AfterCancel == "UNSET"

Cancel(caller, op) ==
  /\ caller = SecuritySafe
  /\ isOperationPending(op)
  /\ status' = [status EXCEPT ![op] = AfterCancel]
  /\ left' = [left EXCEPT ![op] = 0]
  /\ waited' = [waited EXCEPT ![op] = 0]
  /\ cancelled' = cancelled \union {op}

\* execute and executeBatch with predecessor zero, once the calls succeeded:
\* a call that reverts reverts the whole, and the operation stays ready.
Execute(caller, op) ==
  /\ caller = GovernanceSafe
  /\ isOperationReady(op)
  /\ status' = [status EXCEPT ![op] = "DONE"]
  /\ UNCHANGED <<left, cancelled, waited>>

Tick ==
  /\ left' = [op \in Operations |-> IF left[op] > 0 THEN left[op] - 1 ELSE 0]
  /\ waited' = [op \in Operations |->
       IF status[op] = "WAITING" /\ waited[op] < MinDelay THEN waited[op] + 1 ELSE waited[op]]
  /\ UNCHANGED <<status, cancelled>>

Next ==
  \/ \E caller \in Callers, op \in Operations :
       \/ \E delay \in Delays : Schedule(caller, op, delay)
       \/ Cancel(caller, op)
       \/ Execute(caller, op)
  \/ Tick

Spec == Init /\ [][Next]_queueVars
-----------------------------------------------------------------------------
(* Properties.                                                             *)

\* Every variable has its type, and an operation that waits has waited for
\* all of the minimum delay that is not still left: the relation between
\* the code's comparison of timestamps and the time that really passed.
TypeOK ==
  /\ status \in [Operations -> {"UNSET", "WAITING", "DONE"}]
  /\ left \in [Operations -> Nat]
  /\ waited \in [Operations -> 0..MinDelay]
  /\ cancelled \subseteq Operations
  /\ \A op \in Operations : isOperationPending(op) => left[op] + waited[op] >= MinDelay

\* An operation is executed only after it has waited the whole minimum delay
\* since it was scheduled for the last time: cancelling it and scheduling it
\* again starts a new delay, whatever delays the proposer asked for.
ExecutionWaits ==
  [][\A op \in Operations :
       isOperationDone(op)' /\ ~isOperationDone(op) =>
         isOperationPending(op) /\ waited[op] >= MinDelay]_queueVars

\* An operation id is executed at most once, for ever.
DoneIsFinal ==
  [][\A op \in Operations : isOperationDone(op) => isOperationDone(op)']_queueVars
=============================================================================
