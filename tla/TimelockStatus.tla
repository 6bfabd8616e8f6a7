----------------------------- MODULE TimelockStatus -----------------------------
(***************************************************************************)
(* command_timelock_operation_status of tools/rc3_automation.py, reading a *)
(* Timelock that goes on working.  The command makes four or five calls to *)
(* the node, one after the other, each against the latest block, and puts  *)
(* their answers together.  It prints the timestamp beside the state.      *)
(***************************************************************************)
EXTENDS Timelock

CONSTANTS
  Asked,       \* the operation asked about, one of Operations
  NoReport

Reports == {"UNSET", "PENDING", "READY", "CANCELLED", "DONE"}
ASSUME NoReportIsNone == NoReport \notin Reports

VARIABLES
  pc,          \* the next call the command makes
  answers,     \* the answers it has so far
  report,      \* the state it printed
  held         \* history: states that held from the start of the command to its end

statusVars == <<queueVars, pc, answers, report, held>>

\* The state of the operation at one moment.
State(op) ==
  CASE isOperationDone(op) -> "DONE"
    [] isOperationReady(op) -> "READY"
    [] isOperationPending(op) /\ ~isOperationReady(op) -> "PENDING"
    [] ~isOperation(op) /\ op \in cancelled -> "CANCELLED"
    [] OTHER -> "UNSET"

NoAnswers == [done |-> FALSE, ready |-> FALSE, pending |-> FALSE]

StatusInit ==
  /\ Init
  /\ pc = "idle"
  /\ answers = NoAnswers
  /\ report = NoReport
  /\ held = {}

Start ==
  /\ pc = "idle"
  /\ pc' = "done"
  /\ report' = NoReport
  /\ held' = {State(Asked)}
  /\ UNCHANGED <<queueVars, answers>>

ReadDone ==
  /\ pc = "done"
  /\ answers' = [answers EXCEPT !.done = isOperationDone(Asked)]
  /\ pc' = "ready"
  /\ UNCHANGED <<queueVars, report, held>>

ReadReady ==
  /\ pc = "ready"
  /\ answers' = [answers EXCEPT !.ready = isOperationReady(Asked)]
  /\ pc' = "pending"
  /\ UNCHANGED <<queueVars, report, held>>

ReadPending ==
  /\ pc = "pending"
  /\ answers' = [answers EXCEPT !.pending = isOperationPending(Asked)]
  /\ pc' = "print"
  /\ UNCHANGED <<queueVars, report, held>>

\* FAULT: pending, which is also true of a ready operation, is asked first.
VerdictFault ==
  CASE answers.done -> "DONE"
    [] ~answers.done /\ answers.pending -> "PENDING"
    [] ~answers.done /\ ~answers.pending /\ answers.ready -> "READY"
    [] OTHER -> IF Asked \in cancelled THEN "CANCELLED" ELSE "UNSET"

\* The if and elif chain; its last branch asks the node for the logs.
Verdict ==
  CASE answers.done -> "DONE"
    [] ~answers.done /\ answers.ready -> "READY"
    [] ~answers.done /\ ~answers.ready /\ answers.pending -> "PENDING"
    [] OTHER -> IF Asked \in cancelled THEN "CANCELLED" ELSE "UNSET"

PrintState ==
  /\ pc = "print"
  /\ report' = Verdict
  /\ pc' = "idle"
  /\ answers' = NoAnswers
  /\ UNCHANGED <<queueVars, held>>

\* The Timelock moves under the reader; a report is one about the past as
\* soon as it does.
Watching ==
  /\ held' = IF pc = "idle" THEN {} ELSE held \union {State(Asked)'}
  /\ report' = NoReport
  /\ UNCHANGED <<pc, answers>>

QueueStep == Next /\ Watching

StatusNext == Start \/ ReadDone \/ ReadReady \/ ReadPending \/ PrintState \/ QueueStep

StatusSpec == StatusInit /\ [][StatusNext]_statusVars
-----------------------------------------------------------------------------
(* Properties.                                                             *)

\* A report that the operation is in the queue, or has left it by execution,
\* was true at some moment of the command.
QueueReportsHeld == report \in {"PENDING", "READY", "DONE"} => report \in held

\* Every report was true at some moment of the command, the reports that
\* the operation is not there included.
AllReportsHeld == report # NoReport => report \in held
=============================================================================
