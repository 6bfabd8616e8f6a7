------------------------------- MODULE Migration -------------------------------
(***************************************************************************)
(* The migration as it is carried out: migration-plan, migration-fund-*,   *)
(* migrate and verify-migration of the command line, the files they leave, *)
(* the Safes and the Timelock that execute their packages, and the vault   *)
(* (module MigrationVault), which holders and strangers use meanwhile.     *)
(*                                                                         *)
(* A plan becomes one Timelock operation: setEntitlements for every batch  *)
(* of the holder list, then sealEntitlements, all in one transaction.  It  *)
(* is modelled as the calls it makes, one after the other, with the chain  *)
(* standing still in between, so that every step is a step of the vault;   *)
(* it begins only when no call of it reverts.                              *)
(*                                                                         *)
(* What a file says is a function of the holder list it was made from, and *)
(* of the list's hash in particular.  The chain holds one vault and the    *)
(* token recorded in the deployment manifest; that they belong together    *)
(* is checked by the commands and is the subject of module Release.        *)
(*                                                                         *)
(* An operator named XFault is X with one plausible mistake in it; no      *)
(* action uses it.  It serves to see that the properties notice the        *)
(* mistake.                                                                *)
(***************************************************************************)
EXTENDS MigrationVault

CONSTANTS
  Manifests,   \* holder lists, by their hash
  Csv,         \* Csv[m][i][k]: row k of batch i of list m, in the order of the list
  Safes,       \* top-level Safes of the allocations rows are paid from
  Cap,         \* Cap[safe]: the Phase 1 allocation of that Safe
  Donors,      \* bound: accounts that send V2 to the vault without a receipt,
  Donations,   \* and the amounts they send
  NoManifest, NoFile, NoEvidence

HolderRow == [holder : Accounts, recipient : Accounts, amount : UInt, source : Safes,
              proven : BOOLEAN]   \* proven: ownershipProof is not PENDING

ASSUME HolderLists ==
  /\ Csv \in [Manifests -> Seq(Seq(HolderRow))]
  /\ NoManifest \notin Manifests
ASSUME Allocations == Safes \subseteq Accounts \ {Vault} /\ Cap \in [Safes -> Nat]

VARIABLES
  asRecorded,     \* verify_recorded_deployment and preflight would pass
  planned,        \* lists with a plan, and its Timelock package, on disk
  executing,      \* the list whose Timelock operation is being executed
  step,           \* the call it has come to
  receipts,       \* receipts of funding transactions: the Safe and the amount
  fundVerified,   \* lists with a funding verification on disk
  job,            \* a running migrate command
  batchFiles,     \* the packages migrate has written
  reading,        \* a running verify-migration
  evidence,       \* what it wrote
  seen            \* history: the vault's totals from its start to its end

timelockVars == <<executing, step>>
fundVars == <<receipts, fundVerified>>
batchVars == <<job, batchFiles>>
readVars == <<reading, evidence, seen>>
migVars == <<vars, asRecorded, planned, timelockVars, fundVars, batchVars, readVars>>

Totals == [locked |-> totalLockedV1, released |-> totalReleasedV2,
           remaining |-> remainingV2Liability]
IdleReader == [at |-> "idle", locked |-> 0, released |-> 0]

\* One operator runs the commands, one after the other, between transactions.
Free == executing = NoManifest /\ job = NoFile /\ reading = IdleReader

MigInit ==
  /\ Init
  /\ asRecorded = TRUE
  /\ planned = {}
  /\ executing = NoManifest /\ step = 1
  /\ receipts = {} /\ fundVerified = {}
  /\ job = NoFile /\ batchFiles = {}
  /\ reading = IdleReader /\ evidence = NoEvidence /\ seen = {}
-----------------------------------------------------------------------------
(* Holder lists.                                                           *)

Positions(m) == UNION {{i} \X DOMAIN Csv[m][i] : i \in DOMAIN Csv[m]}
RowAt(m, p) == Csv[m][p[1]][p[2]]
RowsOf == [m \in Manifests |-> {RowAt(m, p) : p \in Positions(m)}]

\* The identifier of a row: a hash of the list's hash, the recipient and the
\* amount.  The holder is not part of it.
ActionId(m, row) == [manifest |-> m, recipient |-> row.recipient, amount |-> toV2Raw(row.amount)]

SumOf(rows) == toV2Raw(MapThenSumSet(LAMBDA row : row.amount, rows))
SourcesOf(m) == {row.source : row \in RowsOf[m]}
Liability == [m \in Manifests |->
  [safe \in SourcesOf(m) |-> SumOf({row \in RowsOf[m] : row.source = safe})]]
Total == [m \in Manifests |-> SumOf(RowsOf[m])]

\* load_holders, validate_migration_accounting and the size of batches.  The
\* migration config that goes with a list repeats the sums.
IsValid(m) ==
  /\ Positions(m) # {}
  /\ \A p, q \in Positions(m) : RowAt(m, p).holder = RowAt(m, q).holder => p = q
  /\ \A row \in RowsOf[m] : row.amount > 0
  /\ \A i \in DOMAIN Csv[m] : Len(Csv[m][i]) \in 1..MaxRows
  /\ \A safe \in SourcesOf(m) : Liability[m][safe] <= Cap[safe]

ActionsAreUnique(m) ==
  \A p, q \in Positions(m) : ActionId(m, RowAt(m, p)) = ActionId(m, RowAt(m, q)) => p = q

\* A batch whose ownerships are all proven.
IsProven(m, i) == \A k \in DOMAIN Csv[m][i] : Csv[m][i][k].proven

Valid == {m \in Manifests : IsValid(m)}
Unique == {m \in Manifests : ActionsAreUnique(m)}
Proven == [m \in Manifests |-> {i \in DOMAIN Csv[m] : IsProven(m, i)}]
-----------------------------------------------------------------------------
\* While verify-migration runs, what the totals were is remembered; what it
\* wrote is about the past as soon as the chain moves.
Observed ==
  /\ seen' = IF reading.at = "idle" THEN {} ELSE seen \union {Totals'}
  /\ evidence' = NoEvidence
  /\ UNCHANGED reading

-----------------------------------------------------------------------------
(* The recorded deployment.                                                *)

\* The checkout leaves the commit of the manifest or comes back to it; the
\* Timelock upgrades the token, changes its roles or the delay; the
\* configuration is edited; an account preflight asks for is missing.  What
\* an upgraded token would do differently is left out.  A command looks at
\* this once, at its start, so a change during a command comes after it here.
DriftOrReturn ==
  /\ Free
  /\ asRecorded' = ~asRecorded
  /\ UNCHANGED <<vars, planned, timelockVars, fundVars, batchVars, readVars>>

\* preflight and verify_recorded_deployment, which demands HEAD, code, supply,
\* administrator, delay, implementation and roles as recorded, and a closed
\* market.
RecordedDeployment == asRecorded /\ ~v2Open
-----------------------------------------------------------------------------
(* The plan and the Timelock.                                              *)

Plan(m) ==
  /\ Free
  /\ m \notin planned
  /\ m \in Valid
  /\ RecordedDeployment
  /\ planned' = planned \union {m}
  /\ UNCHANGED <<vars, asRecorded, timelockVars, fundVars, batchVars, readVars>>

\* FAULT: the calls are collected by batch and the last batch is forgotten.
PlannedBatchesFault(m) == IF Len(Csv[m]) = 1 THEN Csv[m] ELSE Front(Csv[m])
PlannedBatches(m) == Csv[m]

\* The arguments of one setEntitlements call.
Entitlements(m, batch) ==
  [k \in DOMAIN batch |->
     [holder |-> batch[k].holder, amount |-> batch[k].amount, action |-> ActionId(m, batch[k])]]

\* The bounds of the environment leave room for everything a list causes.
ASSUME ListsFit ==
  /\ Timelock \in Callers /\ Donors \subseteq Accounts /\ Donations \subseteq V2Deposits
  /\ \A m \in Manifests :
       /\ \A i \in DOMAIN Csv[m] : Entitlements(m, Csv[m][i]) \in Batches
       /\ \A safe \in SourcesOf(m) : Liability[m][safe] \in V2Deposits
       /\ \A row \in RowsOf[m] : row.amount \in Amounts
\* A hash is not zero.
ASSUME IdentifiersAreActions == \A m \in Manifests : \A row \in RowsOf[m] : ActionId(m, row) \in Actions

\* FAULT: the reserve may not exceed the liability.
OperationSucceedsFault(m) ==
  /\ ~entitlementsSealed /\ Configured = {}
  /\ m \in Unique
  /\ Fits(Total[m])
  /\ v2[Vault] = Total[m]

\* No call of the operation reverts.
OperationSucceeds(m) ==
  /\ ~entitlementsSealed /\ Configured = {}
  /\ m \in Unique
  /\ Fits(Total[m])
  /\ v2[Vault] >= Total[m]

BeginOperation(m) ==
  /\ executing = NoManifest
  /\ m \in planned
  /\ OperationSucceeds(m)
  /\ executing' = m
  /\ step' = 1
  /\ UNCHANGED <<vars, asRecorded, planned, fundVars, batchVars, readVars>>

ExecuteEntitlements ==
  /\ executing # NoManifest
  /\ step <= Len(PlannedBatches(executing))
  /\ SetEntitlements(Timelock, Entitlements(executing, PlannedBatches(executing)[step]))
  /\ step' = step + 1
  /\ UNCHANGED <<asRecorded, planned, executing, fundVars, batchVars>>
  /\ Observed

ExecuteSeal ==
  /\ executing # NoManifest
  /\ step > Len(PlannedBatches(executing))
  /\ SealEntitlements(Timelock)
  /\ executing' = NoManifest
  /\ step' = 1
  /\ UNCHANGED <<asRecorded, planned, fundVars, batchVars>>
  /\ Observed
-----------------------------------------------------------------------------
(* The migration funds.  The fund plan asks nothing of the chain, nor      *)
(* whether the list is valid: packages of any list may be executed at any  *)
(* time, any number of times, and each execution leaves a receipt (module  *)
(* SafeTx).                                                                *)

Receipt(m, safe) == [safe |-> safe, amount |-> Liability[m][safe]]

SendFunding(m, safe) ==
  /\ executing = NoManifest
  /\ safe \in SourcesOf(m)
  /\ SendV2ToVault(safe, Liability[m][safe])
  /\ receipts' = receipts \union {Receipt(m, safe)}
  /\ UNCHANGED <<asRecorded, planned, timelockVars, fundVerified, batchVars>>
  /\ Observed

\* FAULT: one receipt and any balance will do.
FundingReconcilesFault(m) ==
  /\ \E safe \in SourcesOf(m) : Receipt(m, safe) \in receipts
  /\ v2[Vault] > 0

FundingReconciles(m) ==
  /\ \A safe \in SourcesOf(m) : Liability[m][safe] > 0 /\ Receipt(m, safe) \in receipts
  /\ v2[Vault] = Total[m]

FundVerify(m) ==
  /\ Free
  /\ m \notin fundVerified
  /\ SourcesOf(m) # {}
  /\ FundingReconciles(m)
  /\ fundVerified' = fundVerified \union {m}
  /\ UNCHANGED <<vars, asRecorded, planned, timelockVars, receipts, batchVars, readVars>>
-----------------------------------------------------------------------------
(* migrate: the package of one batch.  The command asks the vault about    *)
(* the rows one after the other and writes its file at the end.            *)

Batch(m, i) == Csv[m][i]
NotWrittenFault(m, i) == TRUE   \* FAULT: an existing file is not respected.
IsPackaged(m, i) == \E file \in batchFiles : file.manifest = m /\ file.batch = i
NotWritten(m, i) == ~IsPackaged(m, i)

\* A run whose file exists already ends without a change and is left out.
MigrateStart(m, i) ==
  /\ Free
  /\ NotWritten(m, i)
  /\ m \in Valid
  /\ i \in Proven[m]
  /\ RecordedDeployment
  /\ entitlementsSealed
  /\ job' = [manifest |-> m, batch |-> i, row |-> 1, calls |-> {}]
  /\ UNCHANGED <<vars, asRecorded, planned, timelockVars, fundVars, batchFiles, readVars>>

\* FAULT: only the amount is compared.
EntitlementAgreesFault(m, row) == entitlementV1[row.holder] = row.amount

EntitlementAgrees(m, row) ==
  /\ ActionId(m, row) \in configuredActions
  /\ migrationActionId[row.holder] = ActionId(m, row)
  /\ entitlementV1[row.holder] = row.amount

IsCompleted(m, row) == ActionId(m, row) \in completedActions

\* FAULT: configured actions are taken for completed ones.
RowStateFault(m, row) == IF EntitlementAgrees(m, row) THEN "completed" ELSE "inconsistent"

RowState(m, row) ==
  CASE EntitlementAgrees(m, row) /\ ~IsCompleted(m, row) -> "pending"
    [] EntitlementAgrees(m, row) /\ IsCompleted(m, row) /\ migratedV1[row.holder] = row.amount
         -> "completed"
    [] OTHER -> "inconsistent"

JobBatch == Batch(job.manifest, job.batch)
JobRow == JobBatch[job.row]
JobHasRow == job # NoFile /\ job.row <= Len(JobBatch)

\* The command goes on to the next row.
NextRow(calls) == job' = [job EXCEPT !.row = job.row + 1, !.calls = calls]

\* A row that does not agree with the ledger ends the command.
MigrateRow ==
  /\ executing = NoManifest
  /\ JobHasRow
  /\ LET state == RowState(job.manifest, JobRow) IN
     \/ state = "pending" /\ NextRow(job.calls \union {JobRow})
     \/ state = "completed" /\ NextRow(job.calls)
     \/ state = "inconsistent" /\ job' = NoFile
  /\ UNCHANGED <<vars, asRecorded, planned, timelockVars, fundVars, batchFiles, readVars>>

MigrateWrite ==
  /\ job # NoFile /\ ~JobHasRow
  /\ batchFiles' = batchFiles \union
       {[manifest |-> job.manifest, batch |-> job.batch, calls |-> job.calls]}
  /\ job' = NoFile
  /\ UNCHANGED <<vars, asRecorded, planned, timelockVars, fundVars, readVars>>

KillMigrate ==
  /\ job # NoFile
  /\ job' = NoFile
  /\ UNCHANGED <<vars, asRecorded, planned, timelockVars, fundVars, batchFiles, readVars>>

\* Somebody submits a call of a package; for a replaced recipient with the
\* signature and the deadline the holder has chosen.
SubmitCall(row) ==
  /\ executing = NoManifest
  /\ \E file \in batchFiles : row \in file.calls
  /\ \E deadline \in 0..MaxTime, fee \in V1Fees :
       Migrate(row.holder, row.amount, row.recipient, deadline, fee)
  /\ UNCHANGED <<asRecorded, planned, timelockVars, fundVars, batchVars>>
  /\ Observed
-----------------------------------------------------------------------------
(* verify-migration: three totals, read in three calls.                    *)

ReadLocked ==
  /\ Free
  /\ RecordedDeployment
  /\ reading' = [at |-> "released", locked |-> totalLockedV1, released |-> 0]
  /\ seen' = {Totals}
  /\ evidence' = NoEvidence
  /\ UNCHANGED <<vars, asRecorded, planned, timelockVars, fundVars, batchVars>>

ReadReleased ==
  /\ executing = NoManifest
  /\ reading.at = "released"
  /\ reading' = [reading EXCEPT !.at = "remaining", !.released = totalReleasedV2]
  /\ UNCHANGED <<vars, asRecorded, planned, timelockVars, fundVars, batchVars, seen, evidence>>

ReconcilesFault(read) == TRUE   \* FAULT: the totals are written down uncompared.
Reconciles(read) == read.released = toV2Raw(read.locked)

ReadRemaining ==
  /\ executing = NoManifest
  /\ reading.at = "remaining"
  /\ evidence' = IF Reconciles(reading)
                   THEN [locked |-> reading.locked, released |-> reading.released,
                         remaining |-> remainingV2Liability]
                   ELSE NoEvidence
  /\ reading' = IdleReader
  /\ UNCHANGED <<vars, asRecorded, planned, timelockVars, fundVars, batchVars, seen>>
-----------------------------------------------------------------------------
\* Holders and strangers, and the opening of the market.  V1 that moves
\* between outsiders, pauses and deadlines that pass are left out: module
\* MigrationVault has them, and no command looks at them.
Outside ==
  /\ executing = NoManifest
  /\ \/ \E holder \in Accounts : SomeMigrate(holder)
     \/ \E holder \in Holders, amount \in Amounts : Approve(holder, amount)
     \/ \E from \in Donors, amount \in Donations : SendV2ToVault(from, amount)
     \/ \E authorization \in Signable : SignRecipient(authorization)
     \/ OpenV2Market
  /\ UNCHANGED <<asRecorded, planned, timelockVars, fundVars, batchVars>>
  /\ Observed

AllRows == UNION {RowsOf[m] : m \in Manifests}

MigNext ==
  \/ \E m \in Manifests : Plan(m) \/ BeginOperation(m) \/ FundVerify(m)
  \/ ExecuteEntitlements \/ ExecuteSeal
  \/ \E m \in Manifests, safe \in Safes : SendFunding(m, safe)
  \/ \E m \in Manifests : \E i \in Proven[m] : MigrateStart(m, i)
  \/ MigrateRow \/ MigrateWrite \/ KillMigrate
  \/ \E row \in AllRows : SubmitCall(row)
  \/ ReadLocked \/ ReadReleased \/ ReadRemaining
  \/ DriftOrReturn \/ Outside

MigSpec == MigInit /\ [][MigNext]_migVars

CommandStep == MigrateRow \/ MigrateWrite \/ ReadReleased \/ ReadRemaining

\* Governance executes what is planned and can be executed, a command that
\* was started ends, and the operator comes back to every batch that can be
\* packaged and submits the calls of its package.  Nobody has to bring a
\* deployment back that is not as recorded: migrate refuses until somebody
\* does.
MigFairness ==
  /\ WF_migVars(\E m \in Manifests : BeginOperation(m))
  /\ WF_migVars(ExecuteEntitlements \/ ExecuteSeal)
  /\ WF_migVars(CommandStep)
  /\ \A m \in Manifests : \A i \in Proven[m] : SF_migVars(MigrateStart(m, i))
  /\ \A row \in AllRows : WF_migVars(SubmitCall(row))
MigFairSpec == MigSpec /\ MigFairness
-----------------------------------------------------------------------------
(* Properties.                                                             *)

File == [manifest : Manifests, batch : Nat, calls : SUBSET HolderRow]
Job == [manifest : Manifests, batch : Nat, row : Nat, calls : SUBSET HolderRow]

\* Every variable has its type; an operation is at one of its calls, a
\* command at one of the rows of its batch, and no batch has two packages.
MigTypeOK ==
  /\ asRecorded \in BOOLEAN
  /\ planned \subseteq Valid /\ fundVerified \subseteq Manifests
  /\ executing \in planned \union {NoManifest}
  /\ step \in Nat \ {0}
  /\ receipts \subseteq [safe : Safes, amount : Nat]
  /\ job \in Job \union {NoFile}
  /\ job # NoFile => job.batch \in Proven[job.manifest] /\ job.row \in 1..Len(JobBatch) + 1
  /\ batchFiles \subseteq File
  /\ \A f, g \in batchFiles : f.manifest = g.manifest /\ f.batch = g.batch => f = g
  /\ reading \in [at : {"idle", "released", "remaining"}, locked : Nat, released : Nat]

\* The ledger holds the rows of list m and nothing else.
LedgerIs(m) ==
  /\ Configured = {row.holder : row \in RowsOf[m]}
  /\ \A row \in RowsOf[m] :
       entitlementV1[row.holder] = row.amount
       /\ migrationActionId[row.holder] = ActionId(m, row)

\* What is sealed is one reviewed list, whole: however many lists were
\* planned and whichever operation came first, no batch of another list
\* and no part of a list ever gets into the sealed ledger.
SealedLedgerIsOnePlan == entitlementsSealed => \E m \in planned : LedgerIs(m)

\* A package was made from the sealed list: its rows are in the ledger, under
\* the identifiers of that list, also when it was asked for with another.  It
\* is written once and never completed later, so a row it leaves out is one
\* whose holder has been paid.
PackagesMatchLedger ==
  \A file \in batchFiles :
    \A row \in ToSet(Batch(file.manifest, file.batch)) :
      /\ entitlementsSealed /\ entitlementV1[row.holder] = row.amount
      /\ migrationActionId[row.holder] = ActionId(file.manifest, row)
      /\ row \in file.calls \/ migratedV1[row.holder] = row.amount

\* A funding verification stays good until the seal: the reserve covers the
\* list it was written for, whatever is executed or sent in between.
VerifiedFundingSuffices ==
  \A m \in fundVerified : ~entitlementsSealed => v2[Vault] >= Total[m]

\* The totals a reconciliation writes down side by side were the totals at
\* one moment, although holders migrate between the reads; the liability,
\* which is read last, leaves out nothing that was not released by then.
ReconciliationHeld ==
  evidence # NoEvidence =>
    /\ \E t \in seen : t.locked = evidence.locked /\ t.released = evidence.released
    /\ evidence.released + evidence.remaining <= totalEntitledV2
    /\ evidence.remaining >= remainingV2Liability

\* A plan whose rows have identifiers of their own leads to a sealed ledger
\* once the reserve covers it, also when it was funded twice or something
\* was donated.
FundedPlansSeal ==
  \A m \in Unique : m \in planned /\ v2[Vault] >= Total[m] ~> entitlementsSealed

\* "Timelock configures bounded entitlement batches with unique holder/action
\* IDs, then seals once only after exact reserve sufficiency is available":
\* every plan the command has written, once its funding is verified.
EveryFundedPlanSeals ==
  \A m \in Manifests : m \in planned \intersect fundVerified ~> entitlementsSealed

NobodyKills == <>[][~KillMigrate]_migVars

\* The packages are enough: a holder of the sealed list who is ready, and in
\* whose batch every ownership is proven, is paid by a submitted call, when
\* the operator starts again after every kill and, until the batch is
\* packaged, the market stays closed and the deployment in the end stays, or
\* is put back, as it was recorded.
PackagedHoldersArePaid ==
  NobodyKills =>
    \A m \in Valid : \A i \in Proven[m] : \A row \in ToSet(Csv[m][i]) :
      row.recipient = row.holder =>
        (<>[](ReadyToMigrate(row.holder) /\ LedgerIs(m) /\ (IsPackaged(m, i) \/ RecordedDeployment))
           => <>(migratedV1[row.holder] # 0))
=============================================================================
