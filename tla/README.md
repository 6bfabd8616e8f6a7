# Verification of the BINI Token V2 release

TLA+ models of the contracts, scripts and command-line tools that issue BINI
Token V2, migrate V1 holders to it and govern it; the TLC runs that check them
on small instances; and proofs of the properties that matter most, checked by
TLAPS for every value of the constants.

Paths such as `src/src/BiniMigrationVault.sol` are relative to the directory that
holds the repository. `PROJECT.json` maps every definition that models code to
the lines it stands for.

## The system

| Component | State it keeps | Operations | What makes it correct |
| --- | --- | --- | --- |
| `BiniMigrationVault.sol` | entitlements, migrated amounts, action flags, four totals, the seal; balances in V1 and V2 | `setEntitlements`, `sealEntitlements`, `migrate` | solvent for all holders once sealed; V2 leaves only against V1 that arrived, once per holder, to whom the holder agreed |
| `BiniTokenV2.sol` | market state, factory kinds, infrastructure list, pause, roles, balances, implementation | transfers, `openMarket`, `setDexFactory`, `setMarketInfrastructure`, `pause`, `unpause`, upgrade | nothing that is a known market receives BINI before the opening; ordinary contracts do; the opening is final |
| Timelock (OpenZeppelin, `DeployTimelock.s.sol`) | a timestamp per operation, roles | schedule, cancel, execute; four bootstrap transactions | nothing reserved happens before the delay; a done operation never happens again; the deployer ends with no role |
| Governance commands (`rc3_automation.py`, `bini_v2_cli.py`) | operation documents, proposals and evidence on disk | `unpause plan`, `timelock schedule/cancel/execute`, `operation-status`, `configure-market`, `open-market`, `verify-open-market`, `pause plan` | what is checked when a file is written still holds when it is executed; what a reader reports was true while it read; every incident can be ended |
| Safe transactions (`safe-tx inspect/sign/execute/verify`) | signature bundles and receipts on disk, the Safe's nonce | sign, execute, verify | a package is executed once, with a threshold of owners over exactly that transaction |
| Release command line (`deploy`, `distribute`, `verify`) | deployment manifest, distribution package | deploy, distribute, verify | one deployment per manifest; the genesis supply is distributed exactly once; reruns are safe |
| Migration command line (`migration-plan`, `migration-fund plan/verify`, `migrate`, `verify-migration`) | holder lists, plans, funding verifications, batch packages and reconciliations on disk; the vault on chain | plan, fund, verify, package, reconcile | what is sealed is one reviewed list, whole and paid for; packages say what is sealed, and reach every ready holder; what is written down side by side belongs together |
| Evidence (`evidence export-rc3`, `evidence seal-rc3`) | the exported directory, its manifest, `SHA256SUMS`; the artifacts and Git they come from | export, seal | what is sealed is all that was there, JSON whole and of one commit, and sealed once; complete evidence gets sealed |

Transactions are atomic and a revert leaves no trace, so the contracts are
modelled with one action per external function. What is hard is the order of
transactions sent by different parties, the age of what a command read from the
chain when it wrote a file, commands that stop between a broadcast and the
write of a manifest, and commands run again.

## Modules

### MigrationClaims, MigrationVault

`MigrationClaims` is what the migration promises, with no roles, tokens or
signatures: a book of claims is written, closed once, when the reserve is enough
for all of it, and each claim is then settled at most once at a fixed rate;
nothing else leaves the escrow or the reserve.

`MigrationVault` is the contract. `SetEntitlements`, `SealEntitlements` and
`Migrate` translate the three external functions; the conditions a function
reverts on are conjuncts of its guard. Parts of a function that are private
functions in Solidity, or are worth a name, are operators: `RowIsValid`,
`RowIsNew`, `RowsAreDistinct` (the loop of `setEntitlements` checks every row
against the writes of the rows before it), `AcceptsEntitlements` and
`AcceptsSeal` (the whole call does not revert), `ReserveCoversLiability`, `ConsentsTo`
(`_validateRecipient`), `LocksV1` (`_lockV1`), `ReleasesV2` (`_releaseV2`).
`Fits` is checked arithmetic. The environment, mapped as external, moves V1
(with a fee it may withhold), approves, signs, sends V2 to the vault, pauses
and opens V2 and lets time pass. `Claims` is the refinement mapping.

| State | Code |
| --- | --- |
| `entitlementV1`, `migratedV1`, `migrationActionId`, `configuredActions`, `completedActions`, totals, `entitlementsSealed` | the storage of the contract, same names |
| `v1`, `v2`, `allowance` | balances and the vault's allowance in the two tokens |
| `v2Paused`, `v2Open` | `paused()` and `marketOpen()` of V2; `BlockedInV2` are the destinations its policy refuses |
| `signed` | EIP-712 or ERC-1271 authorisations holders have given |

The vault's admin role, also held by the Timelock, could appoint other holders
of `CONFIG_ROLE`; the model has one.

### BiniToken

The token. `isRecognizedDexPool` keeps the structure of the code (code, factory,
kind, pair, confirmation by the factory) and abstracts the gas-limited probes
into what the probed contracts answer: `FactoryOf`, `QuotesBini`, `created`. A
factory has a real interface, `RealKind`, and answers only when it was
registered with that kind. Contracts and pools appear at any time, so an address
can hold BINI before it becomes a pool. Factories always answer; one that stops
answering makes its pools ordinary recipients, as the threat model says.

### Timelock, TimelockStatus

`Timelock` is the controller as `DeployTimelock.s.sol` configures it: the
Governance Safe proposes and executes, the Security Safe cancels. The
contract's timestamp is split into `status` and the time `left`, which makes
the state finite without a bound on the clock. `waited` is a history variable:
the time since the last scheduling, counted independently of `left`.

`TimelockStatus` adds `timelock operation-status`, one action per call to the
node, with the queue moving in between. `held` collects the states the
operation was in since the command started.

### Governance

`Governance` composes `Timelock` (by EXTENDS) and `BiniToken` (by INSTANCE) with
the commands that write operations and the Safes that send them. A plan is a
file; `documents` are operation documents (`unpause plan`, or written by hand),
`proposals` the schedule and execute proposals of `configure-market` and
`open-market`. A package is a function of its file, so a Safe may send any of
them at any time and again. The Safes may also call the token directly
(`SendDirectly`): `pause plan`, or an attempt at what is reserved to the
Timelock, which succeeds only with a role the Timelock has granted. An operation
is identified by its calls and its salt. What the commands plan has one salt,
because they derive it from fixed texts, the policy hash or the deployment.
`Calls` dispatches an executed operation to the token's actions; `ApplyPolicy`
is the batch of `setDexFactory` and `setMarketInfrastructure` calls.

`validate_timelock_operation` takes a document for any call, so `Drafts`, the
documents written by hand, may call any function of the token the Timelock has a
role for (the opening, the registries, roles, pause, unpause, upgrade) or another
contract; they have a salt of their own, so a hand-written `openMarket` is another
operation than the planned one. `DraftSets` bounds which of them there are
together in a run; the proofs are for every set of them. Not among them are the
operations that replace what the model is about: the Timelock's own delay and
roles, the token's default admin, an upgrade to logic other than this one.
Predecessors, which the commands always write as zero, and the renouncing of a
role by a Safe are left out too.

### GovernanceWatch

Governance with its two readers. `operation-status` (module `TimelockStatus`) is
asked about the unpause; `verify-open-market` reads the market state, then the
operation, and writes evidence. One operator runs them one after the other; the
chain, the Safes and the planning commands go on between the reads. `Verifiable`
are the operations the command takes: the package of `open-market`, or any
operation document whose target answers `marketOpen()`, whatever it calls. That the Timelock's call of `openMarket`
would revert is the third thing it looks at (`OpenedBy`); supply and balances
cannot change in this module and are left out.

### SafeTx

`safe-tx sign`, `execute` and `verify` for one Safe. The commands run as
processes: each read of the chain, wallet prompt, transaction and file is a step
of its own, other owners and operators move in between, and those in `Mortal`
may be killed at any step. The chain keeps what was sent (`pool`) when the
sender is gone; the transaction may then be mined with nobody waiting for it.

| State | Code |
| --- | --- |
| `log` | what the Safe executed, in order; its length is `nonce()` |
| `owners`, `threshold` | `getOwners()` and `getThreshold()`; the package `Rotation` replaces both |
| `signatures`, `bundles`, `receipts` | files under `safe-tx/signatures/<hash>` and `safe-tx/receipts` |
| `signing`, `executing` | where a command is, and what it has read so far |

A package is a model value; `Sound` are the packages `load_safe_package` and
`validate_multisend_target` let pass. A package at a nonce stands for its Safe
transaction hash. `SignRead` reads nonce and owners together; a signature made
for a nonce that has passed meanwhile is one of the interesting cases and is
there. `execute` reads owners and threshold in two steps, and `verify` those of
today. A write of one file is one step.

### Release

`timelock deploy` and `verify`, `deploy` and `distribute`, before the market
opens. A Foundry script goes on by itself once it has begun (`MineTimelock`,
`MineTokenTimelock`, `MineToken`): a command may be killed while its
transactions are still to be mined, and another operator may start the same
script. The command then reads its addresses from `run-latest.json`, which every
run of a script overwrites (`runLatest`), so it may find the contracts of
somebody else, finished or not.

| State | Code |
| --- | --- |
| `timelocks` | the bootstrap transactions of each Timelock that are mined, out of four; a Timelock of `DeployBiniV2` has its roles from its constructor |
| `tokens` | script, Timelock and transactions mined of each token |
| `bal` | balances in each token: Genesis Safe, recipients, everybody else |
| `runLatest`, `timelockManifest`, `deployment`, `packages` | `run-latest.json` per script, `timelock.json`, `deployment.json`, `distribution-<version>.json` |
| `timelockAddress` | `config.timelockAddress` |
| `commands` | where a command is, and what it has read |
| `executed`, `returned` | history: distributions, and BINI that came back to the Genesis Safe |

The address of the Timelock is put into the configuration only after `timelock
verify`, as the rehearsals do (`src/tools/test-rc3a-anvil.sh:71`); `deploy` does
not look at its roles itself, so without that order the deployer might
administer the Timelock of a recorded token. `distribute` reads the balance of
the Genesis Safe before the others; the nine others are read together, because
only the first decides whether a package may be executed twice. The amounts are
the canonical ones in every version of the ledger. A `deploy` run again reports
`ALREADY_RECORDED` and changes nothing, and `verify` only reads. What else the
owners of the Genesis Safe may sign by hand is not modelled, and the nine Safes
are on nobody's side: they may spend what they have and send it back.

### Migration

The migration as it is carried out. It EXTENDS `MigrationVault`, so each of its
steps on the chain is an action of the vault; the rest are commands, Safes, the
Timelock and files.

| State | Code |
| --- | --- |
| `Csv`, a constant | the holder lists, by their hash, cut into batches |
| `asRecorded` | whether `preflight` and `verify_recorded_deployment` would pass, the market apart |
| `planned` | `migration-plan-*.json` with its Timelock package |
| `executing`, `step` | the Timelock operation of a plan, and the call it has come to |
| `receipts`, `fundVerified` | receipts of funding packages; `funding-verification` files |
| `job`, `batchFiles` | a running `migrate`, and the packages `migrate` has written |
| `reading`, `evidence`, `seen` | a running `verify-migration`, what it wrote, and what the totals were meanwhile |

`ActionId` is what `migration_actions` hashes: the list, the recipient and the
amount, and not the holder. `IsValid` is what `load_holders` and
`validate_migration_accounting` accept.

- `migration-plan`, `migrate` and `verify-migration` begin with
  `verify_recorded_deployment` (`src/tools/bini_v2_cli.py:803`): HEAD, code, supply,
  administrator, delay, implementation and roles must be as the manifest records
  them, and the market closed. `RecordedDeployment` guards the three;
  `DriftOrReturn` makes everything in it but the market true or false at any time
  between two commands, because commits, operations of the Timelock and edits of the
  configuration do. What an upgraded token would do differently is left out.
- The operation of a plan, `setEntitlements` per batch and `sealEntitlements`, is
  one transaction. It is modelled as the steps of the vault it is made of, and
  the chain stands still in between; it begins under `OperationSucceeds`, which
  asks for unique identifiers, a total that fits and a reserve that covers it.
  That this is enough for every call of it, so that it never stops half-way, is
  proved (`MigrationOperationNeverReverts`).
- One operator runs the commands one after the other (`Free`), between
  transactions of everybody else.
- Funding packages ask nothing of the chain, may be of any list, and may be
  executed any number of times.
- `migrate` asks the vault about the rows one after the other. The reads about
  one row are one step: once the ledger is sealed only a migration of that row can
  come between them, and because completion is read before the migrated amount,
  what the command makes of its answers was so at one moment.
- `verify-migration` reads three totals in three steps.
- The Timelock's delay, pauses, V1 that moves between outsiders and deadlines that
  pass are left out; `Timelock`, `BiniToken` and `MigrationVault` have them.

### Evidence

`evidence export-rc3` and `seal-rc3`, and everything they look at: the artifacts
other commands write meanwhile, what Git tracks, ignores and has at HEAD, and the
files of the export. A file is the commit it was made at and whether all of it
is there; the six release inputs are one file.

| State | Code |
| --- | --- |
| `disk` | the files under `artifacts/`; `CreateArtifact` and `FillArtifact` are the two halves of `immutable_write` |
| `inputs`, `working`, `tracked` | the release inputs in each commit and in the working tree; the artifacts in HEAD |
| `Json`, `Bound`, constants | the files whose name ends in `.json`, and those of them that name a commit |
| `Ignored` | what `.gitignore` hides, by network |
| `out`, `manifest`, `sums` | the exported copies, `RC3_EVIDENCE_MANIFEST.json`, `SHA256SUMS` |
| `cmd` | where a running export or seal is |
| `reports`, `began`, `touched` | history: what was reported sealed, the artifacts there when the export began, whether Git was used during it |

An export lists the files of one root before it copies the first, goes to the
next root, and asks Git at the end; artifacts may appear and Git may be used
between any two of these. A command may be killed anywhere, in the middle of a
file too (`Kill`), and files of an export may be lost, replaced or added
(`Tamper`). Seal and schema validation parse JSON only
(`src/tools/rc3_automation.py:2365`, `src/tools/validate-rc3-schemas.py:69`); of
another file, such as the logs the rehearsals write, the digest is compared, so one
that was exported half-written is sealed as it was exported. The order of the copies within a root is open. Nobody touches the
directory while a command runs on it, and nobody commits it: Git ignores the
place. An output directory that holds nothing but empty directories counts as
empty.

Operators whose name ends in `Fault` or `Lost` are plausible mistakes in the operator they
are named after. No action uses them; they show that a property would notice.

## Runs

| Run | Question | Bounds |
| --- | --- | --- |
| `vault_safety` | the vault's safety properties and its refinement of the book of claims | two holders, a funding Safe, the vault as an account; entitlements 1 and 2, scale 2; all batches of up to two rows out of eight (valid, zero holder, zero amount, no action, duplicates) and one that is too long; `MaxUint` 7 so that totals overflow; V1 fee 0 or 1; deadlines and clock 0..1 |
| `token_policy` | the market policy | one factory, one pool, one wallet that imitates a pool of that factory; supply 2 in transfers of 1 and 2; registrations with either kind; role changes for one account |
| `timelock_status_torn` (violation) | every report of `operation-status` was true at some moment | two operations, delay 2, requested delays 1..3 |
| `governance` | powers wait; the market opens over the complete policy; the first pause ends; what the two readers say was true | one factory and one router in the policy; one hand-written operation out of five (`openMarket`, `unpause` under another salt, delisting the router, `UNPAUSER_ROLE` for the Security Safe, revoking the Timelock's); delay 1, requested delays 0..1 |
| `second_pause` (violation) | every pause ends | one factory, no hand-written operation |
| `safe_tx_race` | bundles, reports and receipts are true and verify when operators race and owners change | three accounts; two owners and threshold 1, so that a transaction has several sufficient bundles; a payment and a package after which one owner is another and the threshold 2; two nonces; two operators, in symmetry; one owner's `sign` may be killed |
| `safe_tx_live` | every package is executed, and receipts are true, when `execute` is killed and run again | two owners, threshold 2, one operator, two packages, two nonces |
| `safe_tx_unreceipted` (violation) | every execution gets its receipt | one package, one nonce |
| `release_safety` | what is recorded is deployed, governed and distributed once | two operators, two Timelocks, two tokens, two recipients, a supply of two; two ledgers that add up and one that does not; two units sent back per token |
| `migration` | one list is sealed, packages and reconciliations are true, funding suffices, plans are sealed and ready holders paid | two holders and two Safes that fund; a list of one batch with a replaced recipient, and a list of two batches whose ownerships are not proven; donations of one row's worth; scale 2, no V1 fee, one deadline |
| `migration_same_action` (violation) | every planned and funded list is sealed | a list whose two rows have one recipient and one amount |
| `evidence` | what is sealed is true and sealed once; complete evidence is sealed; Git decides what can be | two artifacts in two roots, one JSON and one not, one of them ignored by Git or both; two commits; any file lost or replaced |

The bounds are enough for the cases the properties are about: two holders are
what it takes for one migration to endanger another or for an action to be
shared; one unit of fee separates exact from inexact; a clock of two values
separates an authorisation in time from one too late; `MaxUint` is reached. A
pool and a lookalike are what recognition has to tell apart. A delay of
one tells an operation that waits from one that is ready, and a requested delay of
zero is refused; `timelock_status_torn` has a delay of two. Two packages and
two nonces are what it takes for a package to be signed at one nonce and executed
at another. Two operators and two runs of a script are what it takes for one
command to read the addresses of the other; two units sent back are the supply,
so that a second distribution is possible. Two lists with the same holders
are what it takes for the batches of one to meet the ledger, the funding or the
packages of the other; two rows of a batch, for one to be migrated while the
other is read. Two roots and two commits are what it takes for an artifact to be
written, and HEAD to move, in the middle of an export.

Deadlock is not checked where the system may rest: everybody migrated, every
operation done, every nonce used, everything distributed.

### Fairness

`governance` assumes that governance goes on planning, scheduling and executing the
unpause and that time passes; nothing is assumed of the Security Safe, so the
property excepts behaviours in which it cancels for ever, and nothing of the
two readers. It also excepts a hand-written operation that revokes a role: without
`UNPAUSER_ROLE` the Timelock cannot unpause. `safe_tx_live` assumes that each owner keeps signing, at the current nonce,
what has not been executed, until a bundle has the signature; that operators
keep executing a bundle with enough signatures; that commands proceed; and that
what is sent is mined and not always refused, although it may be refused often.
Commands are killed finitely often, and owners sign no executed package again
(it would take a nonce).

`migration` assumes that governance executes a planned list that can be executed,
that commands which were started go on, that the operator comes back to every
batch that can be packaged (strong fairness of `MigrateStart`, because other
commands come in between) and submits the calls of its package. The runbook
goes through the batches that way. `migrate` starts only while
`RecordedDeployment` holds, and nobody has to bring a deployment back that has
drifted from its record (no fairness of `DriftOrReturn`): `PackagedHoldersArePaid`
speaks of behaviours in which, until the batch is packaged, the market stays
closed and the deployment in the end stays as recorded. Kills come to an end and
holders have approved their V1 in the end; whoever is not ready is not paid.

`evidence` assumes that a command which was started ends, and that the operator
exports, seals what can be sealed, and discards what cannot (strong fairness,
because artifacts and Git come in between). Kills, tampering, and discards of an
export that could be sealed come to an end.

## Proofs

| Module | Proved | Argument |
| --- | --- | --- |
| `SumLemmas` | what `SumFunctionOnSet` does for finite sets of any size: element by element, in parts, under other names, monotone, extensional | induction over subsets, see below |
| `MigrationVaultProofs` | types, `ActionsAgree`, `Solvent`, `ReleasesAreBacked`, `TotalsAreSums`, `V2LeavesByConsent`, `BookedReleasesLeave`, `ImplementsClaims`; that the reserve covers the sum of all open claims (`VaultCoversEveryClaim`), and that `migrate` is never refused for want of reserve or by a counter (`VaultMigrateIsPayable`) | see below |
| `BiniTokenProofs` | types, `BlockedNeverGains`, `OnlyPolicyBlocks`, `OpeningIsFinal`; that the balances add up to the supply (`TokenSupplyIsFixed`) | the type invariant is inductive; only `Transfer` changes balances, it refuses blocked destinations in the state it starts from, and what it takes from one account it gives to another; whether a factory confirms a pool depends on registries only policy changes and on pools that are never undone (`RecognitionStands`) |
| `GovernanceProofs` | for the queue types, `ExecutionWaits`, `DoneIsFinal`; for governance types (`GovTypeOK`), `PowersWait`, `OpensOverCompletePolicy`, and the token's `OpeningIsFinal` under policy batches (`GovernanceOpeningIsFinal`), and that after the opening no operation on the market is executed, planned or written by hand (`GovernanceMarketOperationsEnd`); for the watched governance `QueueReportsHeld`, `OpenEvidenceIsTrue`, and that it is governance | the invariant of the queue says of a waiting operation that time left and time waited cover the minimum delay, and ready means nothing is left; every step of the composition is a step of the queue or leaves it alone, so the queue's theorems hold of it; a Safe has a reserved role only when an executed hand-written operation granted it (`RolesFollowGrants`), so until then all the Safes can do directly is pause; the invariant `OpeningWasChecked` carries what was compared when the proposal was written to the moment it is executed; for the readers see below |
| `SafeTxProofs` | types, `BundlesAreSigned`, `ReceiptsAreTrue`, `ReportsAreTrue`, `ReceiptsVerify` | see below |
| `ReleaseProofs` | types, `DeploymentIsGoverned`, `OnlyRecordedIsDistributed`, `DistributedOnce`; that in every token the recipients hold what was minted (`ReleaseLosesNothing`) | see below |
| `MigrationProofs` | that a migration is a behaviour of the vault; types, `SealedLedgerIsOnePlan`, `PackagesMatchLedger`, `VerifiedFundingSuffices`, `ReconciliationHeld`; that the sealed liability is the total of the list (`MigrationSealsTheTotal`), and that an operation that begins never reverts (`MigrationOperationNeverReverts`) | see below |
| `EvidenceProofs` | types, `SealedIsTrue`, `SealsAgree`, `SealedIsHiddenFromGit` | see below |

Sums are taken with the community modules' `SumFunctionOnSet`, a `CHOOSE` of a
recursive function that takes elements out of a set in an order of its own. The
library's induction theorems take the predicate as an operator, which no
installed prover can instantiate; `SubsetInduction` takes the set of the subsets
that have the property instead, and rests on the library's theorem that strict
inclusion of finite sets is well-founded (`MinimalSubset`). From it come the
existence and uniqueness of the function behind the sum (`FoldExists`,
`AddsUnique`), that any element may be taken out first (`FoldTakesAny`), and then
rules that no longer mention an order.

For the vault the inductive invariant is `IInv`: types and `ActionsAgree`
together. It is needed because a migration looks its action up: without knowing
that the holder's entitlement and action were written together, nothing
excludes that a migration completes the action of somebody else. Solvency and
backing then follow from one observation on each step: a migration moves
exactly its amount into V1 and exactly `Scale` times it out of V2 (this is what
the two balance comparisons of the code buy), and no other step takes anything
out of the vault. `RunningTotals` says that the totals are the sums of the
holders' entries: a batch adds to the sum of the entitlements what
`setEntitlements` adds in its loop (`BatchAddsItsRows`, with `RowsAddUp` for the
loop), because its holders are distinct and had nothing. The refinement maps each
action to the step of the book of claims it stands for, or to a deposit; the seal
is the book's closing because a covered `totalEntitledV2` is a covered sum. That
the reserve is enough for everybody still to come is then solvency with the
liability written as a sum over those holders, and each of them is a part of it.

For Safe transactions that receipts are true is not inductive, because `execute`
knows of the execution only from what `cast send` returned. `Waits` says that
whoever is said to wait for a transaction does wait, for that bundle, so that an
answer reaches the command that asked; `ReturnedTruly` says that a command that
was told of a success was told the truth, and stays told the truth because the
Safe's history only grows (`ExecutedStays`). A second receipt for a transaction
would record other signers of the same execution, hence uniqueness in `TypeOK`.
That receipts verify needs one thing more, `StillSatisfied`: the signers of an
execution satisfied owners and threshold when it was executed, and still do if
neither it nor a later one was the rotation (`UnchangedSince`).

For the readers of governance `StatusFollows` says what is still true of the
answers `operation-status` has when the chain has moved on. Its one subtle part
is an operation that was not ready when the command asked and is now: it was
pending in between, because scheduling asks for a delay, so PENDING was true
while the command ran. `VerificationFollows` and `OpenedByOperation` say that an
open market stays open, that an executed operation opened it or gave a Safe the
role to, and that a done operation stays done.

For the release commands the inductive invariant is `IInv`: types and
`Consistent`. That a supply is distributed once follows from an account of each
token, `SupplyIsAccounted`: what the Genesis Safe holds and what was distributed
add up to what was minted and what came back. It needs that every package, and
every command about to write one, has a ledger that adds up to the supply
(`PackagesPayTheSupply`). That the recorded token is governed needs
`TimelocksAreFinal`: whatever was verified, configured or is some token's
Timelock has all four bootstrap transactions behind it, and nothing mined is
undone (`Grows`). `ReleaseLosesNothing` is about every token at once: a
distribution pays the amounts of a ledger one after the other, and what leaves
the Genesis Safe is the sum of what arrives (`DistributionAddsUp`).

For the migration `StepIsOfTheVault` maps each step to one of the vault or to
none, so the vault's invariant is there from the start; each property has an
invariant on top of it. `LedgerFollowsPlan` says how far the operation being
executed has come: the ledger holds the rows of the batches before `step`, and
nothing else. That it begins with an empty ledger and that every batch of the
list is in the operation is what makes the sealed ledger one whole list.
That the operation never reverts is the converse: under `LedgerFollowsPlan` no
holder of the next batch is in the ledger, none of its identifiers is configured
(`PartOfTheList`, `IdleHaveNoAction`), and what is in the ledger and the batch
together is at most the total of the list (`NextBatchFits`, by comparing the
ledger with `Shares`, what the list gives each account); after the last batch the
two are equal (`WholeListAddsUp`), so the seal compares the reserve with the
total it was compared with at the beginning (`OperationIsFunded`).
`ReserveIsKept`: nothing leaves the vault before the seal. `PackagesFollowLedger`
carries what `migrate` found about a row through the rows after it; a sealed
ledger stands (`SealedLedgerStands`), and a row once paid stays paid.
`ReaderFollowsTotals`: `verify-migration` compares what it has read first with
what it reads second, and since both only grow, equality means that nothing was
migrated in between.

For the evidence the invariant follows a file from the artifacts to the report.
`WorldOK`: an artifact is never rewritten and names the commit it was made at,
which is older than any commit it is part of. `ExportFollows`: a copy is the
artifact, or of one that was being written (`CopiesAreTrue`); the seal refuses the
latter when it is JSON. `ManifestTells`: what the manifest
records of artifacts and inputs. `SealFollows`: what was compared when a seal began
holds until it ends. That an artifact visible to Git is never sealed is the
meeting of the first and the last: the tree is clean, so the artifact is in
HEAD, so it was made before HEAD, so it names another commit than the manifest.

The proofs assume what the modules' `ASSUME`s say of their constants and nothing
about numbers of holders, operations, lists, pools or files: addresses are
distinct and, having 160 bits, finitely many; the scale and the delay are
positive, inputs are of their types. In `Migration`, `ListsFit` says that the
amounts the environment may move include those the lists ask for, and
`IdentifiersAreActions` that the hash of a row is not zero; in `Evidence`, `Markers` that the marks for a missing file are
not files; in `TimelockStatus`, that no report is not a report. TLC evaluates all of
them.

Model-checked only: the liveness properties (`FirstPauseEnds`, `PackagesExecute`,
`FundedPlansSeal`, `PackagedHoldersArePaid`, `CompleteEvidenceIsSealed`), because
fairness and ENABLED are out of the prover's reach, and the violations.
`MigrationOperationNeverReverts` is the part of `FundedPlansSeal` that is a safety
property. Some theorems state what no run checks: `ExecutionWaits` and
`DoneIsFinal`, the rules of the library's queue; what the opening leaves to
governance (`GovernanceOpeningIsFinal`, `GovernanceMarketOperationsEnd`); and those
about sums (`TokenSupplyIsFixed`, `ReleaseLosesNothing`, `VaultCoversEveryClaim`,
`VaultMigrateIsPayable`, `MigrationSealsTheTotal`, `MigrationOperationNeverReverts`).

## What the code does differently from its documents

- `second_pause`: `unpause plan` always writes the same operation, so it works
  once per token. A second incident needs an operation written by hand.
- `timelock_status_torn`: `operation-status` can report a state the operation
  never had while the command ran, when the operation is executed between its
  reads. Reports of PENDING, READY and DONE were true (`QueueReportsHeld`).
- `safe_tx_unreceipted`: when `safe-tx execute` stops after its transaction was
  sent and before it writes the receipt, no later run writes it: the nonce has
  passed and there is no receipt to report.
- `migration_same_action`: the identifier of a row is a hash of the list, the
  recipient and the amount (`src/tools/bini_v2_cli.py:1312`). Two holders with one
  recipient and one amount are accepted by `migration-plan` and share it; the vault
  refuses the second, and the Timelock operation of a reviewed and funded plan
  reverts for ever.
- A file that is not JSON is sealed however much of it was there when it was
  exported; `SealedIsTrue` says "in full" of JSON files only.
- In PLAN mode `open-market`, `migration-plan` and `migrate` print their package
  without reading the chain, and the local rehearsal executes what they printed
  (`src/tools/test-rc3a-anvil.sh:181`, `:204`, `:217`). The Safes of the models send
  what is on file, so `OpensOverCompletePolicy` and the properties of `Migration`
  speak of packages written in SAFE_PROPOSAL or SIMULATE mode, after the checks.
- A batch with one row whose ownership is PENDING is never packaged, its proven
  rows included: `PackagedHoldersArePaid` speaks of proven batches only.
- `verify-open-market` takes any operation document and does not ask what the
  operation calls (`src/tools/rc3_automation.py:2113`). That the market is open, and
  was opened through the queue, is true nevertheless (`OpenEvidenceIsTrue`); the
  operation its evidence names need not be the opening, and the opening need not
  be the operation `open-market` planned.
- On Sepolia the evidence cannot be sealed by the commands alone. `.gitignore`
  hides `artifacts/deployments` and the local rehearsal's directory, but not
  `artifacts/sepolia`, whose manifests make the tree dirty; when they are
  committed, HEAD is another commit than the one they name.
  `SealedIsHiddenFromGit` is that rule.
- The export asks whether the tree is clean at its end, after everything is
  copied. An edit of a release input that is taken back in time goes unnoticed
  (`touched` in `SealedIsTrue`).
- `src/review/03_PHASE1_DISTRIBUTION.md:33` says that `distribute`, run again after
  execution, returns `ALREADY_DISTRIBUTED`. It does while the balances are
  exactly those of the ledger; once a Safe has spent or somebody has sent BINI to
  one of the Safes the command refuses, as for a partial distribution. It writes no
  second package while BINI is missing either way, and a second distribution is
  what `DistributedOnce` is about, so no run is spent on it.
- Receipts are verified against owners and threshold of today, so a true receipt
  stops verifying when one of its signers is replaced or the threshold is raised
  above their number (`src/tools/rc3_automation.py:1515`; the review in
  `src/review/rc3b/00_INDEPENDENT_RC3A_REVIEW.md:41` asks for evidence
  "appropriate to the execution block"). `ReceiptsVerify` has that condition;
  without it TLC finds the rotation.

## Plan

1. Done: the vault and its abstract specification, the token, the Timelock and
   its status command, governance with its readers, and the proofs about them.
2. Done: `SafeTx` and its proofs.
3. Done: `Release`, with the bootstrap of the Timelock, and its proofs.
4. Done: `Migration`, composed with the vault, and its proofs.
5. Done: `Evidence` and its proofs.
6. Done: the theory of sums (`SumLemmas`) and what rests on it: the vault's
   totals, the cover of all open claims, the token's supply, the balances of the
   release, the totals and the operation of a plan.
7. Open: the deployment of Safes, fixture and vault as further scripts in
   `Release`; that the V2 in all accounts around the vault never changes; an
   abstract specification of what a Safe promises, implemented by `SafeTx`.

## Not modelled

- `safes deploy`, `migration-fixture deploy` and `migration-vault deploy`: scripts
  like the ones in `Release`, which run before or beside them. That the chain
  holds the vault of the recorded token is what `Migration` starts from.
- Commands that only read and print (`preflight`, `verify`, `full-status`,
  `safe-tx inspect`, `verify-source`), the test accounts and the pre-market test,
  which leave nothing a property is about.
- Factories outside the token that run out of gas when they are probed: the threat
  model accepts that their pools are ordinary recipients then.
- Formatting and validation of documents beyond the fields the properties need;
  contract verification on explorers; bytecode and storage-layout checks; the
  shell rehearsals (`tools/*.sh`), which script the same commands; static
  documents, schemas and data.
