---------------------------- MODULE MigrationVault ----------------------------
(***************************************************************************)
(* src/src/BiniMigrationVault.sol with the parts of its two tokens it      *)
(* reads and moves.  Every external function is one action, because a      *)
(* transaction is atomic and a revert leaves no trace; the interleaving is *)
(* that of transactions of the Timelock, the operator, the holders and     *)
(* strangers, in any order.                                                *)
(*                                                                         *)
(* The V1 token is an existing contract that is not in the repository.  It *)
(* is modelled from what the vault asks of it (balanceOf, transferFrom)    *)
(* and from what _lockV1 defends against: a transfer may credit less than  *)
(* it debits.                                                              *)
(*                                                                         *)
(* An operator named XFault is X with one plausible mistake in it; no      *)
(* action uses it.  It serves to see that the properties notice the        *)
(* mistake.                                                                *)
(***************************************************************************)
EXTENDS Integers, FiniteSets, Sequences, SequencesExt

CONSTANTS
  Accounts,     \* every non-zero address that may hold a token
  Zero,         \* address(0)
  Vault,        \* address(this)
  Timelock,     \* the only holder of CONFIG_ROLE
  Actions,      \* non-zero action identifiers (bytes32)
  NoAction,     \* bytes32(0)
  Scale,        \* V1_TO_V2_SCALE
  MaxUint,      \* type(uint256).max; checked arithmetic reverts above it
  MaxRows,      \* MAX_ENTITLEMENTS_PER_CALL
  V1Fees,       \* what a V1 transfer may withhold from its receiver
  BlockedInV2   \* destinations the V2 token refuses while PRE_MARKET

\* Bounds and inputs of the environment.
CONSTANTS
  Amounts,      \* amounts callers pass
  MaxTime,      \* last block timestamp of the model
  Callers,      \* accounts that try the functions reserved to CONFIG_ROLE
  Batches,      \* sequences of entitlement rows they may submit
  Signable,     \* recipient authorisations some holder may sign
  Holders,      \* accounts that hold V1 and may approve the vault
  V1Routes,     \* <<from, to>> pairs between which outsiders move V1
  V2Deposits,   \* amounts of V2 sent to the vault
  InitialV1,    \* V1 balances at deployment of the vault
  InitialV2     \* V2 balances at deployment of the vault

UInt == 0..MaxUint

Row == [holder : Accounts \union {Zero}, amount : UInt, action : Actions \union {NoAction}]
Authorization == [holder : Accounts, recipient : Accounts, amount : UInt, deadline : 0..MaxTime]

\* An address is 160 bits: there are finitely many.
ASSUME Addresses ==
  /\ IsFiniteSet(Accounts) /\ Zero \notin Accounts
  /\ Vault \in Accounts /\ BlockedInV2 \subseteq Accounts
ASSUME ActionIds == NoAction \notin Actions
ASSUME Numbers == Scale \in Nat \ {0} /\ MaxUint \in Nat /\ MaxRows \in Nat /\ MaxTime \in Nat
ASSUME Fees == V1Fees \subseteq Nat
ASSUME Inputs ==
  /\ Amounts \subseteq UInt /\ V2Deposits \subseteq Nat
  /\ Batches \subseteq Seq(Row) /\ Signable \subseteq Authorization
  /\ Holders \subseteq Accounts \ {Vault} /\ V1Routes \subseteq Holders \X Accounts
ASSUME Balances ==
  /\ InitialV1 \in [Accounts -> Nat] /\ InitialV1[Vault] = 0
  /\ InitialV2 \in [Accounts -> Nat] /\ InitialV2[Vault] = 0

VARIABLES
  entitlementsSealed, totalEntitledV1, totalEntitledV2, totalLockedV1, totalReleasedV2,
  entitlementV1,      \* holder -> V1 raw amount
  migratedV1,         \* holder -> V1 raw amount
  migrationActionId,  \* holder -> action
  configuredActions, completedActions,
  v1, v2,             \* token balances
  allowance,          \* V1 a holder lets the vault take
  v2Paused, v2Open,   \* the V2 token's pause flag and market state
  signed,             \* recipient authorisations holders have signed
  now                 \* block.timestamp

ledger == <<entitlementsSealed, totalEntitledV1, totalEntitledV2, totalLockedV1,
            totalReleasedV2, entitlementV1, migratedV1, migrationActionId,
            configuredActions, completedActions>>
tokens == <<v1, v2, allowance>>
world == <<v2Paused, v2Open, signed, now>>
vars == <<ledger, tokens, world>>
-----------------------------------------------------------------------------
toV2Raw(amount) == amount * Scale
remainingV2Liability == totalEntitledV2 - totalReleasedV2

\* Unchecked arithmetic (FAULT: checked arithmetic dropped).
FitsFault(n) == TRUE

\* Checked arithmetic: the transaction reverts unless the result fits.
Fits(n) == n \in UInt

\* The V2 token's _update rule for a destination (module BiniToken).
V2Accepts(to) == ~v2Paused /\ (v2Open \/ to \notin BlockedInV2)

\* Balances after a transfer; from and to may be the same account.
Moved(balances, from, debit, to, credit) ==
  [a \in Accounts |-> balances[a] - (IF a = from THEN debit ELSE 0)
                                 + (IF a = to THEN credit ELSE 0)]

Init ==
  /\ entitlementsSealed = FALSE
  /\ totalEntitledV1 = 0 /\ totalEntitledV2 = 0
  /\ totalLockedV1 = 0 /\ totalReleasedV2 = 0
  /\ entitlementV1 = [a \in Accounts |-> 0]
  /\ migratedV1 = [a \in Accounts |-> 0]
  /\ migrationActionId = [a \in Accounts |-> NoAction]
  /\ configuredActions = {} /\ completedActions = {}
  /\ v1 = InitialV1 /\ v2 = InitialV2
  /\ allowance = [a \in Accounts |-> 0]
  /\ v2Paused = FALSE /\ v2Open = FALSE
  /\ signed = {}
  /\ now = 0
-----------------------------------------------------------------------------
(* setEntitlements.  The rows are checked in order against the writes of   *)
(* the rows before them, so a holder or an action may occur only once in   *)
(* the batch as well as in the ledger; any bad row reverts the whole call. *)

RowIsValid(row) == row.holder # Zero /\ row.amount # 0 /\ row.action # NoAction

\* FAULT: the check that the action is new is missing.
RowIsNewFault(row) ==
  /\ entitlementV1[row.holder] = 0
  /\ migrationActionId[row.holder] = NoAction

RowIsNew(row) ==
  /\ entitlementV1[row.holder] = 0
  /\ migrationActionId[row.holder] = NoAction
  /\ row.action \notin configuredActions

\* FAULT: the holder checks read the ledger as it was before the batch.
RowsAreDistinctFault(rows) ==
  \A i, j \in DOMAIN rows : i # j => rows[i].action # rows[j].action

RowsAreDistinct(rows) ==
  \A i, j \in DOMAIN rows :
    i # j => rows[i].holder # rows[j].holder /\ rows[i].action # rows[j].action

SumOfRows(rows) == FoldLeft(LAMBDA sum, row : sum + row.amount, 0, rows)

HoldersIn(rows) == {rows[i].holder : i \in DOMAIN rows}
RowOf(rows, holder) == CHOOSE row \in {rows[i] : i \in DOMAIN rows} : row.holder = holder

\* No check of the loop fails and no addition overflows.
AcceptsEntitlements(rows) ==
  /\ ~entitlementsSealed
  /\ Len(rows) \in 1..MaxRows
  /\ \A i \in DOMAIN rows : RowIsValid(rows[i]) /\ RowIsNew(rows[i])
  /\ RowsAreDistinct(rows)
  /\ Fits(totalEntitledV1 + SumOfRows(rows))
  /\ Fits(totalEntitledV2 + toV2Raw(SumOfRows(rows)))

SetEntitlements(caller, rows) ==
  /\ caller = Timelock
  /\ AcceptsEntitlements(rows)
  /\ entitlementV1' = [a \in Accounts |->
       IF a \in HoldersIn(rows) THEN RowOf(rows, a).amount ELSE entitlementV1[a]]
  /\ migrationActionId' = [a \in Accounts |->
       IF a \in HoldersIn(rows) THEN RowOf(rows, a).action ELSE migrationActionId[a]]
  /\ configuredActions' = configuredActions \union {rows[i].action : i \in DOMAIN rows}
  /\ totalEntitledV1' = totalEntitledV1 + SumOfRows(rows)
  /\ totalEntitledV2' = totalEntitledV2 + toV2Raw(SumOfRows(rows))
  /\ UNCHANGED <<entitlementsSealed, totalLockedV1, totalReleasedV2, migratedV1,
                 completedActions, tokens, world>>

(* sealEntitlements.  The reserve is compared with the liability at the    *)
(* moment of sealing and never again for all holders together.             *)
\* FAULT: the reserve is only required not to be empty.
ReserveCoversLiabilityFault == v2[Vault] > 0

ReserveCoversLiability == v2[Vault] >= totalEntitledV2

\* sealEntitlements finds something to seal, and the reserve for it.
AcceptsSeal == ~entitlementsSealed /\ totalEntitledV1 # 0 /\ ReserveCoversLiability

SealEntitlements(caller) ==
  /\ caller = Timelock
  /\ AcceptsSeal
  /\ entitlementsSealed' = TRUE
  /\ UNCHANGED <<totalEntitledV1, totalEntitledV2, totalLockedV1, totalReleasedV2,
                 entitlementV1, migratedV1, migrationActionId, configuredActions,
                 completedActions, tokens, world>>
-----------------------------------------------------------------------------
(* migrate.  Anybody may call it for any holder: what the call may do is   *)
(* fixed by the holder's entitlement, allowance and signatures.            *)

\* FAULT: the deadline is not looked at.
ConsentsToFault(holder, recipient, amount, deadline) ==
  \/ recipient = holder
  \/ [holder |-> holder, recipient |-> recipient,
      amount |-> amount, deadline |-> deadline] \in signed

\* _validateRecipient: a holder may receive its own V2 without signing.
ConsentsTo(holder, recipient, amount, deadline) ==
  \/ recipient = holder
  \/ /\ deadline >= now
     /\ [holder |-> holder, recipient |-> recipient,
         amount |-> amount, deadline |-> deadline] \in signed

\* transferFrom(holder, Vault, amount) by a V1 that withholds fee.
V1AfterLock(holder, amount, fee) == Moved(v1, holder, amount, Vault, amount - fee)

\* FAULT: how much arrived is not looked at.
LocksV1Fault(holder, amount, fee) ==
  /\ allowance[holder] >= amount
  /\ v1[holder] >= amount
  /\ fee <= amount

\* _lockV1 succeeds: the transfer did and the vault received all of it.
LocksV1(holder, amount, fee) ==
  /\ allowance[holder] >= amount
  /\ v1[holder] >= amount
  /\ fee <= amount
  /\ V1AfterLock(holder, amount, fee)[Vault] - v1[Vault] = amount

V2AfterRelease(recipient, amount) == Moved(v2, Vault, amount, recipient, amount)

\* FAULT: the recipient's gain is not looked at.
ReleasesV2Fault(recipient, amount) == V2Accepts(recipient)

\* _releaseV2 succeeds: a recipient that is the vault itself receives nothing.
ReleasesV2(recipient, amount) ==
  /\ V2Accepts(recipient)
  /\ V2AfterRelease(recipient, amount)[recipient] - v2[recipient] = amount

\* FAULT: the replay check is missing.
NotMigratedFault(holder) == TRUE

NotMigrated(holder) == migratedV1[holder] = 0

Migrate(holder, amount, recipient, deadline, fee) ==
  /\ entitlementsSealed
  /\ holder # Zero /\ recipient # Zero
  /\ NotMigrated(holder)
  /\ entitlementV1[holder] # 0 /\ amount = entitlementV1[holder]
  /\ ConsentsTo(holder, recipient, amount, deadline)
  /\ v2[Vault] >= toV2Raw(amount)
  /\ Fits(totalLockedV1 + amount) /\ Fits(totalReleasedV2 + toV2Raw(amount))
  /\ migratedV1' = [migratedV1 EXCEPT ![holder] = amount]
  /\ completedActions' = completedActions \union {migrationActionId[holder]}
  /\ totalLockedV1' = totalLockedV1 + amount
  /\ totalReleasedV2' = totalReleasedV2 + toV2Raw(amount)
  /\ LocksV1(holder, amount, fee)
  /\ v1' = V1AfterLock(holder, amount, fee)
  /\ allowance' = [allowance EXCEPT ![holder] = @ - amount]
  /\ ReleasesV2(recipient, toV2Raw(amount))
  /\ v2' = V2AfterRelease(recipient, toV2Raw(amount))
  /\ UNCHANGED <<entitlementsSealed, totalEntitledV1, totalEntitledV2, entitlementV1,
                 migrationActionId, configuredActions, world>>
-----------------------------------------------------------------------------
(* What holders, the funding Safe and strangers do to the two tokens.  The *)
(* vault itself sends tokens in Migrate only and never approves anybody.   *)

Approve(holder, amount) ==
  /\ holder # Vault
  /\ allowance' = [allowance EXCEPT ![holder] = amount]
  /\ UNCHANGED <<ledger, v1, v2, world>>

SendV1(from, to, amount, fee) ==
  /\ from # Vault
  /\ fee <= amount /\ amount <= v1[from]
  /\ v1' = Moved(v1, from, amount, to, amount - fee)
  /\ UNCHANGED <<ledger, v2, allowance, world>>

\* Funding by the migration Safe, or a donation.  V2 that moves between
\* outsiders is left out: the vault reads no balance but its own and,
\* before and after a release, the recipient's.
SendV2ToVault(from, amount) ==
  /\ from # Vault
  /\ V2Accepts(Vault)
  /\ amount <= v2[from]
  /\ v2' = Moved(v2, from, amount, Vault, amount)
  /\ UNCHANGED <<ledger, v1, allowance, world>>

SignRecipient(authorization) ==
  /\ signed' = signed \union {authorization}
  /\ UNCHANGED <<ledger, tokens, v2Paused, v2Open, now>>

SetV2Paused(flag) ==
  /\ v2Paused # flag
  /\ v2Paused' = flag
  /\ UNCHANGED <<ledger, tokens, v2Open, signed, now>>

OpenV2Market ==
  /\ ~v2Open
  /\ v2Open' = TRUE
  /\ UNCHANGED <<ledger, tokens, v2Paused, signed, now>>

Tick ==
  /\ now < MaxTime
  /\ now' = now + 1
  /\ UNCHANGED <<ledger, tokens, v2Paused, v2Open, signed>>

SomeMigrate(holder) ==
  \E amount \in Amounts, recipient \in Accounts \union {Zero}, deadline \in 0..MaxTime,
     fee \in V1Fees : Migrate(holder, amount, recipient, deadline, fee)

Next ==
  \/ \E caller \in Callers, rows \in Batches : SetEntitlements(caller, rows)
  \/ \E caller \in Callers : SealEntitlements(caller)
  \/ \E holder \in Accounts \union {Zero} : SomeMigrate(holder)
  \/ \E holder \in Holders, amount \in Amounts : Approve(holder, amount)
  \/ \E route \in V1Routes, amount \in Amounts, fee \in V1Fees :
       SendV1(route[1], route[2], amount, fee)
  \/ \E from \in Accounts, amount \in V2Deposits : SendV2ToVault(from, amount)
  \/ \E authorization \in Signable : SignRecipient(authorization)
  \/ \E flag \in BOOLEAN : SetV2Paused(flag)
  \/ OpenV2Market
  \/ Tick

Spec == Init /\ [][Next]_vars
-----------------------------------------------------------------------------
(* Properties.                                                             *)

Configured == {a \in Accounts : entitlementV1[a] # 0}
Migrated == {a \in Accounts : migratedV1[a] # 0}

\* Every variable has the type its Solidity declaration gives it; balances
\* are those of the token contracts.
TypeOK ==
  /\ entitlementsSealed \in BOOLEAN
  /\ {totalEntitledV1, totalEntitledV2, totalLockedV1, totalReleasedV2} \subseteq UInt
  /\ entitlementV1 \in [Accounts -> UInt]
  /\ migratedV1 \in [Accounts -> UInt]
  /\ migrationActionId \in [Accounts -> Actions \union {NoAction}]
  /\ configuredActions \subseteq Actions
  /\ completedActions \subseteq Actions
  /\ v1 \in [Accounts -> Nat]
  /\ v2 \in [Accounts -> Nat]
  /\ allowance \in [Accounts -> UInt]
  /\ v2Paused \in BOOLEAN /\ v2Open \in BOOLEAN
  /\ signed \subseteq Authorization
  /\ now \in 0..MaxTime

\* From sealing on, the vault holds at least the V2 it still owes to all
\* holders together (remainingV2Liability): no order of migrations and no
\* third party can make it unable to pay the last one.
Solvent == entitlementsSealed => v2[Vault] >= remainingV2Liability

\* Every V2 the vault has paid out is backed, at the fixed rate, by V1 the
\* vault really holds, whatever the V1 token withholds from a transfer.
ReleasesAreBacked ==
  /\ totalReleasedV2 = toV2Raw(totalLockedV1)
  /\ v1[Vault] >= totalLockedV1

\* The running totals are the sums of the per-holder ledgers, whatever the
\* batches the entitlements came in, so remainingV2Liability never underflows.
TotalsAreSums ==
  /\ totalEntitledV1 = SumFunction(entitlementV1)
  /\ totalEntitledV2 = toV2Raw(totalEntitledV1)
  /\ totalLockedV1 = SumFunction(migratedV1)
  /\ totalReleasedV2 <= totalEntitledV2

\* The per-action flags and the per-holder ledger describe the same
\* migrations: no two holders share an action, and an action is completed
\* exactly when its holder has migrated the whole entitlement.
ActionsAgree ==
  /\ configuredActions = {migrationActionId[a] : a \in Configured}
  /\ completedActions = {migrationActionId[a] : a \in Migrated}
  /\ \A a, b \in Configured : migrationActionId[a] = migrationActionId[b] => a = b
  /\ \A a \in Migrated : migratedV1[a] = entitlementV1[a]

\* V2 leaves the vault only in a transaction that, for one holder, credits
\* that holder or a recipient it signed for before the deadline, and takes
\* the holder's whole entitlement of V1 in exchange.
V2LeavesByConsent ==
  [][v2'[Vault] < v2[Vault] =>
       \E holder, recipient \in Accounts :
         /\ migratedV1[holder] = 0 /\ migratedV1'[holder] = entitlementV1[holder]
         /\ v1'[holder] = v1[holder] - entitlementV1[holder]
         /\ v2'[recipient] = v2[recipient] + toV2Raw(entitlementV1[holder])
         /\ \/ recipient = holder
            \/ \E a \in signed : /\ a.holder = holder /\ a.recipient = recipient
                                 /\ a.amount = entitlementV1[holder]
                                 /\ a.deadline >= now]_vars

\* A migration delivers: every time the vault books a release, that much V2
\* leaves it.
BookedReleasesLeave ==
  [][totalReleasedV2' - totalReleasedV2 > 0 =>
       v2[Vault] - v2'[Vault] = totalReleasedV2' - totalReleasedV2]_vars

\* The vault implements the book of claims: claims frozen by the seal, each
\* settled once at the fixed rate, nothing else taken from escrow or reserve.
Claims == INSTANCE MigrationClaims WITH
  Claimants <- Accounts, claim <- entitlementV1, closed <- entitlementsSealed,
  settled <- Migrated, escrow <- v1[Vault], reserve <- v2[Vault]

ImplementsClaims == Claims!ClaimsSpec

\* What a holder needs to be payable (module Migration).
ReadyToMigrate(holder) ==
  /\ entitlementsSealed
  /\ entitlementV1[holder] # 0
  /\ allowance[holder] >= entitlementV1[holder]
  /\ v1[holder] >= entitlementV1[holder]
  /\ V2Accepts(holder)
=============================================================================
