---------------------------- MODULE MigrationProofs ----------------------------
(***************************************************************************)
(* What holds of the migration for every set of holder lists, accounts and *)
(* Safes, and every number of rows and batches.                            *)
(*                                                                         *)
(* Every step of the migration is a step of the vault, so what is proved   *)
(* of the vault holds here.  On top of that, each property has an          *)
(* invariant of its own: LedgerFollowsPlan says how far the operation that *)
(* is being executed has come, ReserveIsKept that a verified reserve stays *)
(* until the seal, PackagesFollowLedger which rows a running migrate has   *)
(* settled, ReaderFollowsTotals what a running verify-migration has read.  *)
(* The last section shows that Migration may treat the operation of a plan *)
(* as the sequence of its calls: once begun, none of them reverts.         *)
(***************************************************************************)
EXTENDS Migration, MigrationVaultProofs

LEMMA ListTypes ==
  /\ \A m \in Manifests : Csv[m] \in Seq(Seq(HolderRow))
  /\ \A m \in Manifests : \A row \in RowsOf[m] :
       /\ row \in HolderRow
       /\ \E i \in DOMAIN Csv[m] : \E k \in DOMAIN Csv[m][i] : row = Csv[m][i][k]
  /\ \A m \in Manifests : \A i \in DOMAIN Csv[m] : \A k \in DOMAIN Csv[m][i] :
       Csv[m][i][k] \in RowsOf[m]
  <1>1. \A m \in Manifests : Csv[m] \in Seq(Seq(HolderRow))
    BY HolderLists
  <1>2. ASSUME NEW m \in Manifests, NEW row \in RowsOf[m]
        PROVE  /\ row \in HolderRow
               /\ \E i \in DOMAIN Csv[m] : \E k \in DOMAIN Csv[m][i] : row = Csv[m][i][k]
    <2>1. PICK p \in Positions(m) : row = Csv[m][p[1]][p[2]]
      BY <1>2 DEF RowsOf, RowAt
    <2>2. PICK i \in DOMAIN Csv[m] : p \in {i} \X DOMAIN Csv[m][i]
      BY <2>1 DEF Positions
    <2>3. p[1] = i /\ p[2] \in DOMAIN Csv[m][i]
      BY <2>2
    <2>4. Csv[m][i] \in Seq(HolderRow)
      BY <1>1
    <2>5. QED
      BY <2>1, <2>3, <2>4
  <1>3. ASSUME NEW m \in Manifests, NEW i \in DOMAIN Csv[m], NEW k \in DOMAIN Csv[m][i]
        PROVE  Csv[m][i][k] \in RowsOf[m]
    <2>1. <<i, k>> \in Positions(m)
      BY DEF Positions
    <2>2. RowAt(m, <<i, k>>) = Csv[m][i][k]
      BY DEF RowAt
    <2>3. QED
      BY <2>1, <2>2 DEF RowsOf
  <1>4. QED
    BY <1>1, <1>2, <1>3

\* What is being executed was planned.
ExecTypes ==
  /\ asRecorded \in BOOLEAN
  /\ planned \subseteq Valid
  /\ executing \in planned \union {NoManifest}
  /\ step \in Nat \ {0}

LEMMA MigrationExecTypes == MigSpec => []ExecTypes
  <1>1. MigInit => ExecTypes
    BY DEF MigInit, ExecTypes
  <1>2. ExecTypes /\ [MigNext]_migVars => ExecTypes'
    <2> SUFFICES ASSUME ExecTypes, [MigNext]_migVars PROVE ExecTypes'
      OBVIOUS
    <2>1. ASSUME NEW m \in Manifests, Plan(m) \/ BeginOperation(m) \/ FundVerify(m)
          PROVE  ExecTypes'
      BY <2>1 DEF ExecTypes, Plan, BeginOperation, FundVerify, timelockVars
    <2>2. ASSUME ExecuteEntitlements \/ ExecuteSeal PROVE ExecTypes'
      BY <2>2 DEF ExecTypes, ExecuteEntitlements, ExecuteSeal
    <2>3. ASSUME DriftOrReturn PROVE ExecTypes'
      BY <2>3 DEF ExecTypes, DriftOrReturn, timelockVars
    <2>4. ASSUME UNCHANGED <<asRecorded, planned, timelockVars>> PROVE ExecTypes'
      BY <2>4 DEF ExecTypes, timelockVars
    <2>5. QED
      BY <2>1, <2>2, <2>3, <2>4
         DEF MigNext, migVars, SendFunding, MigrateStart, MigrateRow, MigrateWrite, KillMigrate,
             SubmitCall, ReadLocked, ReadReleased, ReadRemaining, Outside
  <1>3. QED
    BY <1>1, <1>2, PTL DEF MigSpec

\* A step of the migration is a step of its vault, or none.
LEMMA StepIsOfTheVault ==
  ASSUME ExecTypes, [MigNext]_migVars
  PROVE  [Next]_vars
  <1>1. ASSUME NEW m \in Manifests, Plan(m) \/ BeginOperation(m) \/ FundVerify(m)
        PROVE  UNCHANGED vars
    BY <1>1 DEF Plan, BeginOperation, FundVerify
  <1>2. ASSUME ExecuteEntitlements PROVE Next
    <2>1. executing \in Manifests /\ step \in DOMAIN Csv[executing]
      <3>1. executing \in Manifests /\ step \in Nat \ {0} /\ step <= Len(Csv[executing])
        BY <1>2 DEF ExecTypes, ExecuteEntitlements, PlannedBatches, Valid
      <3>2. QED
        BY <3>1, ListTypes
    <2>2. Entitlements(executing, Csv[executing][step]) \in Batches /\ Timelock \in Callers
      BY <2>1, ListsFit
    <2>3. QED
      BY <1>2, <2>2 DEF ExecuteEntitlements, PlannedBatches, Next
  <1>3. ASSUME ExecuteSeal PROVE Next
    BY <1>3, ListsFit DEF ExecuteSeal, Next
  <1>4. ASSUME NEW m \in Manifests, NEW safe \in Safes, SendFunding(m, safe) PROVE Next
    BY <1>4, ListsFit, Allocations DEF SendFunding, Next
  <1>5. ASSUME NEW m \in Manifests, NEW i \in Proven[m], MigrateStart(m, i)
        PROVE  UNCHANGED vars
    BY <1>5 DEF MigrateStart
  <1>6. ASSUME \/ MigrateRow \/ MigrateWrite \/ KillMigrate
               \/ ReadLocked \/ ReadReleased \/ ReadRemaining \/ DriftOrReturn
        PROVE  UNCHANGED vars
    BY <1>6 DEF MigrateRow, MigrateWrite, KillMigrate, ReadLocked, ReadReleased, ReadRemaining,
                DriftOrReturn
  <1>7. ASSUME NEW row \in AllRows, SubmitCall(row) PROVE Next
    <2>1. row.holder \in Accounts /\ row.recipient \in Accounts /\ row.amount \in Amounts
      BY ListTypes, ListsFit DEF AllRows, HolderRow
    <2>2. SomeMigrate(row.holder)
      BY <1>7, <2>1 DEF SubmitCall, SomeMigrate
    <2>3. QED
      BY <2>1, <2>2 DEF Next
  <1>8. ASSUME Outside PROVE Next
    BY <1>8, ListsFit DEF Outside, Next
  <1>9. QED
    BY <1>1, <1>2, <1>3, <1>4, <1>5, <1>6, <1>7, <1>8 DEF MigNext, migVars

\* What is proved of the vault holds while lists are planned, funded and
\* packaged: the migration only does to the vault what anybody could do.
THEOREM MigrationIsOfTheVault == MigSpec => Spec
  <1>1. MigInit => Init
    BY DEF MigInit
  <1>2. ExecTypes /\ [MigNext]_migVars => [Next]_vars
    BY StepIsOfTheVault
  <1>3. QED
    BY <1>1, <1>2, MigrationExecTypes, PTL DEF MigSpec, Spec

LEMMA MigrationVaultInvariant == MigSpec => [](IInv /\ Backing)
  BY MigrationIsOfTheVault, VaultInvariant, VaultBacking, PTL
-----------------------------------------------------------------------------
\* What a step of the vault does to a sealed ledger: it stays, and a holder
\* whose migration is recorded anew has migrated its whole entitlement.
LEMMA SealedLedgerStands ==
  ASSUME IInv, [Next]_vars, entitlementsSealed
  PROVE  /\ entitlementsSealed'
         /\ UNCHANGED <<entitlementV1, migrationActionId>>
         /\ \A a \in Accounts : migratedV1'[a] \in {migratedV1[a], entitlementV1[a]}
  <1>1. TypeOK
    BY DEF IInv
  <1>2. ASSUME NEW caller, NEW rows, SetEntitlements(caller, rows) PROVE FALSE
    BY <1>2 DEF SetEntitlements, AcceptsEntitlements
  <1>3. ASSUME NEW caller, SealEntitlements(caller) PROVE FALSE
    BY <1>3 DEF SealEntitlements, AcceptsSeal
  <1>4. ASSUME NEW holder \in Accounts \union {Zero}, NEW amount \in UInt,
               NEW recipient \in Accounts \union {Zero}, NEW deadline \in 0..MaxTime, NEW fee \in Nat,
               Migrate(holder, amount, recipient, deadline, fee)
        PROVE  /\ entitlementsSealed'
               /\ UNCHANGED <<entitlementV1, migrationActionId>>
               /\ \A a \in Accounts : migratedV1'[a] \in {migratedV1[a], entitlementV1[a]}
    BY <1>1, <1>4 DEF Migrate, TypeOK
  <1>5. ASSUME UNCHANGED ledger
        PROVE  /\ entitlementsSealed'
               /\ UNCHANGED <<entitlementV1, migrationActionId>>
               /\ \A a \in Accounts : migratedV1'[a] \in {migratedV1[a], entitlementV1[a]}
    BY <1>5 DEF ledger
  <1>6. QED
    BY <1>1, <1>2, <1>3, <1>4, <1>5, StepKinds, EnvironmentKeepsIInv
-----------------------------------------------------------------------------
\* Until the seal a verified reserve is there in full.
ReserveIsKept ==
  entitlementsSealed \/ \A m \in fundVerified : Total[m] \in Nat /\ v2[Vault] >= Total[m]

LEMMA StepKeepsReserve ==
  ASSUME IInv, ExecTypes, ReserveIsKept, [MigNext]_migVars
  PROVE  ReserveIsKept'
  <1>1. [Next]_vars
    BY StepIsOfTheVault
  <1>2. CASE entitlementsSealed
    BY <1>1, <1>2, SealedLedgerStands DEF ReserveIsKept
  <1>3. CASE ~entitlementsSealed
    <2>1. ~ \E holder \in Accounts \union {Zero}, amount \in UInt,
               recipient \in Accounts \union {Zero}, deadline \in 0..MaxTime, fee \in Nat :
              Migrate(holder, amount, recipient, deadline, fee)
      BY <1>3 DEF Migrate
    <2>2. v2[Vault] \in Nat /\ v2'[Vault] \in Nat /\ v2'[Vault] >= v2[Vault]
      BY <1>1, <2>1, OnlyMigrateReleases
    <2>3. CASE \E m \in Manifests : FundVerify(m)
      <3>1. PICK m \in Manifests : FundVerify(m)
        BY <2>3
      <3>2. fundVerified' = fundVerified \union {m} /\ v2[Vault] = Total[m]
        BY <3>1 DEF FundVerify, FundingReconciles
      <3>3. QED
        BY <1>3, <2>2, <3>2 DEF ReserveIsKept
    <2>4. CASE UNCHANGED fundVerified
      BY <1>3, <2>2, <2>4 DEF ReserveIsKept
    <2>5. \/ \E m \in Manifests : FundVerify(m)
          \/ UNCHANGED fundVerified
      BY DEF MigNext, migVars, fundVars, Plan, BeginOperation, ExecuteEntitlements, ExecuteSeal,
             SendFunding, MigrateStart, MigrateRow, MigrateWrite, KillMigrate, SubmitCall,
             ReadLocked, ReadReleased, ReadRemaining, DriftOrReturn, Outside
    <2>6. QED
      BY <2>3, <2>4, <2>5
  <1>4. QED
    BY <1>2, <1>3

\* A funding verification stays good until the seal, for every set of lists
\* and whatever is sent, planned or executed after it.
THEOREM MigrationFundingSuffices == MigSpec => []VerifiedFundingSuffices
  <1>1. MigInit => ReserveIsKept
    BY DEF MigInit, ReserveIsKept
  <1>2. IInv /\ ExecTypes /\ ReserveIsKept /\ [MigNext]_migVars => ReserveIsKept'
    BY StepKeepsReserve
  <1>3. ReserveIsKept => VerifiedFundingSuffices
    BY DEF ReserveIsKept, VerifiedFundingSuffices
  <1>4. QED
    BY <1>1, <1>2, <1>3, MigrationExecTypes, MigrationVaultInvariant, PTL DEF MigSpec
-----------------------------------------------------------------------------
(* One plan, whole.                                                        *)

\* The row of list m is in the ledger, under the identifier of that list.
IsWritten(m, row) ==
  /\ entitlementV1[row.holder] = row.amount
  /\ migrationActionId[row.holder] = ActionId(m, row)

\* The ledger holds the first n batches of list m and nothing else.
HoldsBatches(m, n) ==
  /\ \A i \in DOMAIN Csv[m] : \A k \in DOMAIN Csv[m][i] : i <= n => IsWritten(m, Csv[m][i][k])
  /\ \A a \in Configured : \E i \in DOMAIN Csv[m] : \E k \in DOMAIN Csv[m][i] :
       i <= n /\ a = Csv[m][i][k].holder

\* Between operations nothing is written before the seal; an operation has
\* written exactly the batches before the call it has come to.
LedgerFollowsPlan ==
  /\ ~entitlementsSealed /\ executing = NoManifest => Configured = {}
  /\ executing # NoManifest =>
       /\ ~entitlementsSealed
       /\ step <= Len(Csv[executing]) + 1
       /\ HoldsBatches(executing, step - 1)
  /\ SealedLedgerIsOnePlan

\* What a list of Valid has that its rows must have to be entitlements.
LEMMA ListsAreSequences ==
  ASSUME NEW m \in Valid
  PROVE  /\ m \in Manifests
         /\ Len(Csv[m]) \in Nat /\ DOMAIN Csv[m] = 1..Len(Csv[m])
         /\ \A i \in DOMAIN Csv[m] : \A k \in DOMAIN Csv[m][i] :
              /\ Csv[m][i][k] \in HolderRow /\ Csv[m][i][k].holder \in Accounts
              /\ Csv[m][i][k].amount # 0 /\ Csv[m][i][k] \in RowsOf[m]
  <1>1. m \in Manifests /\ \A row \in RowsOf[m] : row.amount > 0
    BY DEF Valid, IsValid
  <1>2. Csv[m] \in Seq(Seq(HolderRow))
    BY <1>1, ListTypes
  <1>3. \A row \in RowsOf[m] : row \in HolderRow /\ row.amount # 0 /\ row.holder \in Accounts
    <2>1. \A row \in RowsOf[m] : row \in HolderRow
      BY <1>1, ListTypes
    <2>2. \A row \in HolderRow : row.amount \in Int /\ row.holder \in Accounts
      BY Numbers DEF HolderRow, UInt
    <2>3. QED
      BY <1>1, <2>1, <2>2
  <1>4. QED
    BY <1>1, <1>2, <1>3, ListTypes

\* The ledger of the vault after the batch that is being written.
LEMMA OperationWritesBatch ==
  ASSUME IInv, ExecTypes, LedgerFollowsPlan, ExecuteEntitlements
  PROVE  HoldsBatches(executing, step - 1)'
  <1> DEFINE rows == Entitlements(executing, Csv[executing][step])
  <1>1. executing \in Valid /\ step \in 1..Len(Csv[executing]) /\ HoldsBatches(executing, step - 1)
    BY DEF ExecTypes, ExecuteEntitlements, PlannedBatches, LedgerFollowsPlan, Valid
  <1>2. /\ executing \in Manifests /\ Len(Csv[executing]) \in Nat
        /\ step \in DOMAIN Csv[executing] /\ step \in Nat
    BY <1>1, ListsAreSequences
  <1>3. SetEntitlements(Timelock, rows) /\ executing' = executing /\ step' = step + 1
    BY DEF ExecuteEntitlements, PlannedBatches
  <1>4. rows \in Batches
    BY <1>2, ListsFit
  <1>5. /\ DOMAIN rows = DOMAIN Csv[executing][step]
        /\ \A k \in DOMAIN Csv[executing][step] :
             /\ rows[k].holder = Csv[executing][step][k].holder
             /\ rows[k].amount = Csv[executing][step][k].amount
             /\ rows[k].action = ActionId(executing, Csv[executing][step][k])
    BY DEF Entitlements
  <1> HIDE DEF rows
  <1>6. TypeOK
    BY DEF IInv
  <1>7. /\ \A k \in DOMAIN rows :
             /\ entitlementV1[rows[k].holder] = 0
             /\ entitlementV1'[rows[k].holder] = rows[k].amount
             /\ migrationActionId'[rows[k].holder] = rows[k].action
        /\ \A a \in Accounts \ HoldersIn(rows) :
             /\ entitlementV1'[a] = entitlementV1[a]
             /\ migrationActionId'[a] = migrationActionId[a]
    BY <1>3, <1>4, <1>6, RowsAreWritten
  <1>8. \A a \in HoldersIn(rows) : \E k \in DOMAIN rows : a = rows[k].holder
    BY DEF HoldersIn
  <1>9. ASSUME NEW i \in DOMAIN Csv[executing], NEW k \in DOMAIN Csv[executing][i], i <= step
        PROVE  IsWritten(executing, Csv[executing][i][k])'
    <2>1. CASE i = step
      BY <1>3, <1>5, <1>7, <2>1 DEF IsWritten, ActionId, toV2Raw
    <2>2. CASE i # step
      <3>1. i <= step - 1
        BY <1>1, <1>2, <1>9, <2>2, ListsAreSequences
      <3>2. IsWritten(executing, Csv[executing][i][k])
        BY <1>1, <3>1 DEF HoldsBatches
      <3>3. Csv[executing][i][k].holder \in Accounts /\ Csv[executing][i][k].amount # 0
        BY <1>1, ListsAreSequences
      <3>4. Csv[executing][i][k].holder \notin HoldersIn(rows)
        BY <1>7, <1>8, <3>2, <3>3 DEF IsWritten
      <3>5. QED
        BY <1>3, <1>7, <3>2, <3>3, <3>4 DEF IsWritten, ActionId, toV2Raw
    <2>3. QED
      BY <2>1, <2>2
  <1>10. ASSUME NEW a \in Configured'
         PROVE  \E i \in DOMAIN Csv[executing] : \E k \in DOMAIN Csv[executing][i] :
                  i <= step /\ a = Csv[executing][i][k].holder
    <2>1. a \in Accounts /\ entitlementV1'[a] # 0
      BY <1>10 DEF Configured
    <2>2. CASE a \in HoldersIn(rows)
      BY <1>2, <1>5, <1>8, <2>2
    <2>3. CASE a \notin HoldersIn(rows)
      <3>1. a \in Configured
        BY <1>7, <2>1, <2>3 DEF Configured
      <3>2. PICK i \in DOMAIN Csv[executing] : \E k \in DOMAIN Csv[executing][i] :
              i <= step - 1 /\ a = Csv[executing][i][k].holder
        BY <1>1, <3>1 DEF HoldsBatches
      <3>3. i <= step - 1 => i <= step
        BY <1>1, <1>2, ListsAreSequences
      <3>4. QED
        BY <3>2, <3>3
    <2>4. QED
      BY <2>2, <2>3
  <1>11. executing' = executing /\ step' - 1 = step
    BY <1>2, <1>3
  <1>12. QED
    BY <1>9, <1>10, <1>11 DEF HoldsBatches

LEMMA StepFollowsPlan ==
  ASSUME IInv, ExecTypes, LedgerFollowsPlan, [MigNext]_migVars
  PROVE  LedgerFollowsPlan'
  <1>1. [Next]_vars
    BY StepIsOfTheVault
  <1>2. ASSUME NEW m \in Manifests, BeginOperation(m) PROVE LedgerFollowsPlan'
    <2>1. /\ ~entitlementsSealed' /\ Configured' = {} /\ executing' = m /\ step' = 1
          /\ planned' = planned /\ m \in Valid
      BY <1>2 DEF BeginOperation, OperationSucceeds, ExecTypes, vars, ledger, Configured
    <2>2. DOMAIN Csv[m] = 1..Len(Csv[m]) /\ Len(Csv[m]) \in Nat
      BY <2>1, ListsAreSequences
    <2>3. HoldsBatches(executing, step - 1)'
      BY <2>1, <2>2 DEF HoldsBatches
    <2>4. m # NoManifest
      BY HolderLists
    <2>5. QED
      BY <2>1, <2>2, <2>3, <2>4 DEF LedgerFollowsPlan, SealedLedgerIsOnePlan
  <1>3. ASSUME ExecuteEntitlements PROVE LedgerFollowsPlan'
    <2>1. /\ executing \in Valid /\ executing # NoManifest /\ executing' = executing
          /\ step <= Len(Csv[executing]) /\ step' = step + 1 /\ step \in Nat
      BY <1>3 DEF ExecTypes, ExecuteEntitlements, PlannedBatches
    <2>2. ~entitlementsSealed'
      BY <1>3 DEF ExecuteEntitlements, SetEntitlements, AcceptsEntitlements
    <2>3. Len(Csv[executing]) \in Nat
      BY <2>1, ListsAreSequences
    <2>4. step' <= Len(Csv[executing]') + 1
      BY <2>1, <2>3
    <2>5. HoldsBatches(executing, step - 1)'
      BY <1>3, OperationWritesBatch
    <2>6. QED
      BY <2>1, <2>2, <2>4, <2>5 DEF LedgerFollowsPlan, SealedLedgerIsOnePlan
  <1>4. ASSUME ExecuteSeal PROVE LedgerFollowsPlan'
    <2>1. /\ executing \in planned /\ executing \in Valid /\ executing' = NoManifest
          /\ step > Len(Csv[executing]) /\ HoldsBatches(executing, step - 1)
          /\ step <= Len(Csv[executing]) + 1 /\ step \in Nat
      BY <1>4 DEF ExecTypes, ExecuteSeal, PlannedBatches, LedgerFollowsPlan
    <2>2. /\ entitlementsSealed' /\ planned' = planned
          /\ UNCHANGED <<entitlementV1, migrationActionId>>
      BY <1>4 DEF ExecuteSeal, SealEntitlements, AcceptsSeal
    <2>3. /\ Len(Csv[executing]) \in Nat /\ DOMAIN Csv[executing] = 1..Len(Csv[executing])
          /\ executing \in Manifests
      BY <2>1, ListsAreSequences
    <2>4. \A i \in DOMAIN Csv[executing] : i <= step - 1
      BY <2>1, <2>3
    <2>5. \A row \in RowsOf[executing] : IsWritten(executing, row)
      BY <2>1, <2>3, <2>4, ListTypes DEF HoldsBatches
    <2>6. \A a \in Configured : a \in {row.holder : row \in RowsOf[executing]}
      BY <2>1, <2>3, ListTypes DEF HoldsBatches
    <2>7. \A row \in RowsOf[executing] : row.holder \in Configured
      <3>1. ASSUME NEW row \in RowsOf[executing] PROVE row.holder \in Configured
        <4>1. row.holder \in Accounts /\ row.amount # 0
          BY <2>1, <2>3, ListTypes, ListsAreSequences
        <4>2. QED
          BY <2>5, <4>1 DEF IsWritten, Configured
      <3>2. QED
        BY <3>1
    <2>8. LedgerIs(executing)
      BY <2>5, <2>6, <2>7 DEF LedgerIs, IsWritten
    <2>9. \E m \in planned' : LedgerIs(m)'
      BY <2>1, <2>2, <2>8 DEF LedgerIs, Configured, ActionId, toV2Raw
    <2>10. QED
      BY <2>1, <2>2, <2>9 DEF LedgerFollowsPlan, SealedLedgerIsOnePlan
  <1>5. ASSUME UNCHANGED <<entitlementsSealed, entitlementV1, migrationActionId, timelockVars>>,
               planned \subseteq planned'
        PROVE  LedgerFollowsPlan'
    BY <1>5 DEF LedgerFollowsPlan, SealedLedgerIsOnePlan, HoldsBatches, IsWritten, LedgerIs,
                Configured, ActionId, toV2Raw, timelockVars
  <1>6. QED
    <2>1. ASSUME NEW m \in Manifests, Plan(m) \/ FundVerify(m)
          PROVE  /\ UNCHANGED <<entitlementsSealed, entitlementV1, migrationActionId, timelockVars>>
                 /\ planned \subseteq planned'
      BY <2>1 DEF Plan, FundVerify, vars, ledger
    <2>2. ASSUME NEW m \in Manifests, NEW safe \in Safes, SendFunding(m, safe)
          PROVE  /\ UNCHANGED <<entitlementsSealed, entitlementV1, migrationActionId, timelockVars>>
                 /\ planned \subseteq planned'
      BY <2>2 DEF SendFunding, SendV2ToVault, ledger
    <2>3. ASSUME NEW row, SubmitCall(row)
          PROVE  /\ UNCHANGED <<entitlementsSealed, entitlementV1, migrationActionId, timelockVars>>
                 /\ planned \subseteq planned'
      BY <2>3 DEF SubmitCall, Migrate
    <2>4. ASSUME Outside
          PROVE  /\ UNCHANGED <<entitlementsSealed, entitlementV1, migrationActionId, timelockVars>>
                 /\ planned \subseteq planned'
      BY <2>4 DEF Outside, SomeMigrate, Migrate, Approve, SendV2ToVault, SignRecipient, OpenV2Market, ledger
    <2>5. ASSUME \/ \E m \in Manifests : \E i \in Proven[m] : MigrateStart(m, i)
                 \/ MigrateRow \/ MigrateWrite \/ KillMigrate
                 \/ ReadLocked \/ ReadReleased \/ ReadRemaining \/ DriftOrReturn
                 \/ UNCHANGED migVars
          PROVE  /\ UNCHANGED <<entitlementsSealed, entitlementV1, migrationActionId, timelockVars>>
                 /\ planned \subseteq planned'
      BY <2>5 DEF MigrateStart, MigrateRow, MigrateWrite, KillMigrate, ReadLocked, ReadReleased,
                  ReadRemaining, DriftOrReturn, migVars, vars, ledger
    <2>6. QED
      BY <1>2, <1>3, <1>4, <1>5, <2>1, <2>2, <2>3, <2>4, <2>5 DEF MigNext

LEMMA MigrationLedgerFollowsPlan == MigSpec => []LedgerFollowsPlan
  <1>1. MigInit => LedgerFollowsPlan
    BY DEF MigInit, Init, LedgerFollowsPlan, SealedLedgerIsOnePlan, Configured
  <1>2. IInv /\ ExecTypes /\ LedgerFollowsPlan /\ [MigNext]_migVars => LedgerFollowsPlan'
    BY StepFollowsPlan
  <1>3. QED
    BY <1>1, <1>2, MigrationExecTypes, MigrationVaultInvariant, PTL DEF MigSpec

\* Whatever lists are planned, and in whichever order their operations come,
\* the sealed ledger is one of them, whole.
THEOREM MigrationSealsOnePlan == MigSpec => []SealedLedgerIsOnePlan
  BY MigrationLedgerFollowsPlan, PTL DEF LedgerFollowsPlan
-----------------------------------------------------------------------------
(* Packages.                                                               *)

\* The row agrees with the ledger, and its holder is paid or in the package.
IsSettled(m, row, calls) ==
  /\ IsWritten(m, row)
  /\ row \in calls \/ migratedV1[row.holder] = row.amount

\* A running migrate is at a row of a proven batch that has no package yet;
\* the rows before it agreed with the sealed ledger when it looked.
JobFollowsLedger ==
  job # NoFile =>
    /\ entitlementsSealed
    /\ job \in Job /\ job.batch \in Proven[job.manifest]
    /\ job.row \in 1..Len(JobBatch) + 1
    /\ ~IsPackaged(job.manifest, job.batch)
    /\ \A k \in DOMAIN JobBatch : k < job.row => IsSettled(job.manifest, JobBatch[k], job.calls)

\* A package was finished by such a migrate.
FilesFollowLedger ==
  /\ batchFiles # {} => entitlementsSealed
  /\ batchFiles \subseteq File
  /\ \A f, g \in batchFiles : f.manifest = g.manifest /\ f.batch = g.batch => f = g
  /\ \A file \in batchFiles :
       /\ file.batch \in DOMAIN Csv[file.manifest]
       /\ \A k \in DOMAIN Batch(file.manifest, file.batch) :
            IsSettled(file.manifest, Batch(file.manifest, file.batch)[k], file.calls)

PackagesFollowLedger == JobFollowsLedger /\ FilesFollowLedger

LEMMA BatchesAreSequences ==
  ASSUME NEW m \in Manifests, NEW i \in DOMAIN Csv[m]
  PROVE  /\ Batch(m, i) \in Seq(HolderRow) /\ i \in Nat
         /\ Len(Batch(m, i)) \in Nat /\ DOMAIN Batch(m, i) = 1..Len(Batch(m, i))
         /\ \A k \in DOMAIN Batch(m, i) :
              Batch(m, i)[k] \in HolderRow /\ Batch(m, i)[k].holder \in Accounts
  <1>1. Csv[m] \in Seq(Seq(HolderRow))
    BY ListTypes
  <1>2. Batch(m, i) \in Seq(HolderRow) /\ i \in Nat
    BY <1>1 DEF Batch
  <1>3. \A k \in DOMAIN Batch(m, i) : Batch(m, i)[k] \in HolderRow
    BY <1>2
  <1>4. \A row \in HolderRow : row.holder \in Accounts
    BY DEF HolderRow
  <1>5. QED
    BY <1>2, <1>3, <1>4

\* What a row has been found to be stays true: the ledger stands, and a holder
\* who migrates later migrates the amount of the row.  Therefore transactions
\* and the other commands leave packages alone.
LEMMA OthersKeepPackages ==
  ASSUME IInv, [Next]_vars, PackagesFollowLedger, UNCHANGED batchVars
  PROVE  PackagesFollowLedger'
  <1>1. job' = job /\ batchFiles' = batchFiles
    BY DEF batchVars
  <1>2. ASSUME job # NoFile
        PROVE  /\ entitlementsSealed'
               /\ \A k \in DOMAIN JobBatch : k < job.row =>
                    IsSettled(job.manifest, JobBatch[k], job.calls)'
    <2>1. /\ entitlementsSealed /\ job.manifest \in Manifests
          /\ job.batch \in DOMAIN Csv[job.manifest]
      BY <1>2 DEF PackagesFollowLedger, JobFollowsLedger, Job, Proven
    <2>2. \A k \in DOMAIN JobBatch : JobBatch[k].holder \in Accounts
      BY <2>1, BatchesAreSequences DEF JobBatch
    <2>3. ASSUME NEW k \in DOMAIN JobBatch, k < job.row
          PROVE  IsSettled(job.manifest, JobBatch[k], job.calls)'
      <3>1. IsSettled(job.manifest, JobBatch[k], job.calls)
        BY <1>2, <2>3 DEF PackagesFollowLedger, JobFollowsLedger
      <3>2. QED
        BY <1>1, <2>1, <2>2, <3>1, SealedLedgerStands
           DEF IsSettled, IsWritten, ActionId, toV2Raw, JobBatch, Batch
    <2>4. QED
      BY <2>1, <2>3, SealedLedgerStands
  <1>3. JobFollowsLedger'
    <2>1. SUFFICES ASSUME job' # NoFile PROVE JobFollowsLedger'
      BY DEF JobFollowsLedger
    <2>2. job # NoFile /\ JobBatch' = JobBatch
      BY <1>1, <2>1 DEF JobBatch, Batch
    <2>3. IsPackaged(job.manifest, job.batch)' = IsPackaged(job.manifest, job.batch)
      BY <1>1 DEF IsPackaged
    <2>4. /\ job \in Job /\ job.batch \in Proven[job.manifest]
          /\ job.row \in 1..Len(JobBatch) + 1
          /\ ~IsPackaged(job.manifest, job.batch)
      BY <2>2 DEF PackagesFollowLedger, JobFollowsLedger
    <2>5. QED
      BY <1>1, <1>2, <2>2, <2>3, <2>4 DEF JobFollowsLedger
  <1>4. FilesFollowLedger'
    <2>1. /\ batchFiles # {} => entitlementsSealed
          /\ batchFiles \subseteq File
          /\ \A f, g \in batchFiles : f.manifest = g.manifest /\ f.batch = g.batch => f = g
          /\ \A file \in batchFiles : file.batch \in DOMAIN Csv[file.manifest]
      BY DEF PackagesFollowLedger, FilesFollowLedger
    <2>2. batchFiles # {} => entitlementsSealed'
      BY <2>1, SealedLedgerStands
    <2>3. ASSUME NEW file \in batchFiles, NEW k \in DOMAIN Batch(file.manifest, file.batch)
          PROVE  IsSettled(file.manifest, Batch(file.manifest, file.batch)[k], file.calls)'
      <3>1. /\ entitlementsSealed /\ file.manifest \in Manifests
            /\ file.batch \in DOMAIN Csv[file.manifest]
        BY <2>1 DEF File
      <3>2. Batch(file.manifest, file.batch)[k].holder \in Accounts
        BY <3>1, BatchesAreSequences
      <3>3. IsSettled(file.manifest, Batch(file.manifest, file.batch)[k], file.calls)
        BY DEF PackagesFollowLedger, FilesFollowLedger
      <3>4. QED
        BY <3>1, <3>2, <3>3, SealedLedgerStands DEF IsSettled, IsWritten, ActionId, toV2Raw, Batch
    <2>4. QED
      BY <1>1, <2>1, <2>2, <2>3 DEF FilesFollowLedger, Batch
  <1>5. QED
    BY <1>3, <1>4 DEF PackagesFollowLedger

\* A row that is taken agrees with the ledger.
LEMMA TakenRowsAgree ==
  ASSUME NEW m, NEW row
  PROVE  /\ RowState(m, row) = "pending" => IsWritten(m, row)
         /\ RowState(m, row) = "completed" =>
              IsWritten(m, row) /\ migratedV1[row.holder] = row.amount
  <1>1. CASE ~EntitlementAgrees(m, row)
    <2>1. RowState(m, row) = "inconsistent"
      BY <1>1 DEF RowState
    <2>2. QED
      BY <2>1
  <1>2. CASE EntitlementAgrees(m, row)
    <2>1. IsWritten(m, row)
      BY <1>2 DEF EntitlementAgrees, IsWritten
    <2>2. CASE migratedV1[row.holder] = row.amount
      BY <2>1, <2>2
    <2>3. CASE migratedV1[row.holder] # row.amount
      <3>1. CASE IsCompleted(m, row)
        <4>1. RowState(m, row) = "inconsistent"
          BY <2>3, <3>1 DEF RowState
        <4>2. QED
          BY <4>1
      <3>2. CASE ~IsCompleted(m, row)
        <4>1. RowState(m, row) = "pending"
          BY <1>2, <3>2 DEF RowState
        <4>2. QED
          BY <2>1, <4>1
      <3>3. QED
        BY <3>1, <3>2
    <2>4. QED
      BY <2>2, <2>3
  <1>3. QED
    BY <1>1, <1>2

\* The command goes on to the next row with that row settled.
LEMMA NextRowKeepsPackages ==
  ASSUME PackagesFollowLedger, JobHasRow, NEW STATE calls, NextRow(calls), UNCHANGED vars,
         UNCHANGED batchFiles, calls \in {job.calls, job.calls \union {JobRow}},
         IsSettled(job.manifest, JobRow, calls)
  PROVE  PackagesFollowLedger'
  <1>1. /\ entitlementsSealed /\ job \in Job /\ job.batch \in Proven[job.manifest]
        /\ job.row \in 1..Len(JobBatch) + 1 /\ job.row <= Len(JobBatch)
        /\ ~IsPackaged(job.manifest, job.batch)
        /\ \A k \in DOMAIN JobBatch : k < job.row =>
             IsSettled(job.manifest, JobBatch[k], job.calls)
    BY DEF PackagesFollowLedger, JobFollowsLedger, JobHasRow
  <1>2. job.manifest \in Manifests /\ job.batch \in DOMAIN Csv[job.manifest]
        /\ job.batch \in Nat /\ job.row \in Nat /\ job.calls \subseteq HolderRow
    BY <1>1 DEF Job, Proven
  <1>3. /\ Len(JobBatch) \in Nat /\ DOMAIN JobBatch = 1..Len(JobBatch)
        /\ \A k \in DOMAIN JobBatch : JobBatch[k] \in HolderRow
    BY <1>2, BatchesAreSequences DEF JobBatch
  <1>4. JobRow \in HolderRow /\ calls \subseteq HolderRow /\ job.calls \subseteq calls
    BY <1>1, <1>2, <1>3 DEF JobRow
  <1>5. /\ job'.manifest = job.manifest /\ job'.batch = job.batch
        /\ job'.row = job.row + 1 /\ job'.calls = calls /\ job' \in Job
    <2>1. job = [manifest |-> job.manifest, batch |-> job.batch, row |-> job.row,
                 calls |-> job.calls]
      BY <1>1 DEF Job
    <2>2. job' = [manifest |-> job.manifest, batch |-> job.batch, row |-> job.row + 1,
                  calls |-> calls]
      BY <2>1 DEF NextRow
    <2>3. QED
      BY <1>1, <1>2, <1>4, <2>2 DEF Job
  <1>6. JobBatch' = JobBatch
    BY <1>5 DEF JobBatch, Batch
  <1>7. \A k \in DOMAIN JobBatch : k < job.row + 1 => IsSettled(job.manifest, JobBatch[k], calls)
    <2>1. ASSUME NEW k \in DOMAIN JobBatch, k < job.row + 1
          PROVE  IsSettled(job.manifest, JobBatch[k], calls)
      <3>1. CASE k = job.row
        BY <3>1 DEF JobRow
      <3>2. CASE k # job.row
        <4>1. k < job.row
          BY <1>2, <1>3, <2>1, <3>2
        <4>2. QED
          BY <1>1, <1>4, <4>1 DEF IsSettled
      <3>3. QED
        BY <3>1, <3>2
    <2>2. QED
      BY <2>1
  <1>8. UNCHANGED <<entitlementsSealed, entitlementV1, migrationActionId, migratedV1>>
    BY DEF vars, ledger
  <1>9. JobFollowsLedger'
    <2>1. job'.row \in 1..Len(JobBatch)' + 1
      BY <1>1, <1>2, <1>3, <1>5, <1>6
    <2>2. ~IsPackaged(job.manifest, job.batch)'
      BY <1>1, <1>5 DEF IsPackaged
    <2>3. \A k \in DOMAIN JobBatch' : k < job'.row =>
            IsSettled(job.manifest, JobBatch[k], job.calls)'
      BY <1>5, <1>6, <1>7, <1>8 DEF IsSettled, IsWritten, ActionId, toV2Raw
    <2>4. QED
      BY <1>1, <1>5, <1>8, <2>1, <2>2, <2>3 DEF JobFollowsLedger, IsPackaged
  <1>10. FilesFollowLedger'
    BY <1>8 DEF PackagesFollowLedger, FilesFollowLedger, IsSettled, IsWritten, ActionId, toV2Raw, Batch
  <1>11. QED
    BY <1>9, <1>10 DEF PackagesFollowLedger

LEMMA JobKeepsPackages ==
  ASSUME PackagesFollowLedger, UNCHANGED vars,
         \/ \E m \in Manifests : \E i \in Proven[m] : MigrateStart(m, i)
         \/ MigrateRow \/ MigrateWrite \/ KillMigrate
  PROVE  PackagesFollowLedger'
  <1>1. UNCHANGED <<entitlementsSealed, entitlementV1, migrationActionId, migratedV1>>
    BY DEF vars, ledger
  <1>2. ASSUME UNCHANGED batchFiles PROVE FilesFollowLedger'
    BY <1>1, <1>2 DEF PackagesFollowLedger, FilesFollowLedger, IsSettled, IsWritten, ActionId,
                      toV2Raw, Batch
  <1>3. CASE \E m \in Manifests : \E i \in Proven[m] : MigrateStart(m, i)
    <2>0. PICK m \in Manifests : \E i \in Proven[m] : MigrateStart(m, i)
      BY <1>3
    <2>1. PICK i \in Proven[m] : MigrateStart(m, i)
      BY <2>0
    <2>2. /\ job' = [manifest |-> m, batch |-> i, row |-> 1, calls |-> {}]
          /\ entitlementsSealed /\ ~IsPackaged(m, i) /\ UNCHANGED batchFiles
      BY <2>1 DEF MigrateStart, NotWritten
    <2>3. i \in DOMAIN Csv[m]
      BY DEF Proven
    <2>4. /\ Len(Batch(m, i)) \in Nat /\ DOMAIN Batch(m, i) = 1..Len(Batch(m, i)) /\ i \in Nat
      BY <2>3, BatchesAreSequences
    <2>5. job' \in Job /\ JobBatch' = Batch(m, i)
      BY <2>2, <2>4 DEF Job, JobBatch, Batch
    <2>6. JobFollowsLedger'
      BY <1>1, <2>2, <2>4, <2>5 DEF JobFollowsLedger, IsPackaged
    <2>7. QED
      BY <1>2, <2>2, <2>6 DEF PackagesFollowLedger
  <1>4. CASE MigrateRow
    <2>1. JobHasRow /\ UNCHANGED batchFiles
      BY <1>4 DEF MigrateRow
    <2>2. CASE job' = NoFile
      BY <1>2, <2>1, <2>2 DEF PackagesFollowLedger, JobFollowsLedger
    <2>3. CASE RowState(job.manifest, JobRow) = "pending" /\ NextRow(job.calls \union {JobRow})
      <3>1. IsSettled(job.manifest, JobRow, job.calls \union {JobRow})
        BY <2>3, TakenRowsAgree DEF IsSettled
      <3>2. QED
        BY <2>1, <2>3, <3>1, NextRowKeepsPackages
    <2>4. CASE RowState(job.manifest, JobRow) = "completed" /\ NextRow(job.calls)
      <3>1. IsSettled(job.manifest, JobRow, job.calls)
        BY <2>4, TakenRowsAgree DEF IsSettled
      <3>2. QED
        BY <2>1, <2>4, <3>1, NextRowKeepsPackages
    <2>5. QED
      BY <1>4, <2>2, <2>3, <2>4 DEF MigrateRow
  <1>5. CASE MigrateWrite
    <2> DEFINE file == [manifest |-> job.manifest, batch |-> job.batch, calls |-> job.calls]
    <2>1. /\ job # NoFile /\ ~JobHasRow /\ job' = NoFile
          /\ batchFiles' = batchFiles \union {file}
      BY <1>5 DEF MigrateWrite
    <2>2. /\ entitlementsSealed /\ job \in Job /\ job.batch \in Proven[job.manifest]
          /\ job.row \in 1..Len(JobBatch) + 1
          /\ ~IsPackaged(job.manifest, job.batch)
          /\ \A k \in DOMAIN JobBatch : k < job.row =>
               IsSettled(job.manifest, JobBatch[k], job.calls)
      BY <2>1 DEF PackagesFollowLedger, JobFollowsLedger
    <2>3. /\ job.manifest \in Manifests /\ job.batch \in DOMAIN Csv[job.manifest]
          /\ job.row \in Nat /\ file \in File
      BY <2>2 DEF Job, File, Proven
    <2>4. Len(JobBatch) \in Nat /\ DOMAIN JobBatch = 1..Len(JobBatch)
      BY <2>3, BatchesAreSequences DEF JobBatch
    <2>5. \A k \in DOMAIN JobBatch : k < job.row
      BY <2>1, <2>2, <2>3, <2>4 DEF JobHasRow
    <2>6. file.manifest = job.manifest /\ file.batch = job.batch /\ file.calls = job.calls
      OBVIOUS
    <2> HIDE DEF file
    <2>7. \A k \in DOMAIN Batch(file.manifest, file.batch) :
            IsSettled(file.manifest, Batch(file.manifest, file.batch)[k], file.calls)
      BY <2>2, <2>5, <2>6 DEF JobBatch
    <2>8. \A f \in batchFiles : ~(f.manifest = file.manifest /\ f.batch = file.batch)
      BY <2>2, <2>6 DEF IsPackaged
    <2>9. FilesFollowLedger'
      <3>1. /\ batchFiles' \subseteq File /\ entitlementsSealed'
            /\ \A f, g \in batchFiles' : f.manifest = g.manifest /\ f.batch = g.batch => f = g
            /\ \A f \in batchFiles' : f.batch \in DOMAIN Csv[f.manifest]
        BY <1>1, <2>1, <2>2, <2>3, <2>6, <2>8 DEF PackagesFollowLedger, FilesFollowLedger
      <3>2. ASSUME NEW f \in batchFiles', NEW k \in DOMAIN Batch(f.manifest, f.batch)
            PROVE  IsSettled(f.manifest, Batch(f.manifest, f.batch)[k], f.calls)
        <4>1. CASE f = file
          BY <2>7, <3>2, <4>1
        <4>2. CASE f \in batchFiles
          BY <4>2 DEF PackagesFollowLedger, FilesFollowLedger
        <4>3. QED
          BY <2>1, <4>1, <4>2
      <3>3. ASSUME NEW f \in batchFiles', NEW k \in DOMAIN Batch(f.manifest, f.batch)
            PROVE  IsSettled(f.manifest, Batch(f.manifest, f.batch)[k], f.calls)'
        BY <1>1, <3>2 DEF IsSettled, IsWritten, ActionId, toV2Raw, Batch
      <3>4. QED
        BY <3>1, <3>3 DEF FilesFollowLedger, Batch
    <2>10. QED
      BY <2>1, <2>9 DEF PackagesFollowLedger, JobFollowsLedger
  <1>6. CASE KillMigrate
    BY <1>2, <1>6 DEF KillMigrate, PackagesFollowLedger, JobFollowsLedger
  <1>7. QED
    BY <1>3, <1>4, <1>5, <1>6

LEMMA MigrationPackages == MigSpec => []PackagesFollowLedger
  <1>1. MigInit => PackagesFollowLedger
    BY DEF MigInit, PackagesFollowLedger, JobFollowsLedger, FilesFollowLedger
  <1>2. IInv /\ ExecTypes /\ PackagesFollowLedger /\ [MigNext]_migVars => PackagesFollowLedger'
    <2> SUFFICES ASSUME IInv, ExecTypes, PackagesFollowLedger, [MigNext]_migVars
                 PROVE  PackagesFollowLedger'
      OBVIOUS
    <2>1. [Next]_vars
      BY StepIsOfTheVault
    <2>2. \/ UNCHANGED batchVars
          \/ /\ UNCHANGED vars
             /\ \/ \E m \in Manifests : \E i \in Proven[m] : MigrateStart(m, i)
                \/ MigrateRow \/ MigrateWrite \/ KillMigrate
      BY DEF MigNext, migVars, Plan, BeginOperation, FundVerify, ExecuteEntitlements, ExecuteSeal,
             SendFunding, MigrateStart, MigrateRow, MigrateWrite, KillMigrate, SubmitCall,
             ReadLocked, ReadReleased, ReadRemaining, DriftOrReturn, Outside
    <2>3. QED
      BY <2>1, <2>2, OthersKeepPackages, JobKeepsPackages
  <1>3. QED
    BY <1>1, <1>2, MigrationExecTypes, MigrationVaultInvariant, PTL DEF MigSpec

\* Every package is of the sealed list, and the holders it leaves out are
\* paid, whatever else happens between the reads of migrate.
THEOREM MigrationPackagesMatchLedger == MigSpec => []PackagesMatchLedger
  <1>1. PackagesFollowLedger => PackagesMatchLedger
    <2> SUFFICES ASSUME PackagesFollowLedger,
                        NEW file \in batchFiles,
                        NEW row \in ToSet(Batch(file.manifest, file.batch))
                 PROVE  entitlementsSealed /\ IsSettled(file.manifest, row, file.calls)
      BY DEF PackagesMatchLedger, IsSettled, IsWritten
    <2>1. PICK k \in DOMAIN Batch(file.manifest, file.batch) :
            row = Batch(file.manifest, file.batch)[k]
      BY DEF ToSet
    <2>2. QED
      BY <2>1 DEF PackagesFollowLedger, FilesFollowLedger
  <1>2. QED
    BY <1>1, MigrationPackages, PTL
-----------------------------------------------------------------------------
(* The reconciliation.                                                     *)

\* Once verify-migration has read what is locked, its history holds a moment
\* with that total, when what was released was exactly backed by it; and what
\* it reads as released was released by then.
ReaderFollowsTotals ==
  /\ reading \in [at : {"idle", "released", "remaining"}, locked : Nat, released : Nat]
  /\ reading.at # "idle" =>
       \E t \in seen : t.locked = reading.locked /\ t.released = toV2Raw(t.locked)
  /\ reading.at = "remaining" => reading.released <= totalReleasedV2
  /\ ReconciliationHeld

\* What was released is never taken back.
LEMMA ReleasedGrows ==
  ASSUME IInv, [Next]_vars
  PROVE  /\ totalReleasedV2 \in Nat /\ totalReleasedV2' \in Nat
         /\ totalReleasedV2 <= totalReleasedV2'
  <1>1. TypeOK /\ totalReleasedV2 \in Nat
    BY Numbers DEF IInv, TypeOK, UInt
  <1>2. CASE \E holder \in Accounts \union {Zero}, amount \in UInt,
               recipient \in Accounts \union {Zero}, deadline \in 0..MaxTime, fee \in Nat :
              Migrate(holder, amount, recipient, deadline, fee)
    <2>1. PICK holder \in Accounts \union {Zero}, amount \in UInt,
               recipient \in Accounts \union {Zero}, deadline \in 0..MaxTime, fee \in Nat :
              Migrate(holder, amount, recipient, deadline, fee)
      BY <1>2
    <2> DEFINE paid == toV2Raw(amount)
    <2>2. paid \in Nat
      BY <1>1, <2>1, MigrateMovesExactly
    <2>3. totalReleasedV2' = totalReleasedV2 + paid
      BY <2>1 DEF Migrate
    <2> HIDE DEF paid
    <2>4. QED
      BY <1>1, <2>2, <2>3
  <1>3. CASE ~ \E holder \in Accounts \union {Zero}, amount \in UInt,
               recipient \in Accounts \union {Zero}, deadline \in 0..MaxTime, fee \in Nat :
              Migrate(holder, amount, recipient, deadline, fee)
    BY <1>1, <1>3, OnlyMigrateReleases
  <1>4. QED
    BY <1>2, <1>3

\* Transactions move the totals, after which nothing is claimed about them.
LEMMA TransactionsKeepReader ==
  ASSUME IInv, [Next]_vars, ReaderFollowsTotals, Observed
  PROVE  ReaderFollowsTotals'
  <1>1. reading' = reading /\ evidence' = NoEvidence
        /\ (reading.at # "idle" => seen \subseteq seen')
    BY DEF Observed
  <1>2. totalReleasedV2 \in Nat /\ totalReleasedV2' \in Nat /\ totalReleasedV2 <= totalReleasedV2'
    BY ReleasedGrows
  <1>3. reading \in [at : {"idle", "released", "remaining"}, locked : Nat, released : Nat]
        /\ reading.released \in Nat
    BY DEF ReaderFollowsTotals
  <1>4. ReconciliationHeld'
    BY <1>1 DEF ReconciliationHeld
  <1>5. reading'.at = "remaining" => reading'.released <= totalReleasedV2'
    BY <1>1, <1>2, <1>3 DEF ReaderFollowsTotals
  <1>6. reading'.at # "idle" =>
          \E t \in seen' : t.locked = reading'.locked /\ t.released = toV2Raw(t.locked)
    BY <1>1 DEF ReaderFollowsTotals
  <1>7. QED
    BY <1>1, <1>3, <1>4, <1>5, <1>6 DEF ReaderFollowsTotals, toV2Raw

LEMMA ReadsKeepReader ==
  ASSUME IInv, Backing, ReaderFollowsTotals, UNCHANGED vars,
         ReadLocked \/ ReadReleased \/ ReadRemaining \/ UNCHANGED readVars
  PROVE  ReaderFollowsTotals'
  <1>1. /\ UNCHANGED <<totalLockedV1, totalReleasedV2, totalEntitledV2>>
        /\ remainingV2Liability' = remainingV2Liability
    BY DEF vars, ledger, remainingV2Liability
  <1>2. /\ totalLockedV1 \in Nat /\ totalReleasedV2 \in Nat /\ totalEntitledV2 \in Nat
        /\ totalReleasedV2 = toV2Raw(totalLockedV1)
    BY Numbers DEF IInv, TypeOK, UInt, Backing, ReleasesAreBacked
  <1>3. /\ reading \in [at : {"idle", "released", "remaining"}, locked : Nat, released : Nat]
        /\ reading.at # "idle" =>
             \E t \in seen : t.locked = reading.locked /\ t.released = toV2Raw(t.locked)
        /\ reading.at = "remaining" => reading.released <= totalReleasedV2
        /\ ReconciliationHeld
    BY DEF ReaderFollowsTotals
  <1>4. CASE ReadLocked
    <2>1. /\ reading' = [at |-> "released", locked |-> totalLockedV1, released |-> 0]
          /\ seen' = {Totals} /\ evidence' = NoEvidence
      BY <1>4 DEF ReadLocked
    <2>2. Totals.locked = totalLockedV1 /\ Totals.released = toV2Raw(Totals.locked)
      BY <1>2 DEF Totals
    <2>3. \E t \in seen' : t.locked = reading'.locked /\ t.released = toV2Raw(t.locked)
      BY <2>1, <2>2
    <2>4. QED
      BY <1>2, <2>1, <2>3 DEF ReaderFollowsTotals, ReconciliationHeld, toV2Raw
  <1>5. CASE ReadReleased
    <2>1. /\ reading' = [reading EXCEPT !.at = "remaining", !.released = totalReleasedV2]
          /\ seen' = seen /\ evidence' = evidence /\ reading.at = "released"
      BY <1>5 DEF ReadReleased
    <2>2. reading = [at |-> "released", locked |-> reading.locked, released |-> reading.released]
      BY <1>3, <2>1
    <2>3. reading' = [at |-> "remaining", locked |-> reading.locked, released |-> totalReleasedV2]
      BY <2>1, <2>2
    <2>4. reading' \in [at : {"idle", "released", "remaining"}, locked : Nat, released : Nat]
      BY <1>2, <1>3, <2>3
    <2>5. reading'.released <= totalReleasedV2'
      BY <1>1, <1>2, <2>3
    <2>6. \E t \in seen' : t.locked = reading'.locked /\ t.released = toV2Raw(t.locked)
      BY <1>3, <2>1, <2>3
    <2>7. ReconciliationHeld'
      BY <1>1, <1>3, <2>1 DEF ReconciliationHeld
    <2>8. QED
      BY <2>4, <2>5, <2>6, <2>7 DEF ReaderFollowsTotals, toV2Raw
  <1>6. CASE ReadRemaining
    <2>1. /\ reading' = IdleReader /\ seen' = seen /\ reading.at = "remaining"
          /\ evidence' = IF Reconciles(reading)
                           THEN [locked |-> reading.locked, released |-> reading.released,
                                 remaining |-> remainingV2Liability]
                           ELSE NoEvidence
      BY <1>6 DEF ReadRemaining
    <2>2. ASSUME evidence' # NoEvidence
          PROVE  /\ \E t \in seen' : t.locked = evidence'.locked /\ t.released = evidence'.released
                 /\ evidence'.released + evidence'.remaining <= totalEntitledV2
                 /\ evidence'.remaining >= remainingV2Liability
      <3>1. /\ evidence' = [locked |-> reading.locked, released |-> reading.released,
                             remaining |-> remainingV2Liability]
            /\ reading.released = toV2Raw(reading.locked)
        BY <2>1, <2>2 DEF Reconciles
      <3>2. PICK t \in seen : t.locked = reading.locked /\ t.released = toV2Raw(t.locked)
        BY <1>3, <2>1
      <3>3. t.locked = evidence'.locked /\ t.released = evidence'.released
        BY <3>1, <3>2
      <3>4. reading.released + remainingV2Liability <= totalEntitledV2
        BY <1>2, <1>3, <2>1 DEF remainingV2Liability
      <3>5. remainingV2Liability \in Int
        BY <1>2 DEF remainingV2Liability
      <3>6. QED
        BY <2>1, <3>1, <3>2, <3>3, <3>4, <3>5
    <2>3. ReconciliationHeld'
      BY <1>1, <2>2 DEF ReconciliationHeld
    <2>4. QED
      BY <2>1, <2>3 DEF ReaderFollowsTotals, IdleReader
  <1>7. CASE UNCHANGED readVars
    BY <1>1, <1>3, <1>7 DEF readVars, ReaderFollowsTotals, ReconciliationHeld, toV2Raw
  <1>8. QED
    BY <1>4, <1>5, <1>6, <1>7

LEMMA MigrationReader == MigSpec => []ReaderFollowsTotals
  <1>1. MigInit => ReaderFollowsTotals
    BY DEF MigInit, ReaderFollowsTotals, ReconciliationHeld, IdleReader
  <1>2. IInv /\ Backing /\ ExecTypes /\ ReaderFollowsTotals /\ [MigNext]_migVars
          => ReaderFollowsTotals'
    <2> SUFFICES ASSUME IInv, Backing, ExecTypes, ReaderFollowsTotals, [MigNext]_migVars
                 PROVE  ReaderFollowsTotals'
      OBVIOUS
    <2>1. [Next]_vars
      BY StepIsOfTheVault
    <2>2. \/ Observed
          \/ /\ UNCHANGED vars
             /\ ReadLocked \/ ReadReleased \/ ReadRemaining \/ UNCHANGED readVars
      BY DEF MigNext, migVars, Plan, BeginOperation, FundVerify, ExecuteEntitlements, ExecuteSeal,
             SendFunding, MigrateStart, MigrateRow, MigrateWrite, KillMigrate, SubmitCall,
             ReadLocked, ReadReleased, ReadRemaining, DriftOrReturn, Outside
    <2>3. QED
      BY <2>1, <2>2, TransactionsKeepReader, ReadsKeepReader
  <1>3. QED
    BY <1>1, <1>2, MigrationExecTypes, MigrationVaultInvariant, PTL DEF MigSpec

\* What a reconciliation states side by side was true at one moment, and its
\* liability leaves nothing out, however many holders migrate meanwhile.
THEOREM MigrationReconciles == MigSpec => []ReconciliationHeld
  BY MigrationReader, PTL DEF ReaderFollowsTotals
-----------------------------------------------------------------------------
(* Types.                                                                  *)

FundTypes ==
  /\ fundVerified \subseteq Manifests
  /\ receipts \subseteq [safe : Safes, amount : Nat]

LEMMA MigrationFundTypes == MigSpec => []FundTypes
  <1>1. MigInit => FundTypes
    BY DEF MigInit, FundTypes
  <1>2. FundTypes /\ [MigNext]_migVars => FundTypes'
    <2> SUFFICES ASSUME FundTypes, [MigNext]_migVars PROVE FundTypes'
      OBVIOUS
    <2>1. ASSUME NEW m \in Manifests, FundVerify(m) PROVE FundTypes'
      BY <2>1 DEF FundTypes, FundVerify
    <2>2. ASSUME NEW m \in Manifests, NEW safe \in Safes, SendFunding(m, safe)
          PROVE  FundTypes'
      <3>1. safe \in SourcesOf(m) /\ receipts' = receipts \union {Receipt(m, safe)}
            /\ fundVerified' = fundVerified
        BY <2>2 DEF SendFunding
      <3>2. Liability[m][safe] \in Nat
        BY <3>1, ListsFit, Inputs
      <3>3. Receipt(m, safe) \in [safe : Safes, amount : Nat]
        BY <3>2 DEF Receipt
      <3>4. QED
        BY <3>1, <3>3 DEF FundTypes
    <2>3. CASE UNCHANGED fundVars
      BY <2>3 DEF FundTypes, fundVars
    <2>4. \/ \E m \in Manifests : FundVerify(m)
          \/ \E m \in Manifests, safe \in Safes : SendFunding(m, safe)
          \/ UNCHANGED fundVars
      BY DEF MigNext, migVars, fundVars, Plan, BeginOperation, ExecuteEntitlements, ExecuteSeal,
             MigrateStart, MigrateRow, MigrateWrite, KillMigrate, SubmitCall,
             ReadLocked, ReadReleased, ReadRemaining, DriftOrReturn, Outside
    <2>5. QED
      BY <2>1, <2>2, <2>3, <2>4
  <1>3. QED
    BY <1>1, <1>2, PTL DEF MigSpec

\* The types, with no batch packaged twice: a migrate that is about to write
\* is the only one, and its batch had no package when it began.
THEOREM MigrationTypes == MigSpec => []MigTypeOK
  <1>1. ExecTypes /\ FundTypes /\ PackagesFollowLedger /\ ReaderFollowsTotals => MigTypeOK
    BY DEF ExecTypes, FundTypes, PackagesFollowLedger, JobFollowsLedger, FilesFollowLedger,
           ReaderFollowsTotals, MigTypeOK
  <1>2. QED
    BY <1>1, MigrationExecTypes, MigrationFundTypes, MigrationPackages, MigrationReader, PTL
-----------------------------------------------------------------------------
(* The operation of a plan.                                                *)

\* The rows of a list by position, as IsValid and ActionsAreUnique see them.
LEMMA RowsByPosition ==
  ASSUME NEW m \in Valid, NEW i \in DOMAIN Csv[m], NEW k \in DOMAIN Csv[m][i],
         NEW j \in DOMAIN Csv[m], NEW l \in DOMAIN Csv[m][j]
  PROVE  /\ Csv[m][i][k].holder = Csv[m][j][l].holder => i = j /\ k = l
         /\ m \in Unique /\ ActionId(m, Csv[m][i][k]) = ActionId(m, Csv[m][j][l]) => i = j /\ k = l
  <1> DEFINE p == <<i, k>>
             q == <<j, l>>
  <1>1. p \in Positions(m) /\ q \in Positions(m)
    BY DEF Positions
  <1>2. RowAt(m, p) = Csv[m][i][k] /\ RowAt(m, q) = Csv[m][j][l]
    BY DEF RowAt
  <1>3. p = q => i = j /\ k = l
    OBVIOUS
  <1> HIDE DEF p, q
  <1>4. \A x, y \in Positions(m) : RowAt(m, x).holder = RowAt(m, y).holder => x = y
    BY DEF Valid, IsValid
  <1>5. m \in Unique =>
          \A x, y \in Positions(m) : ActionId(m, RowAt(m, x)) = ActionId(m, RowAt(m, y)) => x = y
    BY DEF Unique, ActionsAreUnique
  <1>6. QED
    BY <1>1, <1>2, <1>3, <1>4, <1>5

\* No two rows of a list have one holder.
LEMMA HoldersAreUnique ==
  ASSUME NEW m \in Valid, NEW r \in RowsOf[m], NEW s \in RowsOf[m], r.holder = s.holder
  PROVE  r = s
  <1>1. m \in Manifests
    BY DEF Valid
  <1>2. PICK i \in DOMAIN Csv[m] : \E k \in DOMAIN Csv[m][i] : r = Csv[m][i][k]
    BY <1>1, ListTypes
  <1>3. PICK k \in DOMAIN Csv[m][i] : r = Csv[m][i][k]
    BY <1>2
  <1>4. PICK j \in DOMAIN Csv[m] : \E l \in DOMAIN Csv[m][j] : s = Csv[m][j][l]
    BY <1>1, ListTypes
  <1>5. PICK l \in DOMAIN Csv[m][j] : s = Csv[m][j][l]
    BY <1>4
  <1>6. i = j /\ k = l
    BY <1>3, <1>5, RowsByPosition
  <1>7. QED
    BY <1>3, <1>5, <1>6

\* What list m entitles each account to when it is written whole.
Share(m, a) ==
  IF \E row \in RowsOf[m] : row.holder = a
    THEN (CHOOSE row \in RowsOf[m] : row.holder = a).amount ELSE 0
Shares(m) == [a \in Accounts |-> Share(m, a)]

LEMMA SharesAreAmounts ==
  ASSUME NEW m \in Valid
  PROVE  /\ \A row \in RowsOf[m] : /\ row.holder \in Accounts /\ row.amount \in Nat
                                   /\ row.amount # 0 /\ Shares(m)[row.holder] = row.amount
         /\ \A a \in Accounts : Shares(m)[a] \in Nat
         /\ \A a \in Accounts \ {row.holder : row \in RowsOf[m]} : Shares(m)[a] = 0
         /\ DOMAIN Shares(m) = Accounts
  <1>1. m \in Manifests /\ \A row \in RowsOf[m] : row.amount > 0
    BY DEF Valid, IsValid
  <1>2. \A row \in RowsOf[m] : row.holder \in Accounts /\ row.amount \in Nat /\ row.amount # 0
    <2>1. \A row \in HolderRow : row.holder \in Accounts /\ row.amount \in Nat
      BY Numbers DEF HolderRow, UInt
    <2>2. QED
      BY <1>1, <2>1, ListTypes
  <1>3. \A row \in RowsOf[m] : Share(m, row.holder) = row.amount
    <2>1. ASSUME NEW row \in RowsOf[m] PROVE Share(m, row.holder) = row.amount
      <3> DEFINE it == CHOOSE r \in RowsOf[m] : r.holder = row.holder
      <3>1. it \in RowsOf[m] /\ it.holder = row.holder
        OBVIOUS
      <3>2. it = row
        BY <3>1, HoldersAreUnique
      <3>3. QED
        BY <3>2 DEF Share
    <2>2. QED
      BY <2>1
  <1>4. ASSUME NEW a \in Accounts PROVE Share(m, a) \in Nat
    <2>1. CASE \E row \in RowsOf[m] : row.holder = a
      BY <1>2, <1>3, <2>1
    <2>2. CASE ~ \E row \in RowsOf[m] : row.holder = a
      BY <2>2 DEF Share
    <2>3. QED
      BY <2>1, <2>2
  <1>5. \A a \in Accounts \ {row.holder : row \in RowsOf[m]} : Share(m, a) = 0
    BY DEF Share
  <1>6. QED
    BY <1>2, <1>3, <1>4, <1>5 DEF Shares

\* The order in which the rows are taken does not matter to their sum.
LEMMA SumOfIsASum ==
  ASSUME NEW R
  PROVE  SumOf(R) = toV2Raw(SumFunctionOnSet([row \in R |-> row.amount], R))
  <1> DEFINE w == [row \in R |-> row.amount]
             P(f) == f = [T \in SUBSET R |->
                            IF T = {} THEN 0 ELSE SomeOf(T).amount + f[T \ {SomeOf(T)}]]
             Q(f) == f = [T \in SUBSET R |->
                            IF T = {} THEN 0 ELSE w[SomeOf(T)] + f[T \ {SomeOf(T)}]]
  <1>1. SumOf(R) = toV2Raw((CHOOSE f : P(f))[R])
    BY Zenon DEF SumOf, MapThenSumSet, MapThenFoldSet, SomeOf
  <1>2. SumFunctionOnSet(w, R) = (CHOOSE f : Q(f))[R]
    BY Zenon DEF SumFunctionOnSet, FoldFunctionOnSet, MapThenFoldSet, SomeOf
  <1>3. \A f : P(f) <=> Q(f)
    <2> SUFFICES ASSUME NEW f PROVE P(f) <=> Q(f)
      OBVIOUS
    <2> DEFINE L == [T \in SUBSET R |->
                            IF T = {} THEN 0 ELSE SomeOf(T).amount + f[T \ {SomeOf(T)}]]
               G == [T \in SUBSET R |->
                            IF T = {} THEN 0 ELSE w[SomeOf(T)] + f[T \ {SomeOf(T)}]]
    <2>1. \A T \in SUBSET R : T # {} => w[SomeOf(T)] = SomeOf(T).amount
      BY DEF SomeOf
    <2>2. L = G
      <3> HIDE DEF w
      <3>1. QED
        BY <2>1
    <2>3. (f = L) <=> P(f)
      BY Zenon
    <2>4. (f = G) <=> Q(f)
      BY Zenon
    <2> HIDE DEF P, Q, L, G
    <2>5. QED
      BY <2>2, <2>3, <2>4
  <1> HIDE DEF P, Q
  <1>4. (CHOOSE f : P(f)) = (CHOOSE f : Q(f))
    BY <1>3, Zenon
  <1>5. QED
    BY <1>1, <1>2, <1>4

\* A list has finitely many rows, and its total is what it entitles all
\* accounts to.
LEMMA ListTotal ==
  ASSUME NEW m \in Valid
  PROVE  /\ IsFiniteSet(RowsOf[m])
         /\ Total[m] = toV2Raw(SumFunctionOnSet(Shares(m), Accounts))
         /\ SumFunctionOnSet(Shares(m), Accounts) \in Nat
  <1> DEFINE R == RowsOf[m]
             h == [row \in R |-> row.holder]
             w == [row \in R |-> row.amount]
             v == Shares(m)
  <1>1. \A row \in R : row.holder \in Accounts /\ row.amount \in Nat /\ v[row.holder] = row.amount
    BY SharesAreAmounts
  <1>2. h \in Injection(R, Accounts)
    BY <1>1, HoldersAreUnique DEF Injection, IsInjective
  <1>3. IsFiniteSet(R)
    BY <1>2, Addresses, FS_Injection
  <1>4. \A a \in Accounts : v[a] \in Int
    BY SharesAreAmounts
  <1>5. SumFunctionOnSet(v, {h[row] : row \in R}) = SumFunctionOnSet(w, R)
    <2>1. h \in [R -> Accounts] /\ \A x, y \in R : h[x] = h[y] => x = y
      BY <1>2 DEF Injection, IsInjective
    <2>2. \A row \in R : w[row] = v[h[row]]
      BY <1>1
    <2> HIDE DEF R, h, w, v
    <2>3. QED
      BY <1>3, <1>4, <2>1, <2>2, Addresses, SumIsReindexed
  <1>6. {h[row] : row \in R} = {row.holder : row \in R}
    OBVIOUS
  <1>7. SumFunctionOnSet(v, Accounts) = SumFunctionOnSet(v, {row.holder : row \in R})
    <2>1. {row.holder : row \in R} \in SUBSET Accounts
      BY <1>1
    <2>2. \A a \in Accounts \ {row.holder : row \in R} : v[a] = 0
      BY SharesAreAmounts
    <2> HIDE DEF R, v
    <2>3. QED
      BY <1>4, <2>1, <2>2, Addresses, SumOverSupport
  <1>8. Total[m] = SumOf(R)
    BY DEF Total, Valid
  <1>9. SumFunctionOnSet(v, Accounts) \in Nat
    <2>1. \A a \in Accounts : v[a] \in Nat
      BY SharesAreAmounts
    <2> HIDE DEF v
    <2>2. QED
      BY <2>1, Addresses, SumIsNat
  <1> HIDE DEF h, v
  <1>10. QED
    BY <1>3, <1>5, <1>6, <1>7, <1>8, <1>9, SumOfIsASum DEF v

\* An account without an entitlement has no action.
IdleHaveNoAction == \A a \in Accounts : entitlementV1[a] = 0 => migrationActionId[a] = NoAction

LEMMA VaultIdleHaveNoAction == Spec => []IdleHaveNoAction
  <1>1. Init => IdleHaveNoAction
    BY DEF Init, IdleHaveNoAction
  <1>2. IInv /\ IdleHaveNoAction /\ [Next]_vars => IdleHaveNoAction'
    <2> SUFFICES ASSUME IInv, IdleHaveNoAction, [Next]_vars PROVE IdleHaveNoAction'
      OBVIOUS
    <2>1. TypeOK
      BY DEF IInv
    <2>2. ASSUME NEW caller \in Callers, NEW rows \in Batches, SetEntitlements(caller, rows)
          PROVE  IdleHaveNoAction'
      <3>1. /\ \A i \in DOMAIN rows : /\ rows[i].amount # 0
                                      /\ entitlementV1'[rows[i].holder] = rows[i].amount
            /\ \A a \in Accounts \ HoldersIn(rows) :
                 /\ entitlementV1'[a] = entitlementV1[a]
                 /\ migrationActionId'[a] = migrationActionId[a]
        BY <2>1, <2>2, RowsAreWritten
      <3>2. \A a \in HoldersIn(rows) : entitlementV1'[a] # 0
        BY <3>1 DEF HoldersIn
      <3>3. QED
        BY <3>1, <3>2 DEF IdleHaveNoAction
    <2>3. ASSUME UNCHANGED <<entitlementV1, migrationActionId>> PROVE IdleHaveNoAction'
      BY <2>3 DEF IdleHaveNoAction
    <2>4. ASSUME \/ \E caller \in Callers : SealEntitlements(caller)
                 \/ \E holder, amount, recipient, deadline, fee :
                      Migrate(holder, amount, recipient, deadline, fee)
                 \/ UNCHANGED ledger
          PROVE  UNCHANGED <<entitlementV1, migrationActionId>>
      BY <2>4 DEF SealEntitlements, Migrate, ledger
    <2>5. QED
      BY <2>1, <2>2, <2>3, <2>4, StepKinds, EnvironmentKeepsIInv
  <1>3. QED
    BY <1>1, <1>2, VaultInvariant, PTL DEF Spec

\* The ledger that holds a list whole, and what it adds up to.
LEMMA WholeListAddsUp ==
  ASSUME IInv, RunningTotals, NEW m \in Valid, LedgerIs(m)
  PROVE  /\ totalEntitledV1 = SumFunctionOnSet(Shares(m), Accounts)
         /\ totalEntitledV2 = Total[m]
  <1>1. entitlementV1 \in [Accounts -> Nat]
    BY Numbers DEF IInv, TypeOK, UInt
  <1>2. \A a \in Accounts : entitlementV1[a] = Shares(m)[a]
    <2>1. ASSUME NEW a \in Accounts PROVE entitlementV1[a] = Shares(m)[a]
      <3>1. CASE a \in Configured
        BY <3>1, SharesAreAmounts DEF LedgerIs
      <3>2. CASE a \notin Configured
        BY <3>2, SharesAreAmounts DEF LedgerIs, Configured
      <3>3. QED
        BY <3>1, <3>2
    <2>2. QED
      BY <2>1
  <1>3. SumFunctionOnSet(entitlementV1, Accounts) = SumFunctionOnSet(Shares(m), Accounts)
    <2>1. \A a \in Accounts : entitlementV1[a] \in Int /\ entitlementV1[a] = Shares(m)[a]
      BY <1>1, <1>2
    <2>2. QED
      BY <2>1, Addresses, SumIsExtensional
  <1>4. SumFunction(entitlementV1) = SumFunctionOnSet(entitlementV1, Accounts)
    BY <1>1 DEF SumFunction
  <1>5. QED
    BY <1>3, <1>4, ListTotal DEF RunningTotals

\* What is sealed entitles its holders to what was reviewed: the liability
\* is the total of the list, which funding was verified against.
SealedTotalIsOfTheList ==
  entitlementsSealed => \E m \in planned : LedgerIs(m) /\ totalEntitledV2 = Total[m]

\* Whichever plan was executed, what the seal compared the reserve with is the
\* total of that list, to the last row.
THEOREM MigrationSealsTheTotal == MigSpec => []SealedTotalIsOfTheList
  <1>1. IInv /\ RunningTotals /\ ExecTypes /\ SealedLedgerIsOnePlan => SealedTotalIsOfTheList
    BY WholeListAddsUp DEF ExecTypes, SealedLedgerIsOnePlan, SealedTotalIsOfTheList
  <1>2. MigSpec => []RunningTotals
    BY MigrationIsOfTheVault, VaultRunningTotals, PTL
  <1>3. QED
    BY <1>1, <1>2, MigrationVaultInvariant, MigrationExecTypes, MigrationSealsOnePlan, PTL

\* A begun operation has the reserve it found when it began; nothing moves
\* the tokens before its last call.
OperationIsFunded ==
  executing # NoManifest =>
    /\ executing \in Unique
    /\ Fits(Total[executing])
    /\ v2[Vault] >= Total[executing]

LEMMA MigrationOperationIsFunded == MigSpec => []OperationIsFunded
  <1>1. MigInit => OperationIsFunded
    BY DEF MigInit, OperationIsFunded
  <1>2. OperationIsFunded /\ [MigNext]_migVars => OperationIsFunded'
    <2> SUFFICES ASSUME OperationIsFunded, [MigNext]_migVars PROVE OperationIsFunded'
      OBVIOUS
    <2>1. ASSUME NEW m \in Manifests, BeginOperation(m) PROVE OperationIsFunded'
      <3>1. executing' = m /\ v2' = v2 /\ m \in Unique /\ Fits(Total[m]) /\ v2[Vault] >= Total[m]
        BY <2>1 DEF BeginOperation, OperationSucceeds, vars, tokens
      <3>2. QED
        BY <3>1 DEF OperationIsFunded, Fits, UInt
    <2>2. ASSUME executing' = executing, v2' = v2 PROVE OperationIsFunded'
      BY <2>2 DEF OperationIsFunded, Fits, UInt
    <2>3. ASSUME executing' = NoManifest PROVE OperationIsFunded'
      BY <2>3 DEF OperationIsFunded
    <2>4. ASSUME ExecuteEntitlements PROVE executing' = executing /\ v2' = v2
      BY <2>4 DEF ExecuteEntitlements, SetEntitlements, tokens
    <2>5. ASSUME ExecuteSeal PROVE executing' = NoManifest
      BY <2>5 DEF ExecuteSeal
    <2>6. ASSUME NEW m \in Manifests, Plan(m) \/ FundVerify(m)
          PROVE  executing' = executing /\ v2' = v2
      BY <2>6 DEF Plan, FundVerify, timelockVars, vars, tokens
    <2>7. ASSUME \/ \E m \in Manifests, safe \in Safes : SendFunding(m, safe)
                 \/ \E row \in AllRows : SubmitCall(row)
                 \/ Outside
          PROVE  executing' = NoManifest
      BY <2>7 DEF SendFunding, SubmitCall, Outside, timelockVars
    <2>8. ASSUME \/ \E m \in Manifests : \E i \in Proven[m] : MigrateStart(m, i)
                 \/ MigrateRow \/ MigrateWrite \/ KillMigrate
                 \/ ReadLocked \/ ReadReleased \/ ReadRemaining \/ DriftOrReturn
                 \/ UNCHANGED migVars
          PROVE  executing' = executing /\ v2' = v2
      BY <2>8 DEF MigrateStart, MigrateRow, MigrateWrite, KillMigrate, ReadLocked, ReadReleased,
                  ReadRemaining, DriftOrReturn, migVars, timelockVars, vars, tokens
    <2>9. QED
      BY <2>1, <2>2, <2>3, <2>4, <2>5, <2>6, <2>7, <2>8 DEF MigNext
  <1>3. QED
    BY <1>1, <1>2, PTL DEF MigSpec

\* Between its calls the ledger has a part of the list, and nothing else.
LEMMA PartOfTheList ==
  ASSUME ExecTypes, LedgerFollowsPlan, executing # NoManifest
  PROVE  /\ executing \in Valid
         /\ \A a \in Configured : \E i \in DOMAIN Csv[executing] : \E k \in DOMAIN Csv[executing][i] :
              /\ i < step /\ a = Csv[executing][i][k].holder
              /\ entitlementV1[a] = Shares(executing)[a]
              /\ migrationActionId[a] = ActionId(executing, Csv[executing][i][k])
  <1> DEFINE m == executing
  <1>1. m \in Valid /\ HoldsBatches(m, step - 1) /\ step \in Nat
    BY DEF ExecTypes, LedgerFollowsPlan
  <1>2. ASSUME NEW a \in Configured
        PROVE  \E i \in DOMAIN Csv[m] : \E k \in DOMAIN Csv[m][i] :
                 /\ i < step /\ a = Csv[m][i][k].holder
                 /\ entitlementV1[a] = Shares(m)[a]
                 /\ migrationActionId[a] = ActionId(m, Csv[m][i][k])
    <2>1. PICK i \in DOMAIN Csv[m] : \E k \in DOMAIN Csv[m][i] :
            i <= step - 1 /\ a = Csv[m][i][k].holder
      BY <1>1 DEF HoldsBatches
    <2>2. PICK k \in DOMAIN Csv[m][i] : i <= step - 1 /\ a = Csv[m][i][k].holder
      BY <2>1
    <2>3. IsWritten(m, Csv[m][i][k])
      BY <1>1, <2>2 DEF HoldsBatches
    <2>4. Csv[m][i][k] \in RowsOf[m] /\ i \in Nat
      BY <1>1, ListsAreSequences
    <2>5. Shares(m)[a] = Csv[m][i][k].amount
      BY <1>1, <2>2, <2>4, SharesAreAmounts
    <2>6. i < step
      BY <1>1, <2>2, <2>4
    <2>7. QED
      BY <2>2, <2>3, <2>5, <2>6 DEF IsWritten
  <1>3. QED
    BY <1>1, <1>2

\* What the batch to come adds to the totals stays within the list's total.
LEMMA NextBatchFits ==
  ASSUME IInv, RunningTotals, ExecTypes, LedgerFollowsPlan, OperationIsFunded,
         executing # NoManifest, step <= Len(Csv[executing])
  PROVE  LET rows == Entitlements(executing, Csv[executing][step])
         IN  /\ Fits(totalEntitledV1 + SumOfRows(rows))
             /\ Fits(totalEntitledV2 + toV2Raw(SumOfRows(rows)))
  <1> DEFINE m == executing
             batch == Csv[m][step]
             rows == Entitlements(m, batch)
             D == DOMAIN rows
             h == [k \in D |-> batch[k].holder]
             w == [k \in D |-> rows[k].amount]
             H == {h[k] : k \in D}
             v == Shares(m)
             e == entitlementV1
  <1>1. m \in Valid /\ m \in Manifests /\ step \in DOMAIN Csv[m] /\ Csv[m] \in Seq(Seq(HolderRow))
    <2>1. m \in Valid /\ step \in Nat \ {0}
      BY DEF ExecTypes, LedgerFollowsPlan
    <2>2. m \in Manifests /\ Csv[m] \in Seq(Seq(HolderRow))
      BY <2>1, ListTypes, ListsAreSequences
    <2>3. QED
      BY <2>1, <2>2
  <1>2. rows \in Seq(Row) /\ IsFiniteSet(D) /\ D = DOMAIN batch
    <2>1. rows \in Seq(Row)
      BY <1>1, ListsFit, Inputs
    <2>2. D = 1..Len(rows) /\ Len(rows) \in Nat
      BY <2>1
    <2>3. D = DOMAIN batch
      BY DEF Entitlements
    <2>4. IsFiniteSet(D)
      <3> HIDE DEF D, rows
      <3>1. QED
        BY <2>2, FS_Interval
    <2>5. QED
      BY <2>1, <2>3, <2>4
  <1>3. /\ e \in [Accounts -> Nat]
        /\ \A a \in Accounts : v[a] \in Nat
    BY SharesAreAmounts, <1>1, Numbers DEF IInv, TypeOK, UInt
  <1>4. \A k \in D : /\ batch[k] \in RowsOf[m] /\ h[k] \in Accounts
                     /\ w[k] = v[h[k]] /\ rows[k].amount = batch[k].amount
    <2>1. \A k \in D : batch[k] \in RowsOf[m]
      BY <1>1, <1>2, ListTypes
    <2>2. \A k \in D : rows[k].amount = batch[k].amount
      BY DEF Entitlements
    <2>3. QED
      BY <1>1, <2>1, <2>2, SharesAreAmounts
  <1>5. \A k, l \in D : h[k] = h[l] => k = l
    BY <1>1, <1>2, RowsByPosition
  <1>6. \A k \in D : e[h[k]] = 0
    <2>1. ASSUME NEW k \in D, h[k] \in Configured PROVE FALSE
      <3>1. PICK i \in DOMAIN Csv[m] : \E l \in DOMAIN Csv[m][i] :
              i < step /\ h[k] = Csv[m][i][l].holder
        BY <2>1, PartOfTheList
      <3>2. PICK l \in DOMAIN Csv[m][i] : i < step /\ h[k] = Csv[m][i][l].holder
        BY <3>1
      <3>3. i = step
        BY <1>1, <1>2, <3>2, RowsByPosition
      <3>4. QED
        BY <1>1, <3>2, <3>3
    <2>2. QED
      BY <1>4, <2>1 DEF Configured
  <1>7. \A a \in Accounts : e[a] <= v[a]
    <2>1. \A a \in Accounts : e[a] # 0 => e[a] = v[a]
      BY PartOfTheList DEF Configured
    <2>2. QED
      BY <1>3, <2>1
  <1>8. H \in SUBSET Accounts
    BY <1>4
  <1>9. SumOfRows(rows) = SumFunctionOnSet(w, D)
    BY <1>2, RowsAddUp
  <1>10. SumFunctionOnSet(v, H) = SumFunctionOnSet(w, D)
    <2>1. h \in [D -> Accounts]
      BY <1>4
    <2>2. (\A a \in Accounts : v[a] \in Int) /\ \A k \in D : w[k] = v[h[k]]
      BY <1>3, <1>4
    <2> HIDE DEF D, w, h, v
    <2>3. QED
      BY <1>2, <1>5, <2>1, <2>2, Addresses, SumIsReindexed
  <1>11. SumFunctionOnSet(e, Accounts) = SumFunctionOnSet(e, Accounts \ H)
    <2>1. \A a \in Accounts \ (Accounts \ H) : e[a] = 0
      BY <1>6
    <2>2. (\A a \in Accounts : e[a] \in Int) /\ Accounts \ H \in SUBSET Accounts
      BY <1>3
    <2> HIDE DEF H, e
    <2>3. QED
      BY <2>1, <2>2, Addresses, SumOverSupport
  <1>12. SumFunctionOnSet(e, Accounts \ H) <= SumFunctionOnSet(v, Accounts \ H)
    <2>1. IsFiniteSet(Accounts \ H)
      BY Addresses, FS_Subset
    <2>2. \A a \in Accounts \ H : e[a] \in Int /\ v[a] \in Int /\ e[a] <= v[a]
      BY <1>3, <1>7
    <2> HIDE DEF H, e, v
    <2>3. QED
      BY <2>1, <2>2, SumIsMonotone
  <1>13. /\ SumFunctionOnSet(v, Accounts) = SumFunctionOnSet(v, H) + SumFunctionOnSet(v, Accounts \ H)
         /\ SumFunctionOnSet(v, H) \in Int /\ SumFunctionOnSet(v, Accounts \ H) \in Int
    <2>1. \A a \in Accounts : v[a] \in Int
      BY <1>3
    <2> HIDE DEF H, v
    <2>2. SumFunctionOnSet(v, Accounts) = SumFunctionOnSet(v, H) + SumFunctionOnSet(v, Accounts \ H)
      BY <1>8, <2>1, Addresses, SumOfParts
    <2>3. \A T \in SUBSET Accounts : SumFunctionOnSet(v, T) \in Int
      BY <2>1, Addresses, SumRules
    <2>4. QED
      BY <1>8, <2>2, <2>3
  <1>14. totalEntitledV1 = SumFunctionOnSet(e, Accounts) /\ totalEntitledV1 \in Nat
         /\ totalEntitledV2 = toV2Raw(totalEntitledV1)
    BY <1>3, Numbers DEF RunningTotals, SumFunction, IInv, TypeOK, UInt
  <1>15. SumOfRows(rows) \in Nat
    <2>1. \A k \in D : w[k] \in Nat
      BY <1>3, <1>4
    <2> HIDE DEF D, w
    <2>2. QED
      BY <1>2, <1>9, <2>1, SumIsNat
  <1>16. toV2Raw(SumFunctionOnSet(v, Accounts)) \in UInt /\ SumFunctionOnSet(v, Accounts) \in Nat
    BY <1>1, ListTotal DEF OperationIsFunded, Fits
  <1> HIDE DEF rows, D, h, w, H, v, e, m
  <1> DEFINE all == SumFunctionOnSet(v, Accounts)
             sum == totalEntitledV1 + SumOfRows(rows)
  <1>17. sum \in Nat /\ sum <= all
    BY <1>9, <1>10, <1>11, <1>12, <1>13, <1>14, <1>15
  <1>18. toV2Raw(sum) = totalEntitledV2 + toV2Raw(SumOfRows(rows))
    BY <1>14, <1>15, ScaleAdds
  <1>19. all \in Nat /\ all * Scale <= MaxUint
    BY <1>16, Numbers DEF UInt, toV2Raw
  <1> HIDE DEF all, sum
  <1>20. sum * Scale <= all * Scale /\ all <= all * Scale /\ sum * Scale \in Nat
    BY <1>17, <1>19, Numbers
  <1>21. sum \in UInt /\ toV2Raw(sum) \in UInt
    BY <1>17, <1>19, <1>20, Numbers DEF UInt, toV2Raw
  <1>22. QED
    BY <1>18, <1>21 DEF Fits, sum, rows, m

\* Once an operation has begun, the vault accepts every call it has come to:
\* each batch, and the seal after the last.
NextCallSucceeds ==
  executing # NoManifest =>
    IF step <= Len(PlannedBatches(executing))
      THEN AcceptsEntitlements(Entitlements(executing, PlannedBatches(executing)[step]))
      ELSE AcceptsSeal

LEMMA SameInterval ==
  ASSUME NEW a \in Nat, NEW b \in Nat, 1..a = 1..b
  PROVE  a = b
  <1>1. CASE a < b
    BY <1>1
  <1>2. CASE b < a
    BY <1>2
  <1>3. QED
    BY <1>1, <1>2

LEMMA NextBatchIsAccepted ==
  ASSUME IInv, RunningTotals, IdleHaveNoAction, ExecTypes, LedgerFollowsPlan, OperationIsFunded,
         executing # NoManifest, step <= Len(Csv[executing])
  PROVE  AcceptsEntitlements(Entitlements(executing, Csv[executing][step]))
  <1> DEFINE m == executing
             batch == Csv[m][step]
             rows == Entitlements(m, batch)
  <1>1. /\ m \in Valid /\ m \in Manifests /\ m \in Unique
        /\ step \in DOMAIN Csv[m] /\ Csv[m] \in Seq(Seq(HolderRow))
    <2>1. m \in Valid /\ step \in Nat \ {0} /\ m \in Unique
      BY DEF ExecTypes, OperationIsFunded
    <2>2. m \in Manifests /\ Csv[m] \in Seq(Seq(HolderRow))
      BY <2>1, ListTypes, ListsAreSequences
    <2>3. QED
      BY <2>1, <2>2
  <1>2. /\ DOMAIN rows = DOMAIN batch
        /\ \A k \in DOMAIN batch : /\ rows[k].holder = batch[k].holder
                                   /\ rows[k].amount = batch[k].amount
                                   /\ rows[k].action = ActionId(m, batch[k])
                                   /\ batch[k] \in RowsOf[m]
    BY <1>1, ListTypes DEF Entitlements
  <1>3. Len(rows) \in 1..MaxRows
    <2>1. Len(batch) \in 1..MaxRows
      BY <1>1 DEF Valid, IsValid
    <2>2. batch \in Seq(HolderRow) /\ rows \in Seq(Row)
      BY <1>1, ListsFit, Inputs
    <2>3. Len(rows) = Len(batch)
      <3> HIDE DEF rows, batch
      <3>1. DOMAIN rows = 1..Len(rows) /\ DOMAIN batch = 1..Len(batch)
            /\ Len(rows) \in Nat /\ Len(batch) \in Nat
        BY <2>2
      <3>2. 1..Len(rows) = 1..Len(batch)
        BY <1>2, <3>1
      <3>3. QED
        BY <3>1, <3>2, SameInterval
    <2>4. QED
      BY <2>1, <2>3
  <1>4. ASSUME NEW k \in DOMAIN batch PROVE RowIsValid(rows[k])
    <2>1. batch[k].holder \in Accounts /\ batch[k].amount # 0
      BY <1>1, <1>2, SharesAreAmounts
    <2>2. ActionId(m, batch[k]) # NoAction
      BY <1>1, <1>2, IdentifiersAreActions, ActionIds
    <2> HIDE DEF rows, batch
    <2>3. QED
      BY <1>2, <2>1, <2>2, Addresses DEF RowIsValid
  <1>5. ASSUME NEW k \in DOMAIN batch PROVE RowIsNew(rows[k])
    <2>1. batch[k].holder \in Accounts
      BY <1>1, <1>2, SharesAreAmounts
    <2>2. ASSUME NEW a \in Configured
          PROVE  a # batch[k].holder /\ migrationActionId[a] # ActionId(m, batch[k])
      <3>1. PICK i \in DOMAIN Csv[m] : \E l \in DOMAIN Csv[m][i] :
              /\ i < step /\ a = Csv[m][i][l].holder
              /\ migrationActionId[a] = ActionId(m, Csv[m][i][l])
        BY PartOfTheList
      <3>2. PICK l \in DOMAIN Csv[m][i] :
              /\ i < step /\ a = Csv[m][i][l].holder
              /\ migrationActionId[a] = ActionId(m, Csv[m][i][l])
        BY <3>1
      <3>3. i # step
        BY <1>1, <3>2
      <3>4. QED
        BY <1>1, <3>2, <3>3, RowsByPosition
    <2>3. entitlementV1[batch[k].holder] = 0
      BY <2>1, <2>2 DEF Configured
    <2>4. ActionId(m, batch[k]) \notin configuredActions
      BY <2>2 DEF IInv, ActionsAgree
    <2>5. migrationActionId[batch[k].holder] = NoAction
      BY <2>1, <2>3 DEF IdleHaveNoAction
    <2> HIDE DEF rows, batch
    <2>6. QED
      BY <1>2, <2>3, <2>4, <2>5 DEF RowIsNew
  <1>6. RowsAreDistinct(rows)
    <2>1. ASSUME NEW k \in DOMAIN batch, NEW l \in DOMAIN batch, k # l
          PROVE  batch[k].holder # batch[l].holder /\ ActionId(m, batch[k]) # ActionId(m, batch[l])
      BY <1>1, <2>1, RowsByPosition
    <2> HIDE DEF rows, batch
    <2>2. QED
      BY <1>2, <2>1 DEF RowsAreDistinct
  <1>7. Fits(totalEntitledV1 + SumOfRows(rows)) /\ Fits(totalEntitledV2 + toV2Raw(SumOfRows(rows)))
    BY NextBatchFits
  <1>8. ~entitlementsSealed
    BY DEF LedgerFollowsPlan
  <1> HIDE DEF rows, batch
  <1>9. AcceptsEntitlements(rows)
    BY <1>2, <1>3, <1>4, <1>5, <1>6, <1>7, <1>8 DEF AcceptsEntitlements
  <1>10. QED
    BY <1>9 DEF rows, batch, m

LEMMA SealIsAccepted ==
  ASSUME IInv, RunningTotals, ExecTypes, LedgerFollowsPlan, OperationIsFunded,
         executing # NoManifest, ~ step <= Len(Csv[executing])
  PROVE  AcceptsSeal
  <1> DEFINE m == executing
  <1>1. /\ m \in Valid /\ m \in Manifests /\ step \in Nat
        /\ DOMAIN Csv[m] = 1..Len(Csv[m]) /\ Len(Csv[m]) \in Nat
    <2>1. m \in Valid /\ step \in Nat
      BY DEF ExecTypes
    <2>2. QED
      BY <2>1, ListsAreSequences
  <1>2. LedgerIs(m)
    <2>1. HoldsBatches(m, step - 1) /\ \A i \in DOMAIN Csv[m] : i <= step - 1
      BY <1>1 DEF LedgerFollowsPlan
    <2>2. \A row \in RowsOf[m] : IsWritten(m, row)
      BY <1>1, <2>1, ListTypes DEF HoldsBatches
    <2>3. \A a \in Configured : a \in {row.holder : row \in RowsOf[m]}
      BY <1>1, <2>1, ListTypes DEF HoldsBatches
    <2>4. \A row \in RowsOf[m] : row.holder \in Configured
      BY <1>1, <2>2, SharesAreAmounts DEF IsWritten, Configured
    <2>5. QED
      BY <2>2, <2>3, <2>4 DEF LedgerIs, IsWritten
  <1>3. /\ totalEntitledV1 = SumFunctionOnSet(Shares(m), Accounts)
        /\ totalEntitledV2 = Total[m]
    BY <1>1, <1>2, WholeListAddsUp
  <1>4. totalEntitledV1 # 0
    <2>1. PICK p \in Positions(m) : TRUE
      BY <1>1 DEF Valid, IsValid
    <2>2. RowAt(m, p) \in RowsOf[m]
      BY <1>1, <2>1 DEF RowsOf
    <2>3. PICK a \in Accounts : Shares(m)[a] # 0
      BY <1>1, <2>2, SharesAreAmounts
    <2>4. \A b \in Accounts : Shares(m)[b] \in Nat
      BY <1>1, SharesAreAmounts
    <2>5. Shares(m)[a] <= SumFunctionOnSet(Shares(m), Accounts)
      BY <2>4, Addresses, SumBoundsElement
    <2>6. SumFunctionOnSet(Shares(m), Accounts) \in Nat
      BY <1>1, ListTotal
    <2>7. QED
      BY <1>3, <2>3, <2>4, <2>5, <2>6
  <1>5. QED
    BY <1>3, <1>4 DEF AcceptsSeal, ReserveCoversLiability, LedgerFollowsPlan, OperationIsFunded

\* The operation of a plan is one transaction.  What makes it begin, that
\* the identifiers of the list are unique, that its total fits and that the
\* reserve covers it, is enough for all of its calls, for any number of
\* batches: it never stops half-way, and it ends in the seal.
THEOREM MigrationOperationNeverReverts == MigSpec => []NextCallSucceeds
  <1>1. IInv /\ RunningTotals /\ IdleHaveNoAction /\ ExecTypes /\ LedgerFollowsPlan /\ OperationIsFunded
          => NextCallSucceeds
    BY NextBatchIsAccepted, SealIsAccepted DEF NextCallSucceeds, PlannedBatches
  <1>2. MigSpec => []RunningTotals /\ []IdleHaveNoAction
    BY MigrationIsOfTheVault, VaultRunningTotals, VaultIdleHaveNoAction, PTL
  <1>3. QED
    BY <1>1, <1>2, MigrationVaultInvariant, MigrationExecTypes, MigrationLedgerFollowsPlan,
       MigrationOperationIsFunded, PTL
==============================================================================
