------------------------- MODULE MigrationVaultProofs -------------------------
(***************************************************************************)
(* What holds of the migration vault for every set of accounts, every      *)
(* batch of entitlements, every scale and every fee the V1 token takes.    *)
(*                                                                         *)
(* The invariant: TypeOK is not inductive alone, because migrate completes *)
(* the action of the holder, which is an action only if the holder's       *)
(* entitlement is configured together with one.  ActionsAgree says so, and *)
(* is proved first with it.  Solvent and ReleasesAreBacked are inductive   *)
(* on top of the two.                                                      *)
(***************************************************************************)
EXTENDS MigrationVault, SumLemmas, TLAPS

IInv == TypeOK /\ ActionsAgree

\* What migrate leaves in the two balances of the vault: its own V1 grew by
\* the entitlement and its own V2 fell by Scale times that.  The exactness
\* checks of _lockV1 and _releaseV2 exclude holder = vault, recipient = vault
\* and a V1 that withholds a fee.
LEMMA MigrateMovesExactly ==
  ASSUME TypeOK,
         NEW holder \in Accounts \union {Zero}, NEW amount \in UInt,
         NEW recipient \in Accounts \union {Zero}, NEW deadline, NEW fee \in Nat,
         Migrate(holder, amount, recipient, deadline, fee)
  PROVE  /\ holder \in Accounts /\ recipient \in Accounts
         /\ amount \in Nat /\ amount > 0 /\ toV2Raw(amount) \in Nat
         /\ toV2Raw(amount) > 0
         /\ holder # Vault /\ recipient # Vault
         /\ v1'[Vault] = v1[Vault] + amount
         /\ v1'[holder] = v1[holder] - amount
         /\ v2'[Vault] = v2[Vault] - toV2Raw(amount)
         /\ v2'[recipient] = v2[recipient] + toV2Raw(amount)
         /\ v1' \in [Accounts -> Nat] /\ v2' \in [Accounts -> Nat]
  <1>1. holder \in Accounts /\ recipient \in Accounts
    BY DEF Migrate
  <1>2. amount \in Nat /\ amount > 0
    BY <1>1, Numbers DEF Migrate, TypeOK, UInt
  <1>3. toV2Raw(amount) \in Nat /\ toV2Raw(amount) > 0
    BY <1>2, Numbers DEF toV2Raw
  <1>4. DEFINE paid == toV2Raw(amount)
  <1>5. /\ V1AfterLock(holder, amount, fee)[Vault] - v1[Vault] = amount
        /\ v1' = V1AfterLock(holder, amount, fee) /\ v1[holder] >= amount /\ fee <= amount
    BY DEF Migrate, LocksV1
  <1>6. /\ V2AfterRelease(recipient, paid)[recipient] - v2[recipient] = paid
        /\ v2' = V2AfterRelease(recipient, paid) /\ v2[Vault] >= paid
    BY DEF Migrate, ReleasesV2
  <1>7. v1 \in [Accounts -> Nat] /\ v2 \in [Accounts -> Nat] /\ Vault \in Accounts
    BY Addresses DEF TypeOK
  <1>8. holder # Vault
    <2>1. SUFFICES ASSUME holder = Vault PROVE FALSE
      OBVIOUS
    <2>2. V1AfterLock(holder, amount, fee)[Vault] = v1[Vault] - amount + amount - fee
      BY <1>1, <1>7, <2>1 DEF V1AfterLock, Moved
    <2>3. QED
      BY <2>2, <1>2, <1>5, <1>7
  <1>9. recipient # Vault
    <2> HIDE DEF paid
    <2>1. SUFFICES ASSUME recipient = Vault PROVE FALSE
      OBVIOUS
    <2>2. V2AfterRelease(recipient, paid)[recipient] = v2[Vault] - paid + paid
      BY <1>1, <1>7, <2>1 DEF V2AfterRelease, Moved
    <2>3. QED
      BY <2>1, <2>2, <1>3, <1>6, <1>7 DEF paid
  <1>10. /\ v1'[Vault] = v1[Vault] + amount
         /\ v1'[holder] = v1[holder] - amount
         /\ v1' \in [Accounts -> Nat]
    BY <1>1, <1>2, <1>5, <1>7, <1>8 DEF V1AfterLock, Moved
  <1>11. /\ v2'[Vault] = v2[Vault] - paid
         /\ v2'[recipient] = v2[recipient] + paid
         /\ v2' \in [Accounts -> Nat]
    <2> HIDE DEF paid
    <2> paid \in Nat
      BY <1>3 DEF paid
    <2> QED
      BY <1>1, <1>6, <1>7, <1>9 DEF V2AfterRelease, Moved
  <1>12. QED
    BY <1>1, <1>2, <1>3, <1>8, <1>9, <1>10, <1>11
-----------------------------------------------------------------------------
\* What setEntitlements writes: each holder of the batch gets the amount and
\* the action of the one row that names it, nobody else changes.
LEMMA RowsAreWritten ==
  ASSUME TypeOK, NEW caller, NEW rows \in Batches, SetEntitlements(caller, rows)
  PROVE  /\ HoldersIn(rows) \subseteq Accounts
         /\ \A i \in DOMAIN rows :
              /\ rows[i].holder \in Accounts /\ rows[i].action \in Actions
              /\ rows[i].amount \in UInt /\ rows[i].amount # 0
              /\ entitlementV1[rows[i].holder] = 0
              /\ rows[i].action \notin configuredActions
              /\ entitlementV1'[rows[i].holder] = rows[i].amount
              /\ migrationActionId'[rows[i].holder] = rows[i].action
         /\ \A a \in Accounts \ HoldersIn(rows) :
              /\ entitlementV1'[a] = entitlementV1[a]
              /\ migrationActionId'[a] = migrationActionId[a]
         /\ entitlementV1' \in [Accounts -> UInt]
         /\ migrationActionId' \in [Accounts -> Actions \union {NoAction}]
  <1>1. rows \in Seq(Row)
    BY Inputs
  <1>2. \A i \in DOMAIN rows : /\ rows[i] \in Row
                               /\ RowIsValid(rows[i])
                               /\ RowIsNew(rows[i])
    BY <1>1 DEF SetEntitlements, AcceptsEntitlements
  <1>3. \A i \in DOMAIN rows :
          /\ rows[i].holder \in Accounts /\ rows[i].action \in Actions
          /\ rows[i].amount \in UInt /\ rows[i].amount # 0
          /\ entitlementV1[rows[i].holder] = 0
          /\ rows[i].action \notin configuredActions
    BY <1>2 DEF Row, RowIsValid, RowIsNew
  <1>4. \A i \in DOMAIN rows : RowOf(rows, rows[i].holder) = rows[i]
    BY DEF SetEntitlements, AcceptsEntitlements, RowsAreDistinct, RowOf
  <1>5. \A i \in DOMAIN rows : rows[i].holder \in HoldersIn(rows)
    BY DEF HoldersIn
  <1>6. \A a \in HoldersIn(rows) : \E i \in DOMAIN rows : a = rows[i].holder
    BY DEF HoldersIn
  <1>7. /\ entitlementV1' = [a \in Accounts |->
              IF a \in HoldersIn(rows) THEN RowOf(rows, a).amount ELSE entitlementV1[a]]
        /\ migrationActionId' = [a \in Accounts |->
              IF a \in HoldersIn(rows) THEN RowOf(rows, a).action ELSE migrationActionId[a]]
    BY DEF SetEntitlements, AcceptsEntitlements
  <1>8. \A a \in HoldersIn(rows) : /\ RowOf(rows, a).amount \in UInt
                                   /\ RowOf(rows, a).action \in Actions
    BY <1>3, <1>4, <1>6
  <1>9. HoldersIn(rows) \subseteq Accounts
    BY <1>3, <1>6
  <1>10. \A i \in DOMAIN rows :
           /\ entitlementV1'[rows[i].holder] = rows[i].amount
           /\ migrationActionId'[rows[i].holder] = rows[i].action
    BY <1>3, <1>4, <1>5, <1>7
  <1>11. /\ entitlementV1' \in [Accounts -> UInt]
         /\ migrationActionId' \in [Accounts -> Actions \union {NoAction}]
    BY <1>7, <1>8 DEF TypeOK
  <1>12. QED
    BY <1>3, <1>7, <1>9, <1>10, <1>11

\* The environment's actions leave the vault's own storage alone.
LEMMA LedgerUnchangedKeepsActions ==
  ASSUME ActionsAgree, UNCHANGED ledger
  PROVE  ActionsAgree'
  BY DEF ActionsAgree, ledger, Configured, Migrated

LEMMA InitIInv == Init => IInv
  <1> SUFFICES ASSUME Init PROVE IInv
    OBVIOUS
  <1>1. TypeOK
    <2>1. 0 \in UInt /\ 0 \in 0..MaxTime
      BY Numbers DEF UInt
    <2>2. v1 \in [Accounts -> Nat] /\ v2 \in [Accounts -> Nat]
      BY Balances DEF Init
    <2>3. migrationActionId \in [Accounts -> Actions \union {NoAction}]
      BY DEF Init
    <2>4. /\ entitlementV1 \in [Accounts -> UInt] /\ migratedV1 \in [Accounts -> UInt]
          /\ allowance \in [Accounts -> UInt]
      BY <2>1 DEF Init
    <2>5. QED
      BY <2>1, <2>2, <2>3, <2>4 DEF Init, TypeOK
  <1>2. Configured = {} /\ Migrated = {}
    BY DEF Init, Configured, Migrated
  <1>3. ActionsAgree
    BY <1>2 DEF Init, ActionsAgree
  <1>4. QED
    BY <1>1, <1>3 DEF IInv

LEMMA SetEntitlementsKeepsIInv ==
  ASSUME IInv, NEW caller, NEW rows \in Batches, SetEntitlements(caller, rows)
  PROVE  IInv'
  <1> USE DEF IInv
  <1>1. TypeOK'
    <2>1. /\ entitlementV1' \in [Accounts -> UInt]
          /\ migrationActionId' \in [Accounts -> Actions \union {NoAction}]
      BY RowsAreWritten
    <2>2. configuredActions' \subseteq Actions
      <3>1. configuredActions \subseteq Actions
        BY DEF TypeOK
      <3>2. \A i \in DOMAIN rows : rows[i].action \in Actions
        BY RowsAreWritten
      <3>3. configuredActions' = configuredActions \union {rows[i].action : i \in DOMAIN rows}
        BY DEF SetEntitlements, AcceptsEntitlements
      <3>4. QED
        BY <3>1, <3>2, <3>3
    <2>3. totalEntitledV1' \in UInt /\ totalEntitledV2' \in UInt
      BY DEF SetEntitlements, AcceptsEntitlements, Fits
    <2>4. UNCHANGED <<entitlementsSealed, totalLockedV1, totalReleasedV2, migratedV1,
                      completedActions, tokens, world>>
      BY DEF SetEntitlements, AcceptsEntitlements
    <2>5. QED
      BY <2>1, <2>2, <2>3, <2>4 DEF TypeOK, tokens, world
  <1>2. ActionsAgree'
    <2>1. Configured' = Configured \union HoldersIn(rows)
      BY RowsAreWritten DEF Configured, HoldersIn
    <2>2. Configured \intersect HoldersIn(rows) = {}
      BY RowsAreWritten DEF Configured, HoldersIn
    <2>3. \A a \in Configured : migrationActionId'[a] = migrationActionId[a]
      BY <2>2, RowsAreWritten DEF Configured
    <2>4. \A a \in HoldersIn(rows) : /\ migrationActionId'[a] \notin configuredActions
                                     /\ \E i \in DOMAIN rows : /\ a = rows[i].holder
                                                               /\ migrationActionId'[a] = rows[i].action
      BY RowsAreWritten DEF HoldersIn
    <2>5. configuredActions' = configuredActions \union {rows[i].action : i \in DOMAIN rows}
      BY DEF SetEntitlements, AcceptsEntitlements
    <2>6. configuredActions' = {migrationActionId'[a] : a \in Configured'}
      <3>1. {rows[i].action : i \in DOMAIN rows} = {migrationActionId'[a] : a \in HoldersIn(rows)}
        BY RowsAreWritten, <2>4 DEF HoldersIn
      <3>2. configuredActions = {migrationActionId'[a] : a \in Configured}
        BY <2>3 DEF ActionsAgree
      <3>3. QED
        BY <2>1, <2>5, <3>1, <3>2
    <2>7. \A a, b \in Configured' : migrationActionId'[a] = migrationActionId'[b] => a = b
      <3>1. \A a, b \in HoldersIn(rows) : migrationActionId'[a] = migrationActionId'[b] => a = b
        <4>1. \A i, j \in DOMAIN rows : i # j => rows[i].action # rows[j].action
          BY DEF SetEntitlements, AcceptsEntitlements, RowsAreDistinct
        <4>2. QED
          BY <2>4, <4>1
      <3>2. \A a \in Configured : migrationActionId'[a] \in configuredActions
        BY <2>3 DEF ActionsAgree
      <3>3. \A a, b \in Configured : migrationActionId'[a] = migrationActionId'[b] => a = b
        BY <2>3 DEF ActionsAgree
      <3>4. QED
        BY <2>1, <2>4, <3>1, <3>2, <3>3
    <2>8. Migrated \subseteq Configured
      BY DEF ActionsAgree, Migrated, Configured
    <2>9. migratedV1' = migratedV1 /\ completedActions' = completedActions
      BY DEF SetEntitlements, AcceptsEntitlements
    <2>10. Migrated' = Migrated
      BY <2>9 DEF Migrated
    <2>11. completedActions' = {migrationActionId'[a] : a \in Migrated'}
      BY <2>3, <2>8, <2>9, <2>10 DEF ActionsAgree
    <2>12. \A a \in Migrated' : migratedV1'[a] = entitlementV1'[a]
      BY <2>2, <2>8, <2>9, <2>10, RowsAreWritten DEF ActionsAgree, Configured
    <2>13. QED
      BY <2>6, <2>7, <2>11, <2>12 DEF ActionsAgree
  <1>3. QED
    BY <1>1, <1>2

LEMMA SealKeepsIInv ==
  ASSUME IInv, NEW caller, SealEntitlements(caller)
  PROVE  IInv'
  BY DEF IInv, SealEntitlements, AcceptsSeal, TypeOK, ActionsAgree, Configured, Migrated, tokens, world

LEMMA MigrateKeepsIInv ==
  ASSUME IInv, NEW holder \in Accounts \union {Zero}, NEW amount \in UInt,
         NEW recipient \in Accounts \union {Zero}, NEW deadline, NEW fee \in Nat,
         Migrate(holder, amount, recipient, deadline, fee)
  PROVE  IInv'
  <1> USE DEF IInv
  <1>1. /\ holder \in Accounts /\ amount > 0 /\ amount \in Nat
        /\ v1' \in [Accounts -> Nat] /\ v2' \in [Accounts -> Nat]
    BY MigrateMovesExactly
  <1>2. holder \in Configured /\ amount = entitlementV1[holder] /\ migratedV1[holder] = 0
    BY <1>1 DEF Migrate, Configured, NotMigrated
  <1>3. migrationActionId[holder] \in Actions
    BY <1>2 DEF ActionsAgree, TypeOK
  <1>4. TypeOK'
    <2>1. migratedV1' \in [Accounts -> UInt]
      BY DEF Migrate, TypeOK
    <2>2. completedActions' \subseteq Actions
      BY <1>3 DEF Migrate, TypeOK
    <2>3. totalLockedV1' \in UInt /\ totalReleasedV2' \in UInt
      BY DEF Migrate, Fits
    <2>4. allowance' \in [Accounts -> UInt]
      <3>1. allowance' = [allowance EXCEPT ![holder] = allowance[holder] - amount]
        BY DEF Migrate
      <3>2. allowance[holder] \in UInt /\ allowance[holder] >= amount
        BY <1>1 DEF Migrate, LocksV1, TypeOK
      <3>3. allowance[holder] - amount \in UInt
        BY <1>1, <3>2, Numbers DEF UInt
      <3>4. QED
        BY <3>1, <3>3 DEF TypeOK
    <2>5. UNCHANGED <<entitlementsSealed, totalEntitledV1, totalEntitledV2, entitlementV1,
                      migrationActionId, configuredActions, world>>
      BY DEF Migrate
    <2>6. QED
      BY <1>1, <2>1, <2>2, <2>3, <2>4, <2>5 DEF TypeOK, world
  <1>5. ActionsAgree'
    <2>1. /\ UNCHANGED <<entitlementV1, migrationActionId, configuredActions>>
          /\ migratedV1' = [migratedV1 EXCEPT ![holder] = amount]
          /\ completedActions' = completedActions \union {migrationActionId[holder]}
      BY DEF Migrate
    <2>2. Configured' = Configured
      BY <2>1 DEF Configured
    <2>3. Migrated' = Migrated \union {holder}
      BY <1>1, <2>1 DEF Migrated, TypeOK
    <2>4. completedActions' = {migrationActionId'[a] : a \in Migrated'}
      BY <2>1, <2>3 DEF ActionsAgree
    <2>5. \A a \in Migrated' : migratedV1'[a] = entitlementV1'[a]
      BY <1>1, <1>2, <2>1, <2>3 DEF ActionsAgree, TypeOK, Migrated
    <2>6. QED
      BY <2>1, <2>2, <2>4, <2>5 DEF ActionsAgree
  <1>6. QED
    BY <1>4, <1>5

LEMMA EnvironmentKeepsIInv ==
  ASSUME IInv,
         \/ \E holder \in Holders, amount \in Amounts : Approve(holder, amount)
         \/ \E route \in V1Routes, amount \in Amounts, fee \in V1Fees :
              SendV1(route[1], route[2], amount, fee)
         \/ \E from \in Accounts, amount \in V2Deposits : SendV2ToVault(from, amount)
         \/ \E authorization \in Signable : SignRecipient(authorization)
         \/ \E flag \in BOOLEAN : SetV2Paused(flag)
         \/ OpenV2Market
         \/ Tick
         \/ UNCHANGED vars
  PROVE  IInv' /\ v1'[Vault] >= v1[Vault] /\ v2'[Vault] >= v2[Vault] /\ UNCHANGED ledger
  <1> USE DEF IInv
  <1>1. UNCHANGED ledger
    BY DEF Approve, SendV1, SendV2ToVault, SignRecipient, SetV2Paused, OpenV2Market, Tick, vars
  <1>2. ActionsAgree'
    BY <1>1, LedgerUnchangedKeepsActions
  <1>3. v1 \in [Accounts -> Nat] /\ v2 \in [Accounts -> Nat] /\ Vault \in Accounts
    BY Addresses DEF TypeOK
  <1> DEFINE Good == TypeOK' /\ v1'[Vault] >= v1[Vault] /\ v2'[Vault] >= v2[Vault]
  <1>4. ASSUME NEW holder \in Holders, NEW amount \in Amounts, Approve(holder, amount)
        PROVE  Good
    BY <1>3, <1>4, Inputs DEF Approve, TypeOK, ledger, world
  <1>5. ASSUME NEW route \in V1Routes, NEW amount \in Amounts, NEW fee \in V1Fees,
               SendV1(route[1], route[2], amount, fee)
        PROVE  Good
    <2>1. route[1] \in Accounts \ {Vault} /\ route[2] \in Accounts
      BY Inputs
    <2>2. amount \in Nat /\ fee \in Nat /\ fee <= amount /\ amount <= v1[route[1]]
      BY <1>5, Inputs, Fees, Numbers DEF SendV1, UInt
    <2>3. v1' = Moved(v1, route[1], amount, route[2], amount - fee)
      BY <1>5 DEF SendV1
    <2>4. v1' \in [Accounts -> Nat] /\ v1'[Vault] >= v1[Vault]
      BY <1>3, <2>1, <2>2, <2>3 DEF Moved
    <2>5. UNCHANGED <<ledger, v2, allowance, world>>
      BY <1>5 DEF SendV1
    <2>6. QED
      BY <1>3, <2>4, <2>5 DEF TypeOK, ledger, world
  <1>6. ASSUME NEW from \in Accounts, NEW amount \in V2Deposits, SendV2ToVault(from, amount)
        PROVE  Good
    <2>1. amount \in Nat /\ amount <= v2[from] /\ from # Vault
      BY <1>6, Inputs DEF SendV2ToVault
    <2>2. v2' = Moved(v2, from, amount, Vault, amount)
      BY <1>6 DEF SendV2ToVault
    <2>3. v2' \in [Accounts -> Nat] /\ v2'[Vault] >= v2[Vault]
      BY <1>3, <2>1, <2>2 DEF Moved
    <2>4. UNCHANGED <<ledger, v1, allowance, world>>
      BY <1>6 DEF SendV2ToVault
    <2>5. QED
      BY <1>3, <2>3, <2>4 DEF TypeOK, ledger, world
  <1>7. ASSUME NEW authorization \in Signable, SignRecipient(authorization)
        PROVE  Good
    BY <1>3, <1>7, Inputs DEF SignRecipient, TypeOK, ledger, tokens
  <1>8. ASSUME NEW flag \in BOOLEAN, SetV2Paused(flag)
        PROVE  Good
    BY <1>3, <1>8 DEF SetV2Paused, TypeOK, ledger, tokens
  <1>9. ASSUME OpenV2Market PROVE Good
    BY <1>3, <1>9 DEF OpenV2Market, TypeOK, ledger, tokens
  <1>10. ASSUME Tick PROVE Good
    BY <1>3, <1>10, Numbers DEF Tick, TypeOK, ledger, tokens
  <1>11. ASSUME UNCHANGED vars PROVE Good
    BY <1>3, <1>11 DEF vars, TypeOK, ledger, tokens, world
  <1>12. QED
    BY <1>1, <1>2, <1>4, <1>5, <1>6, <1>7, <1>8, <1>9, <1>10, <1>11
-----------------------------------------------------------------------------
\* The three kinds of step: a configuration of the Timelock, a migration, or
\* something outside the vault that can only add to its balances.
LEMMA StepKinds ==
  ASSUME TypeOK, [Next]_vars
  PROVE  \/ \E caller \in Callers, rows \in Batches : SetEntitlements(caller, rows)
         \/ \E caller \in Callers : SealEntitlements(caller)
         \/ \E holder \in Accounts \union {Zero}, amount \in UInt,
               recipient \in Accounts \union {Zero}, deadline \in 0..MaxTime, fee \in Nat :
              Migrate(holder, amount, recipient, deadline, fee)
         \/ \/ \E holder \in Holders, amount \in Amounts : Approve(holder, amount)
            \/ \E route \in V1Routes, amount \in Amounts, fee \in V1Fees :
                 SendV1(route[1], route[2], amount, fee)
            \/ \E from \in Accounts, amount \in V2Deposits : SendV2ToVault(from, amount)
            \/ \E authorization \in Signable : SignRecipient(authorization)
            \/ \E flag \in BOOLEAN : SetV2Paused(flag)
            \/ OpenV2Market
            \/ Tick
            \/ UNCHANGED vars
  <1>1. ASSUME NEW holder \in Accounts \union {Zero}, SomeMigrate(holder)
        PROVE  \E amount \in UInt, recipient \in Accounts \union {Zero},
                  deadline \in 0..MaxTime, fee \in Nat :
                 Migrate(holder, amount, recipient, deadline, fee)
    BY <1>1, Inputs, Fees DEF SomeMigrate
  <1>2. QED
    BY <1>1 DEF Next

\* The vault's storage always has the types Solidity gives it, and the
\* per-action flags always describe the per-holder ledger.
THEOREM VaultInvariant == Spec => []IInv
  <1>1. Init => IInv
    BY InitIInv
  <1>2. IInv /\ [Next]_vars => IInv'
    <2> SUFFICES ASSUME IInv, [Next]_vars PROVE IInv'
      OBVIOUS
    <2>1. TypeOK
      BY DEF IInv
    <2>2. QED
      BY <2>1, StepKinds, SetEntitlementsKeepsIInv, SealKeepsIInv, MigrateKeepsIInv,
         EnvironmentKeepsIInv
  <1>3. QED
    BY <1>1, <1>2, PTL DEF Spec

\* The storage of the vault and the two tokens keep the types of their
\* declarations in every transaction.
THEOREM VaultTypes == Spec => []TypeOK
  BY VaultInvariant, PTL DEF IInv

\* Flags and ledger agree whatever batches the entitlements came in and
\* however many holders have migrated: one action, one holder, one migration.
THEOREM VaultActionsAgree == Spec => []ActionsAgree
  BY VaultInvariant, PTL DEF IInv
-----------------------------------------------------------------------------
\* toV2Raw is additive and monotone: all the arithmetic the reserve needs.
LEMMA ScaleAdds ==
  ASSUME NEW a \in Nat, NEW b \in Nat
  PROVE  /\ toV2Raw(a) \in Nat /\ toV2Raw(b) \in Nat
         /\ toV2Raw(a + b) = toV2Raw(a) + toV2Raw(b)
         /\ toV2Raw(0) = 0
  BY Numbers DEF toV2Raw

Backing == Solvent /\ ReleasesAreBacked

LEMMA InitBacking == Init => Backing
  BY Numbers, Balances DEF Init, Backing, Solvent, remainingV2Liability, ReleasesAreBacked, toV2Raw

LEMMA StepKeepsBacking ==
  ASSUME IInv, Backing, [Next]_vars
  PROVE  Backing'
  <1>1. /\ totalEntitledV2 \in Nat /\ totalReleasedV2 \in Nat /\ totalLockedV1 \in Nat
        /\ v1[Vault] \in Nat /\ v2[Vault] \in Nat /\ TypeOK
    BY Addresses, Numbers DEF IInv, TypeOK, UInt
  <1>2. ASSUME NEW caller \in Callers, NEW rows \in Batches, SetEntitlements(caller, rows)
        PROVE  Backing'
    BY <1>2 DEF SetEntitlements, AcceptsEntitlements, Backing, Solvent, remainingV2Liability, ReleasesAreBacked, tokens
  <1>3. ASSUME NEW caller \in Callers, SealEntitlements(caller)
        PROVE  Backing'
    BY <1>1, <1>3 DEF SealEntitlements, AcceptsSeal, ReserveCoversLiability, Backing, Solvent, remainingV2Liability,
       ReleasesAreBacked, tokens
  <1>4. ASSUME NEW holder \in Accounts \union {Zero}, NEW amount \in UInt,
               NEW recipient \in Accounts \union {Zero}, NEW deadline \in 0..MaxTime,
               NEW fee \in Nat, Migrate(holder, amount, recipient, deadline, fee)
        PROVE  Backing'
    <2>1. /\ amount \in Nat /\ toV2Raw(amount) \in Nat
          /\ v1'[Vault] = v1[Vault] + amount
          /\ v2'[Vault] = v2[Vault] - toV2Raw(amount)
      BY <1>1, <1>4, MigrateMovesExactly
    <2>2. /\ totalLockedV1' = totalLockedV1 + amount
          /\ totalReleasedV2' = totalReleasedV2 + toV2Raw(amount)
          /\ totalEntitledV2' = totalEntitledV2 /\ entitlementsSealed
          /\ entitlementsSealed' = entitlementsSealed
      BY <1>4 DEF Migrate
    <2>3. Solvent'
      BY <1>1, <2>1, <2>2 DEF Backing, Solvent, remainingV2Liability
    <2>4. ReleasesAreBacked'
      <3>1. (totalLockedV1 + amount) * Scale = totalLockedV1 * Scale + amount * Scale
        BY <1>1, <2>1, ScaleAdds DEF toV2Raw
      <3>2. /\ totalReleasedV2 = totalLockedV1 * Scale /\ v1[Vault] >= totalLockedV1
        BY DEF Backing, ReleasesAreBacked, toV2Raw
      <3>3. totalReleasedV2' = totalLockedV1' * Scale
        BY <2>2, <3>1, <3>2 DEF toV2Raw
      <3>4. v1'[Vault] >= totalLockedV1'
        BY <1>1, <2>1, <2>2, <3>2
      <3>5. QED
        BY <3>3, <3>4 DEF ReleasesAreBacked, toV2Raw
    <2>5. QED
      BY <2>3, <2>4 DEF Backing
  <1>5. ASSUME v1'[Vault] >= v1[Vault], v2'[Vault] >= v2[Vault], UNCHANGED ledger,
               v1'[Vault] \in Nat, v2'[Vault] \in Nat
        PROVE  Backing'
    BY <1>1, <1>5 DEF ledger, Backing, Solvent, remainingV2Liability, ReleasesAreBacked, toV2Raw
  <1>6. ASSUME IInv' PROVE v1'[Vault] \in Nat /\ v2'[Vault] \in Nat
    BY <1>6, Addresses DEF IInv, TypeOK
  <1>7. QED
    BY <1>1, <1>2, <1>3, <1>4, <1>5, <1>6, StepKinds, EnvironmentKeepsIInv

LEMMA VaultBacking == Spec => []Backing
  <1>1. Init => Backing
    BY InitBacking
  <1>2. IInv /\ Backing /\ [Next]_vars => Backing'
    BY StepKeepsBacking
  <1>3. QED
    BY <1>1, <1>2, VaultInvariant, PTL DEF Spec

\* Sealed entitlements are covered for ever: whatever the order in which
\* holders migrate and whoever calls, the reserve covers what is still owed.
THEOREM VaultSolvent == Spec => []Solvent
  BY VaultBacking, PTL DEF Backing

\* What was released is Scale times what was locked, and the locked V1 is
\* still in the vault, whatever fees the V1 token takes.
THEOREM VaultReleasesAreBacked == Spec => []ReleasesAreBacked
  BY VaultBacking, PTL DEF Backing
-----------------------------------------------------------------------------
\* FoldLeft takes the rows from the last one down; the sum is that of the
\* amounts in any order.
LEMMA RowsAddUp ==
  ASSUME NEW rows \in Seq(Row)
  PROVE  SumOfRows(rows) =
           SumFunctionOnSet([i \in DOMAIN rows |-> rows[i].amount], DOMAIN rows)
  <1> DEFINE D == DOMAIN rows
             w == [i \in D |-> rows[i].amount]
             c == [T \in SUBSET D |-> IF T = {} THEN D ELSE Max(T)]
             P(f) == f = [T \in SUBSET D |-> IF T = {} THEN 0
                                             ELSE f[T \ {Max(T)}] + rows[Max(T)].amount]
             it == CHOOSE f : P(f)
  <1>1. SumOfRows(rows) = it[D]
    BY Zenon DEF SumOfRows, FoldLeft, MapThenFoldSet
  <1>2. IsFiniteSet(D) /\ D \subseteq Int
    <2>1. D = 1..Len(rows) /\ Len(rows) \in Nat
      OBVIOUS
    <2>2. QED
      BY <2>1, FS_Interval
  <1>3. w \in [D -> Int]
    <2>1. \A i \in D : rows[i] \in Row
      OBVIOUS
    <2>2. \A i \in D : rows[i].amount \in Int
      BY <2>1, Numbers DEF Row, UInt
    <2>3. QED
      BY <2>2
  <1>4. \A T \in SUBSET D : T # {} => Max(T) \in T
    BY <1>2, MaxIsIn
  <1>5. c \in Picks(D)
    BY <1>4 DEF Picks
  <1>6. \A T \in SUBSET D : T # {} => c[T] = Max(T) /\ w[c[T]] = rows[Max(T)].amount
    BY <1>4
  <1>7. P(it)
    <2>1. PICK F \in [SUBSET D -> Int] : FoldsAlong(F, c, w, D)
      <3> HIDE DEF c, w, D
      <3>1. QED
        BY <1>2, <1>3, <1>5, FoldExists
    <2>2. P(F)
      <3> DEFINE R == [T \in SUBSET D |-> IF T = {} THEN 0
                                          ELSE F[T \ {Max(T)}] + rows[Max(T)].amount]
      <3>1. F = [T \in SUBSET D |-> IF T = {} THEN 0 ELSE w[c[T]] + F[T \ {c[T]}]]
        BY <2>1, Zenon DEF FoldsAlong
      <3>2. ASSUME NEW T \in SUBSET D PROVE F[T] = R[T]
        <4>1. CASE T = {}
          BY <3>1, <4>1
        <4>2. CASE T # {}
          <5>1. Max(T) \in D /\ F[T] = w[Max(T)] + F[T \ {Max(T)}]
            BY <1>4, <1>6, <3>1, <4>2
          <5>2. w[Max(T)] \in Int /\ F[T \ {Max(T)}] \in Int
            BY <1>3, <2>1, <5>1
          <5>3. F[T] = F[T \ {Max(T)}] + w[Max(T)]
            BY <5>1, <5>2
          <5>4. QED
            BY <4>2, <5>1, <5>3
        <4>3. QED
          BY <4>1, <4>2
      <3>3. F = R
        BY <2>1, <3>2
      <3>4. QED
        BY <3>3, Zenon
    <2> HIDE DEF P
    <2>3. QED
      BY <2>2, Zenon
  <1>8. Adds(it, w, D)
    <2>1. /\ it = [T \in SUBSET D |-> it[T]] /\ it[{}] = 0
          /\ \A T \in SUBSET D : T # {} => it[T] = it[T \ {Max(T)}] + rows[Max(T)].amount
      <3> HIDE DEF it
      <3>1. QED
        BY <1>7
    <2>2. \A T \in SUBSET D : T # {} => w[c[T]] \in Int /\ it[T] = it[T \ {c[T]}] + w[c[T]]
      <3> HIDE DEF it
      <3>1. \A T \in SUBSET D : T # {} => w[c[T]] \in Int
        BY <1>3, <1>5 DEF Picks
      <3>2. QED
        BY <1>6, <2>1, <3>1
    <2> HIDE DEF it, P, D, c, w
    <2>3. it \in [SUBSET D -> Int]
      <3>1. ASSUME NEW T \in SUBSET D, T # {}, it[T \ {c[T]}] \in Int PROVE it[T] \in Int
        <4>1. w[c[T]] \in Int /\ it[T] = it[T \ {c[T]}] + w[c[T]]
          BY <2>2, <3>1
        <4>2. QED
          BY <3>1, <4>1
      <3>2. it[{}] \in Int
        BY <2>1
      <3>3. it = [T \in SUBSET D |-> it[T]]
        BY <2>1
      <3>4. QED
        BY <1>2, <1>5, <3>1, <3>2, <3>3, FoldIsInt
    <2>4. FoldsAlong(it, c, w, D)
      <3>1. ASSUME NEW T \in SUBSET D
            PROVE  it[T] = IF T = {} THEN 0 ELSE w[c[T]] + it[T \ {c[T]}]
        <4>1. CASE T = {}
          BY <2>1, <4>1
        <4>2. CASE T # {}
          <5>1. c[T] \in T
            BY <1>5, <4>2 DEF Picks
          <5>2. w[c[T]] \in Int /\ it[T] = it[T \ {c[T]}] + w[c[T]]
            BY <2>2, <4>2
          <5>3. it[T \ {c[T]}] \in Int
            BY <2>3, <5>1
          <5>4. it[T] = w[c[T]] + it[T \ {c[T]}]
            BY <5>2, <5>3
          <5>5. QED
            BY <4>2, <5>4
        <4>3. QED
          BY <4>1, <4>2
      <3>2. QED
        BY <2>3, <3>1 DEF FoldsAlong
    <2>5. QED
      BY <1>2, <1>3, <1>5, <2>3, <2>4, FoldTakesAny
  <1>9. SumFunctionOnSet(w, D) = it[D]
    <2> HIDE DEF it, P, D, c, w
    <2>1. \A x \in D : w[x] \in Int
      BY <1>3
    <2>2. PICK F : Adds(F, w, D) /\ SumFunctionOnSet(w, D) = F[D]
      BY <1>2, <2>1, SumIsAdded
    <2>3. it = F
      BY <1>2, <1>8, <2>2, AddsUnique
    <2>4. QED
      BY <2>2, <2>3
  <1>10. QED
    BY <1>1, <1>9

\* A batch raises the sum of the entitlements by the sum of its rows: its
\* holders had none, and no two of its rows name one holder.
LEMMA BatchAddsItsRows ==
  ASSUME TypeOK, NEW caller, NEW rows \in Batches, SetEntitlements(caller, rows)
  PROVE  /\ SumFunction(entitlementV1') = SumFunction(entitlementV1) + SumOfRows(rows)
         /\ SumOfRows(rows) \in Nat
  <1> DEFINE D == DOMAIN rows
             H == HoldersIn(rows)
             h == [i \in D |-> rows[i].holder]
             w == [i \in D |-> rows[i].amount]
             Old(T) == SumFunctionOnSet(entitlementV1, T)
             New(T) == SumFunctionOnSet(entitlementV1', T)
  <1>1. rows \in Seq(Row) /\ IsFiniteSet(Accounts) /\ UInt \subseteq Nat
    BY Inputs, Addresses, Numbers DEF UInt
  <1>2. IsFiniteSet(D)
    <2>1. D = 1..Len(rows) /\ Len(rows) \in Nat
      BY <1>1
    <2>2. QED
      BY <2>1, FS_Interval
  <1>3. /\ entitlementV1 \in [Accounts -> Nat] /\ entitlementV1' \in [Accounts -> Nat]
        /\ H \in SUBSET Accounts
        /\ \A i \in D : /\ h[i] \in Accounts /\ entitlementV1[h[i]] = 0
                        /\ entitlementV1'[h[i]] = w[i] /\ w[i] \in Nat
        /\ \A a \in Accounts \ H : entitlementV1'[a] = entitlementV1[a]
    <2>1. entitlementV1 \in [Accounts -> Nat]
      BY <1>1 DEF TypeOK
    <2>2. entitlementV1' \in [Accounts -> UInt]
      BY RowsAreWritten
    <2>3. \A i \in D : rows[i].holder \in Accounts /\ rows[i].amount \in UInt
                       /\ entitlementV1[rows[i].holder] = 0
                       /\ entitlementV1'[rows[i].holder] = rows[i].amount
      BY RowsAreWritten
    <2>4. H \subseteq Accounts /\ \A a \in Accounts \ H : entitlementV1'[a] = entitlementV1[a]
      BY RowsAreWritten
    <2>5. QED
      BY <1>1, <2>1, <2>2, <2>3, <2>4
  <1>4. H = {h[i] : i \in D} /\ \A i, j \in D : h[i] = h[j] => i = j
    BY DEF HoldersIn, SetEntitlements, AcceptsEntitlements, RowsAreDistinct
  <1>5. SumFunction(entitlementV1) = Old(Accounts) /\ SumFunction(entitlementV1') = New(Accounts)
    BY <1>3 DEF SumFunction
  <1>6. IsFiniteSet(H) /\ IsFiniteSet(Accounts \ H)
    BY <1>1, <1>3, FS_Subset
  <1>7. SumOfRows(rows) = SumFunctionOnSet(w, D)
    BY <1>1, RowsAddUp
  <1>8. SumOfRows(rows) \in Nat
    <2>1. \A i \in D : w[i] \in Nat
      BY <1>3
    <2> HIDE DEF D, w
    <2>2. QED
      BY <1>2, <1>7, <2>1, SumIsNat
  <1>9. New(H) = SumFunctionOnSet(w, D)
    <2>1. h \in [D -> Accounts] /\ \A i \in D : w[i] = entitlementV1'[h[i]]
      BY <1>3
    <2>2. \A a \in Accounts : entitlementV1'[a] \in Int
      BY <1>3
    <2> HIDE DEF D, w, h, H
    <2>3. SumFunctionOnSet(entitlementV1', {h[i] : i \in D}) = SumFunctionOnSet(w, D)
      BY <1>1, <1>2, <1>4, <2>1, <2>2, SumIsReindexed
    <2>4. QED
      BY <1>4, <2>3
  <1>10. Old(H) = 0
    <2>1. \A a \in H : entitlementV1[a] = 0
      BY <1>3, <1>4
    <2>2. QED
      BY <1>6, <2>1, SumOfZeros
  <1>11. Old(Accounts \ H) = New(Accounts \ H)
    <2>1. \A a \in Accounts \ H : /\ entitlementV1[a] \in Int
                                  /\ entitlementV1[a] = entitlementV1'[a]
      BY <1>3
    <2> HIDE DEF H
    <2>2. QED
      BY <1>6, <2>1, SumIsExtensional
  <1>12. /\ Old(Accounts) = Old(H) + Old(Accounts \ H)
         /\ New(Accounts) = New(H) + New(Accounts \ H)
         /\ Old(Accounts \ H) \in Int
    <2>1. (\A a \in Accounts : entitlementV1[a] \in Int)
          /\ (\A a \in Accounts : entitlementV1'[a] \in Int)
      BY <1>3
    <2> HIDE DEF H
    <2>2. Old(Accounts) = Old(H) + Old(Accounts \ H)
      BY <1>1, <1>3, <2>1, SumOfParts
    <2>3. New(Accounts) = New(H) + New(Accounts \ H)
      BY <1>1, <1>3, <2>1, SumOfParts
    <2>4. Old(Accounts \ H) \in Int
      BY <1>1, <1>3, <2>1, SumRules
    <2>5. QED
      BY <2>2, <2>3, <2>4
  <1> HIDE DEF D, H, w, h, Old, New
  <1>13. SumFunctionOnSet(w, D) \in Nat
    BY <1>7, <1>8
  <1>14. QED
    BY <1>5, <1>7, <1>8, <1>9, <1>10, <1>11, <1>12, <1>13

\* The part of TotalsAreSums that the actions maintain; that no more is
\* released than entitled follows from it in every state.
RunningTotals ==
  /\ totalEntitledV1 = SumFunction(entitlementV1)
  /\ totalEntitledV2 = toV2Raw(totalEntitledV1)
  /\ totalLockedV1 = SumFunction(migratedV1)

LEMMA InitRunningTotals == Init => RunningTotals
  <1> SUFFICES ASSUME Init PROVE RunningTotals
    OBVIOUS
  <1>1. \A a \in Accounts : entitlementV1[a] = 0 /\ migratedV1[a] = 0
    BY DEF Init
  <1>2. DOMAIN entitlementV1 = Accounts /\ DOMAIN migratedV1 = Accounts
    BY DEF Init
  <1>3. SumFunction(entitlementV1) = 0 /\ SumFunction(migratedV1) = 0
    BY <1>1, <1>2, Addresses, SumOfZeros DEF SumFunction
  <1>4. QED
    BY <1>3, Numbers DEF Init, RunningTotals, toV2Raw

LEMMA StepKeepsRunningTotals ==
  ASSUME IInv, RunningTotals, [Next]_vars
  PROVE  RunningTotals'
  <1>1. /\ TypeOK /\ totalEntitledV1 \in Nat /\ IsFiniteSet(Accounts)
        /\ migratedV1 \in [Accounts -> Nat]
    BY Numbers, Addresses DEF IInv, TypeOK, UInt
  <1>2. ASSUME NEW caller \in Callers, NEW rows \in Batches, SetEntitlements(caller, rows)
        PROVE  RunningTotals'
    <2>1. /\ SumFunction(entitlementV1') = SumFunction(entitlementV1) + SumOfRows(rows)
          /\ SumOfRows(rows) \in Nat
      BY <1>1, <1>2, BatchAddsItsRows
    <2>2. /\ totalEntitledV1' = totalEntitledV1 + SumOfRows(rows)
          /\ totalEntitledV2' = totalEntitledV2 + toV2Raw(SumOfRows(rows))
          /\ UNCHANGED <<totalLockedV1, migratedV1>>
      BY <1>2 DEF SetEntitlements, AcceptsEntitlements
    <2>3. toV2Raw(totalEntitledV1 + SumOfRows(rows)) =
            toV2Raw(totalEntitledV1) + toV2Raw(SumOfRows(rows))
      BY <1>1, <2>1, ScaleAdds
    <2>4. totalEntitledV2' = toV2Raw(totalEntitledV1')
      BY <2>2, <2>3 DEF RunningTotals
    <2>5. totalEntitledV2' = toV2Raw(totalEntitledV1)'
      BY <2>4 DEF toV2Raw
    <2>6. QED
      BY <2>1, <2>2, <2>5 DEF RunningTotals
  <1>3. ASSUME NEW holder \in Accounts \union {Zero}, NEW amount \in UInt,
               NEW recipient \in Accounts \union {Zero}, NEW deadline \in 0..MaxTime,
               NEW fee \in Nat, Migrate(holder, amount, recipient, deadline, fee)
        PROVE  RunningTotals'
    <2>1. holder \in Accounts /\ amount \in Nat
      BY <1>1, <1>3, MigrateMovesExactly
    <2>2. /\ migratedV1[holder] = 0 /\ migratedV1' = [migratedV1 EXCEPT ![holder] = amount]
          /\ totalLockedV1' = totalLockedV1 + amount
          /\ UNCHANGED <<totalEntitledV1, totalEntitledV2, entitlementV1>>
      BY <1>3 DEF Migrate, NotMigrated
    <2>3. \A a \in Accounts : /\ migratedV1[a] \in Int
                              /\ migratedV1'[a] = migratedV1[a] + (IF a = holder THEN amount ELSE 0)
      BY <1>1, <2>1, <2>2
    <2>4. SumFunctionOnSet(migratedV1', Accounts) = SumFunctionOnSet(migratedV1, Accounts) + amount
      <3> DEFINE w == migratedV1'
      <3>1. \A a \in Accounts : /\ migratedV1[a] \in Int
                                /\ w[a] = migratedV1[a] + (IF a = holder THEN amount ELSE 0)
        BY <2>3
      <3>2. amount \in Int /\ holder \in Accounts /\ IsFiniteSet(Accounts)
        BY <1>1, <2>1
      <3> HIDE DEF w
      <3>3. SumFunctionOnSet(w, Accounts) = SumFunctionOnSet(migratedV1, Accounts) + amount
        BY <3>1, <3>2, SumAfterChange
      <3>4. QED
        BY <3>3 DEF w
    <2>5. DOMAIN migratedV1 = Accounts /\ DOMAIN migratedV1' = Accounts
      BY <1>1, <2>2
    <2>6. totalLockedV1' = SumFunction(migratedV1')
      BY <2>2, <2>4, <2>5 DEF RunningTotals, SumFunction
    <2>7. QED
      BY <2>2, <2>6 DEF RunningTotals, toV2Raw
  <1>4. ASSUME UNCHANGED <<totalEntitledV1, totalEntitledV2, totalLockedV1,
                           entitlementV1, migratedV1>>
        PROVE  RunningTotals'
    BY <1>4 DEF RunningTotals, toV2Raw
  <1>5. ASSUME NEW caller \in Callers, SealEntitlements(caller)
        PROVE  RunningTotals'
    BY <1>4, <1>5 DEF SealEntitlements, AcceptsSeal
  <1>6. ASSUME UNCHANGED ledger PROVE RunningTotals'
    BY <1>4, <1>6 DEF ledger
  <1>7. QED
    BY <1>1, <1>2, <1>3, <1>5, <1>6, StepKinds, EnvironmentKeepsIInv

LEMMA VaultRunningTotals == Spec => []RunningTotals
  <1>1. Init => RunningTotals
    BY InitRunningTotals
  <1>2. IInv /\ RunningTotals /\ [Next]_vars => RunningTotals'
    BY StepKeepsRunningTotals
  <1>3. QED
    BY <1>1, <1>2, VaultInvariant, PTL DEF Spec

\* What the vault has booked is what the holders have: the totals are the
\* sums over any number of holders and batches, and no more is ever released
\* than entitled.
THEOREM VaultTotalsAreSums == Spec => []TotalsAreSums
  <1>1. ASSUME IInv, Backing, RunningTotals PROVE TotalsAreSums
    <2>1. /\ entitlementV1 \in [Accounts -> Nat] /\ migratedV1 \in [Accounts -> Nat]
          /\ totalEntitledV1 \in Nat /\ totalLockedV1 \in Nat /\ IsFiniteSet(Accounts)
      BY <1>1, Numbers, Addresses DEF IInv, TypeOK, UInt
    <2>2. \A a \in Accounts : migratedV1[a] <= entitlementV1[a]
      BY <1>1, <2>1 DEF IInv, ActionsAgree, Migrated
    <2>3. totalLockedV1 <= totalEntitledV1
      <3>1. \A a \in Accounts : /\ migratedV1[a] \in Int /\ entitlementV1[a] \in Int
                                /\ migratedV1[a] <= entitlementV1[a]
        BY <2>1, <2>2
      <3>2. SumFunctionOnSet(migratedV1, Accounts) <= SumFunctionOnSet(entitlementV1, Accounts)
        BY <2>1, <3>1, SumIsMonotone
      <3>3. QED
        BY <1>1, <2>1, <3>2 DEF RunningTotals, SumFunction
    <2>4. toV2Raw(totalLockedV1) <= toV2Raw(totalEntitledV1)
      BY <2>1, <2>3, Numbers DEF toV2Raw
    <2>5. QED
      BY <1>1, <2>4 DEF TotalsAreSums, RunningTotals, Backing, ReleasesAreBacked
  <1>2. QED
    BY <1>1, VaultInvariant, VaultBacking, VaultRunningTotals, PTL
-----------------------------------------------------------------------------
\* A step that does not migrate leaves the vault's totals of migrations
\* alone and takes nothing out of its balances.
LEMMA OnlyMigrateReleases ==
  ASSUME IInv, [Next]_vars,
         ~ \E holder \in Accounts \union {Zero}, amount \in UInt,
              recipient \in Accounts \union {Zero}, deadline \in 0..MaxTime, fee \in Nat :
             Migrate(holder, amount, recipient, deadline, fee)
  PROVE  /\ v1[Vault] \in Nat /\ v2[Vault] \in Nat /\ v1'[Vault] \in Nat /\ v2'[Vault] \in Nat
         /\ v1'[Vault] >= v1[Vault] /\ v2'[Vault] >= v2[Vault]
         /\ UNCHANGED <<totalLockedV1, totalReleasedV2, migratedV1>>
  <1>1. /\ v1[Vault] \in Nat /\ v2[Vault] \in Nat /\ TypeOK
    BY Addresses DEF IInv, TypeOK
  <1>2. CASE \E caller \in Callers, rows \in Batches : SetEntitlements(caller, rows)
    BY <1>1, <1>2 DEF SetEntitlements, AcceptsEntitlements, tokens
  <1>3. CASE \E caller \in Callers : SealEntitlements(caller)
    BY <1>1, <1>3 DEF SealEntitlements, AcceptsSeal, tokens
  <1>4. ASSUME IInv', v1'[Vault] >= v1[Vault], v2'[Vault] >= v2[Vault], UNCHANGED ledger
        PROVE  /\ v1'[Vault] \in Nat /\ v2'[Vault] \in Nat
               /\ UNCHANGED <<totalLockedV1, totalReleasedV2, migratedV1>>
    BY <1>4, Addresses DEF IInv, TypeOK, ledger
  <1>5. QED
    BY <1>1, <1>2, <1>3, <1>4, StepKinds, EnvironmentKeepsIInv

\* V2 leaves the vault only for a holder's entitlement of V1, to the holder
\* or to a recipient it signed for in time.
THEOREM VaultReleasesByConsent == Spec => V2LeavesByConsent
  <1> DEFINE Consent ==
        v2'[Vault] < v2[Vault] =>
          \E holder, recipient \in Accounts :
            /\ migratedV1[holder] = 0 /\ migratedV1'[holder] = entitlementV1[holder]
            /\ v1'[holder] = v1[holder] - entitlementV1[holder]
            /\ v2'[recipient] = v2[recipient] + toV2Raw(entitlementV1[holder])
            /\ \/ recipient = holder
               \/ \E a \in signed : /\ a.holder = holder /\ a.recipient = recipient
                                    /\ a.amount = entitlementV1[holder]
                                    /\ a.deadline >= now
  <1>1. IInv /\ [Next]_vars => [Consent]_vars
    <2> SUFFICES ASSUME IInv, [Next]_vars, v2'[Vault] < v2[Vault]
                 PROVE  \E holder, recipient \in Accounts :
                          /\ migratedV1[holder] = 0
                          /\ migratedV1'[holder] = entitlementV1[holder]
                          /\ v1'[holder] = v1[holder] - entitlementV1[holder]
                          /\ v2'[recipient] = v2[recipient] + toV2Raw(entitlementV1[holder])
                          /\ \/ recipient = holder
                             \/ \E a \in signed : /\ a.holder = holder
                                                  /\ a.recipient = recipient
                                                  /\ a.amount = entitlementV1[holder]
                                                  /\ a.deadline >= now
      OBVIOUS
    <2>1. PICK holder \in Accounts \union {Zero}, amount \in UInt,
               recipient \in Accounts \union {Zero}, deadline \in 0..MaxTime, fee \in Nat :
            Migrate(holder, amount, recipient, deadline, fee)
      <3>1. ASSUME ~ \E holder \in Accounts \union {Zero}, amount \in UInt,
                        recipient \in Accounts \union {Zero}, deadline \in 0..MaxTime, fee \in Nat :
                       Migrate(holder, amount, recipient, deadline, fee)
            PROVE  FALSE
        <4>1. v2[Vault] \in Nat /\ v2'[Vault] \in Nat /\ v2'[Vault] >= v2[Vault]
          BY <3>1, OnlyMigrateReleases
        <4>2. QED
          BY <4>1
      <3>2. QED
        BY <3>1
    <2>2. TypeOK
      BY DEF IInv
    <2>3. /\ holder \in Accounts /\ recipient \in Accounts
          /\ v1'[holder] = v1[holder] - amount
          /\ v2'[recipient] = v2[recipient] + toV2Raw(amount)
      BY <2>1, <2>2, MigrateMovesExactly
    <2>4. amount = entitlementV1[holder] /\ migratedV1[holder] = 0
      BY <2>1 DEF Migrate, NotMigrated
    <2>5. migratedV1'[holder] = amount
      BY <2>1, <2>2, <2>3 DEF Migrate, TypeOK
    <2>6. \/ recipient = holder
          \/ \E a \in signed : /\ a.holder = holder /\ a.recipient = recipient
                               /\ a.amount = amount /\ a.deadline >= now
      BY <2>1 DEF Migrate, ConsentsTo
    <2>7. QED
      BY <2>3, <2>4, <2>5, <2>6
  <1>2. QED
    BY <1>1, VaultInvariant, PTL DEF Spec, V2LeavesByConsent

\* A booked release has left the vault by the end of the transaction.
THEOREM VaultBookedReleasesLeave == Spec => BookedReleasesLeave
  <1>1. IInv /\ [Next]_vars =>
          [totalReleasedV2' - totalReleasedV2 > 0 =>
             v2[Vault] - v2'[Vault] = totalReleasedV2' - totalReleasedV2]_vars
    <2> SUFFICES ASSUME IInv, [Next]_vars, totalReleasedV2' - totalReleasedV2 > 0
                 PROVE  v2[Vault] - v2'[Vault] = totalReleasedV2' - totalReleasedV2
      OBVIOUS
    <2>1. TypeOK /\ totalReleasedV2 \in Nat /\ v2[Vault] \in Nat
      BY Addresses, Numbers DEF IInv, TypeOK, UInt
    <2>2. PICK holder \in Accounts \union {Zero}, amount \in UInt,
               recipient \in Accounts \union {Zero}, deadline \in 0..MaxTime, fee \in Nat :
            Migrate(holder, amount, recipient, deadline, fee)
      <3>1. totalReleasedV2' # totalReleasedV2
        BY <2>1
      <3>2. QED
        BY <3>1, OnlyMigrateReleases
    <2>3. /\ v2'[Vault] = v2[Vault] - toV2Raw(amount) /\ toV2Raw(amount) \in Nat
      BY <2>1, <2>2, MigrateMovesExactly
    <2>4. totalReleasedV2' = totalReleasedV2 + toV2Raw(amount)
      BY <2>2 DEF Migrate
    <2>5. QED
      BY <2>1, <2>3, <2>4
  <1>2. QED
    BY <1>1, VaultInvariant, PTL DEF Spec, BookedReleasesLeave
-----------------------------------------------------------------------------
LEMMA InitRefines == Init => Claims!Init
  BY Balances DEF Init, Claims!Init, Migrated

\* The book of claims adds up as the vault does.
LEMMA SameSum ==
  ASSUME NEW f
  PROVE  Claims!SumFunction(f) = SumFunction(f)
  BY Zenon DEF SumFunction, SumFunctionOnSet, FoldFunctionOnSet, MapThenFoldSet,
               Claims!SumFunction, Claims!SumFunctionOnSet, Claims!FoldFunctionOnSet,
               Claims!MapThenFoldSet

LEMMA StepRefines ==
  ASSUME IInv, RunningTotals, [Next]_vars
  PROVE  [Claims!Next]_(Claims!claimVars)
  <1>1. TypeOK /\ ActionsAgree
    BY DEF IInv
  <1>2. CASE \E caller \in Callers, rows \in Batches : SetEntitlements(caller, rows)
    <2>1. PICK caller \in Callers, rows \in Batches : SetEntitlements(caller, rows)
      BY <1>2
    <2>2. UNCHANGED <<entitlementsSealed, migratedV1, tokens>> /\ ~entitlementsSealed
      BY <2>1 DEF SetEntitlements, AcceptsEntitlements
    <2>3. Migrated' = Migrated
      BY <2>2 DEF Migrated
    <2>4. /\ HoldersIn(rows) \subseteq Accounts
          /\ \A a \in HoldersIn(rows) : entitlementV1[a] = 0 /\ entitlementV1'[a] # 0
          /\ \A a \in Accounts \ HoldersIn(rows) : entitlementV1'[a] = entitlementV1[a]
      BY <1>1, <2>1, RowsAreWritten DEF HoldersIn
    <2>5. entitlementV1' \in [Accounts -> Nat]
      <3>1. entitlementV1' \in [Accounts -> UInt]
        BY <1>1, <2>1, RowsAreWritten
      <3>2. UInt \subseteq Nat
        BY Numbers DEF UInt
      <3>3. QED
        BY <3>1, <3>2
    <2>6. Claims!Enter
      BY <2>2, <2>3, <2>4, <2>5 DEF Claims!Enter, tokens
    <2>7. QED
      BY <2>6 DEF Claims!Next
  <1>3. CASE \E caller \in Callers : SealEntitlements(caller)
    <2>1. PICK caller \in Callers : SealEntitlements(caller)
      BY <1>3
    <2>2. v2[Vault] >= toV2Raw(SumFunction(entitlementV1))
      BY <2>1 DEF SealEntitlements, AcceptsSeal, ReserveCoversLiability, RunningTotals
    <2>3. toV2Raw(SumFunction(entitlementV1)) = Scale * SumFunction(entitlementV1)
      <3>1. SumFunction(entitlementV1) \in Nat
        BY <1>1, Numbers DEF RunningTotals, TypeOK, UInt
      <3>2. QED
        BY <3>1, Numbers DEF toV2Raw
    <2>4. Claims!Close
      BY <2>1, <2>2, <2>3, SameSum DEF SealEntitlements, AcceptsSeal, Claims!Close, Migrated, tokens
    <2>5. QED
      BY <2>4 DEF Claims!Next
  <1>4. ASSUME NEW holder \in Accounts \union {Zero}, NEW amount \in UInt,
               NEW recipient \in Accounts \union {Zero}, NEW deadline \in 0..MaxTime,
               NEW fee \in Nat, Migrate(holder, amount, recipient, deadline, fee)
        PROVE  Claims!Next
    <2>1. /\ holder \in Accounts
          /\ v1'[Vault] = v1[Vault] + amount
          /\ v2'[Vault] = v2[Vault] - toV2Raw(amount)
      BY <1>1, <1>4, MigrateMovesExactly
    <2>2. /\ entitlementsSealed /\ amount = entitlementV1[holder] /\ amount # 0
          /\ migratedV1[holder] = 0 /\ v2[Vault] >= toV2Raw(amount)
          /\ migratedV1' = [migratedV1 EXCEPT ![holder] = amount]
          /\ UNCHANGED <<entitlementsSealed, entitlementV1>>
      BY <1>4 DEF Migrate, NotMigrated
    <2>3. Migrated' = Migrated \union {holder} /\ holder \notin Migrated
      BY <1>1, <2>1, <2>2 DEF Migrated, TypeOK
    <2>4. toV2Raw(amount) = Scale * entitlementV1[holder]
      BY <1>1, <2>1, <2>2, Numbers DEF toV2Raw, TypeOK, UInt
    <2>5. Claims!Settle(holder)
      BY <2>1, <2>2, <2>3, <2>4 DEF Claims!Settle
    <2>6. QED
      BY <2>1, <2>5 DEF Claims!Next
  <1>5. ASSUME v1'[Vault] >= v1[Vault], v2'[Vault] >= v2[Vault], UNCHANGED ledger
        PROVE  Claims!Next
    BY <1>5 DEF Claims!Next, Claims!Deposit, ledger, Migrated
  <1>6. QED
    BY <1>1, <1>2, <1>3, <1>4, <1>5, StepKinds, EnvironmentKeepsIInv

\* The vault implements the book of claims: the seal freezes every claim,
\* each is settled at most once at the fixed rate, and there is no other way
\* out for the V1 in escrow or the V2 in reserve.
THEOREM VaultImplementsClaims == Spec => ImplementsClaims
  <1>1. IInv /\ RunningTotals /\ [Next]_vars => [Claims!Next]_(Claims!claimVars)
    BY StepRefines
  <1>2. QED
    BY <1>1, InitRefines, VaultInvariant, VaultRunningTotals, PTL DEF Spec, ImplementsClaims, Claims!ClaimsSpec

\* What is owed is what was entitled and has not migrated, so the reserve
\* that covers remainingV2Liability covers every unsettled claim together:
\* nobody's migration can ever use up what another holder is owed.
THEOREM VaultCoversEveryClaim == Spec => []Claims!EveryClaimIsCovered
  <1>1. ASSUME IInv, Backing, RunningTotals PROVE Claims!EveryClaimIsCovered
    <2> DEFINE owed == Claims!Owed
               left == SumFunctionOnSet(owed, Accounts)
    <2>1. /\ entitlementV1 \in [Accounts -> Nat] /\ migratedV1 \in [Accounts -> Nat]
          /\ totalEntitledV1 \in Nat /\ totalLockedV1 \in Nat /\ IsFiniteSet(Accounts)
          /\ totalEntitledV2 \in Nat /\ totalReleasedV2 \in Nat /\ v2[Vault] \in Nat
      BY <1>1, Numbers, Addresses DEF IInv, TypeOK, UInt
    <2>2. owed = [a \in Accounts |-> IF a \in Migrated THEN 0 ELSE entitlementV1[a]]
      BY DEF Claims!Owed
    <2>3. \A a \in Accounts : /\ owed[a] \in Int /\ migratedV1[a] \in Int
                              /\ entitlementV1[a] = owed[a] + migratedV1[a]
      BY <1>1, <2>1, <2>2 DEF IInv, ActionsAgree, Migrated
    <2>4. left \in Int
      <3> HIDE DEF owed
      <3>1. \A a \in Accounts : owed[a] \in Int
        BY <2>3
      <3>2. QED
        BY <2>1, <3>1, SumRules
    <2>5. SumFunctionOnSet(entitlementV1, Accounts) =
            left + SumFunctionOnSet(migratedV1, Accounts)
      <3> HIDE DEF owed
      <3>1. (\A a \in Accounts : owed[a] \in Int) /\ (\A a \in Accounts : migratedV1[a] \in Int)
            /\ (\A a \in Accounts : entitlementV1[a] = owed[a] + migratedV1[a])
        BY <2>3
      <3>2. QED
        BY <2>1, <3>1, SumIsAdditive
    <2>6. SumFunction(owed) = left
      BY <2>2 DEF SumFunction
    <2>7. totalEntitledV1 = left + totalLockedV1
      BY <1>1, <2>1, <2>5 DEF RunningTotals, SumFunction
    <2> HIDE DEF left, owed
    <2>8. remainingV2Liability = Scale * left
      <3>1. /\ totalEntitledV2 = totalEntitledV1 * Scale
            /\ totalReleasedV2 = totalLockedV1 * Scale
        BY <1>1 DEF RunningTotals, Backing, ReleasesAreBacked, toV2Raw
      <3>2. (left + totalLockedV1) * Scale = Scale * left + totalLockedV1 * Scale
        BY <2>1, <2>4, Numbers
      <3>3. Scale * left \in Int /\ totalLockedV1 * Scale \in Int
        BY <2>1, <2>4, Numbers
      <3>4. QED
        BY <2>7, <3>1, <3>2, <3>3 DEF remainingV2Liability
    <2>9. entitlementsSealed => v2[Vault] >= Scale * left
      BY <1>1, <2>8 DEF Backing, Solvent
    <2>10. QED
      BY <2>6, <2>9, SameSum DEF Claims!EveryClaimIsCovered, owed
  <1>2. QED
    BY <1>1, VaultInvariant, VaultBacking, VaultRunningTotals, PTL

\* After the seal migrate never refuses a holder for want of reserve, and its
\* checked additions never revert: of its conditions only those the holder
\* and the two tokens are answerable for are left.
MigrateIsPayable ==
  entitlementsSealed =>
    \A holder \in Accounts :
      NotMigrated(holder) =>
        /\ v2[Vault] >= toV2Raw(entitlementV1[holder])
        /\ Fits(totalLockedV1 + entitlementV1[holder])
        /\ Fits(totalReleasedV2 + toV2Raw(entitlementV1[holder]))

\* For any number of holders and whatever is sent to the vault or away from
\* the holders, nobody who migrates late finds the reserve or a counter spent.
THEOREM VaultMigrateIsPayable == Spec => []MigrateIsPayable
  <1>1. ASSUME IInv, Backing, RunningTotals, Claims!EveryClaimIsCovered, TotalsAreSums
        PROVE  MigrateIsPayable
    <2> SUFFICES ASSUME entitlementsSealed, NEW holder \in Accounts, NotMigrated(holder)
                 PROVE  /\ v2[Vault] >= toV2Raw(entitlementV1[holder])
                        /\ Fits(totalLockedV1 + entitlementV1[holder])
                        /\ Fits(totalReleasedV2 + toV2Raw(entitlementV1[holder]))
      BY DEF MigrateIsPayable
    <2> DEFINE owed == Claims!Owed
               amount == entitlementV1[holder]
    <2>1. /\ entitlementV1 \in [Accounts -> Nat] /\ migratedV1 \in [Accounts -> Nat]
          /\ totalEntitledV1 \in UInt /\ totalLockedV1 \in Nat /\ IsFiniteSet(Accounts)
          /\ totalEntitledV2 \in UInt /\ totalReleasedV2 \in Nat /\ v2[Vault] \in Nat
          /\ UInt \subseteq Nat
      BY <1>1, Numbers, Addresses DEF IInv, TypeOK, UInt
    <2>2. totalLockedV1 + amount <= totalEntitledV1
      <3> DEFINE after == [migratedV1 EXCEPT ![holder] = amount]
      <3>1. migratedV1[holder] = 0
        BY DEF NotMigrated
      <3>2. \A a \in Accounts : /\ migratedV1[a] \in Int
                                /\ after[a] = migratedV1[a] + (IF a = holder THEN amount ELSE 0)
        BY <2>1, <3>1
      <3>3. \A a \in Accounts : /\ after[a] \in Int /\ entitlementV1[a] \in Int
                                /\ after[a] <= entitlementV1[a]
        <4>1. /\ amount \in Nat
              /\ \A a \in Accounts : /\ entitlementV1[a] \in Nat /\ migratedV1[a] \in Nat
                                     /\ migratedV1[a] # 0 => migratedV1[a] = entitlementV1[a]
          BY <1>1, <2>1 DEF IInv, ActionsAgree, Migrated
        <4> HIDE DEF amount, after
        <4>2. \A a \in Accounts : after[a] \in Int
          BY <3>2, <4>1
        <4>3. ASSUME NEW a \in Accounts PROVE after[a] <= entitlementV1[a]
          <5>1. CASE a = holder
            BY <3>1, <3>2, <4>1, <5>1 DEF amount
          <5>2. CASE a # holder
            <6>1. after[a] = migratedV1[a]
              BY <3>2, <5>2
            <6>2. QED
              BY <4>1, <6>1
          <5>3. QED
            BY <5>1, <5>2
        <4>4. QED
          BY <4>1, <4>2, <4>3
      <3>4. amount \in Int /\ IsFiniteSet(Accounts)
        BY <2>1
      <3> HIDE DEF after, amount
      <3>5. SumFunctionOnSet(after, Accounts) = SumFunctionOnSet(migratedV1, Accounts) + amount
        BY <3>2, <3>4, SumAfterChange
      <3>6. SumFunctionOnSet(after, Accounts) <= SumFunctionOnSet(entitlementV1, Accounts)
        BY <2>1, <3>3, SumIsMonotone
      <3>7. QED
        BY <1>1, <2>1, <3>5, <3>6 DEF RunningTotals, SumFunction
    <2>3. toV2Raw(amount) \in Nat /\ toV2Raw(totalLockedV1 + amount) <= toV2Raw(totalEntitledV1)
      BY <2>1, <2>2, Numbers DEF toV2Raw
    <2>4. totalReleasedV2 + toV2Raw(amount) <= totalEntitledV2
      <3>1. toV2Raw(totalLockedV1 + amount) = toV2Raw(totalLockedV1) + toV2Raw(amount)
        BY <2>1, ScaleAdds
      <3>2. QED
        BY <1>1, <2>3, <3>1 DEF RunningTotals, Backing, ReleasesAreBacked
    <2>5. v2[Vault] >= toV2Raw(amount)
      <3>1. v2[Vault] >= totalEntitledV2 - totalReleasedV2
        BY <1>1 DEF Backing, Solvent, remainingV2Liability
      <3> HIDE DEF amount
      <3>2. QED
        BY <2>1, <2>3, <2>4, <3>1
    <2>6. Fits(totalLockedV1 + amount) /\ Fits(totalReleasedV2 + toV2Raw(amount))
      <3>1. amount \in Nat
        BY <2>1
      <3> HIDE DEF amount
      <3>2. QED
        BY <2>1, <2>2, <2>3, <2>4, <3>1, Numbers DEF Fits, UInt
    <2>7. QED
      BY <2>5, <2>6
  <1>2. QED
    BY <1>1, VaultInvariant, VaultBacking, VaultRunningTotals, VaultCoversEveryClaim,
       VaultTotalsAreSums, PTL
=============================================================================
