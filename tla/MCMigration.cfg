\* The migration from the lists to the reconciliation.
SPECIFICATION MigFairSpec
CONSTANTS
  vault = vault
  timelock = timelock
  h1 = h1
  h2 = h2
  safe = safe
  fund = fund
  good = good
  open = open
  same = same
  Accounts = {vault, h1, h2, safe, fund}
  Zero = zero
  Vault = vault
  Timelock = timelock
  Actions <- MCActions
  NoAction = none
  Scale = 2
  MaxUint = 7
  MaxRows = 20
  V1Fees = {0}
  BlockedInV2 = {}
  Amounts = {1}
  MaxTime = 0
  Callers = {timelock}
  Batches <- MCBatches
  Signable <- MCSignable
  Holders = {h1, h2}
  V1Routes = {}
  V2Deposits = {2, 4}
  InitialV1 <- MCInitialV1
  InitialV2 <- MCInitialV2
  Manifests = {good, open}
  Csv <- MCCsv
  Safes = {safe, fund}
  Cap <- MCCap
  Donors = {fund}
  Donations = {2}
  NoManifest = nomanifest
  NoFile = nofile
  NoEvidence = noevidence
INVARIANTS MigTypeOK SealedLedgerIsOnePlan PackagesMatchLedger VerifiedFundingSuffices ReconciliationHeld
PROPERTIES FundedPlansSeal PackagedHoldersArePaid
