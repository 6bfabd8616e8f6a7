\* Safety of the vault: two holders, totals that can reach the uint bound.
SPECIFICATION Spec
CONSTANTS
  vault = vault
  timelock = timelock
  h1 = h1
  h2 = h2
  safe = safe
  a1 = a1
  a2 = a2
  Accounts = {vault, h1, h2, safe}
  Zero = zero
  Vault = vault
  Timelock = timelock
  Actions = {a1, a2}
  NoAction = none
  Scale = 2
  MaxUint = 7
  MaxRows = 2
  V1Fees = {0, 1}
  BlockedInV2 = {safe}
  Amounts = {1, 2}
  MaxTime = 1
  Callers = {timelock, safe}
  Batches <- MCBatches
  Signable <- MCSignable
  Holders = {h1, h2}
  V1Routes <- MCV1Routes
  V2Deposits = {3}
  InitialV1 <- MCInitialV1
  InitialV2 <- MCInitialV2
INVARIANTS TypeOK Solvent ReleasesAreBacked TotalsAreSums ActionsAgree
PROPERTIES V2LeavesByConsent BookedReleasesLeave ImplementsClaims
CHECK_DEADLOCK FALSE
