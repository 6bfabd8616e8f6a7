\* Governance and its two readers, with one operation written by hand, any of five.
SPECIFICATION WatchSpec
CONSTANTS
  timelock = timelock
  governance = governance
  security = security
  genesis = genesis
  factory = factory
  router = router
  Addresses = {timelock, governance, security, genesis, factory, router}
  Zero = zero
  Factories = {factory}
  AdminTimelock = timelock
  GovernanceSafe = governance
  SecuritySafe = security
  PauserSafe = security
  GenesisSafe = genesis
  Implementations = {logic}
  MaxSupply = 1
  NoFactory = nofactory
  RealKind <- MCPolicyKind
  FactoryOf <- MCFactoryOf
  QuotesBini = {}
  RealPools = {}
  Amounts = {}
  ListableBatches = {}
  Grantees = {}
  PolicyKind <- MCPolicyKind
  PolicyInfrastructure = {router}
  Drafts <- MCDrafts
  DraftSets <- MCDraftSets
  Operations <- MCOperations
  MinDelay = 1
  Asked <- UnpauseOp
  NoReport = noreport
  NoOperation = nooperation
  Delays = {0, 1}
INVARIANTS GovTypeOK QueueReportsHeld OpenEvidenceIsTrue
PROPERTIES PowersWait OpensOverCompletePolicy FirstPauseEnds
CHECK_DEADLOCK FALSE
