\* The second unpause.
SPECIFICATION GovFairSpec
CONSTANTS
  timelock = timelock
  governance = governance
  security = security
  genesis = genesis
  factory = factory
  router = router
  Addresses = {timelock, governance, security, genesis, factory, router}
  Zero = zero
  Factories = {factory}
  AdminTimelock = timelock
  GovernanceSafe = governance
  SecuritySafe = security
  PauserSafe = security
  GenesisSafe = genesis
  Implementations = {logic}
  MaxSupply = 1
  NoFactory = nofactory
  RealKind <- MCPolicyKind
  FactoryOf <- MCFactoryOf
  QuotesBini = {}
  RealPools = {}
  Amounts = {}
  ListableBatches = {}
  Grantees = {}
  PolicyKind <- MCPolicyKind
  PolicyInfrastructure = {}
  Drafts <- MCNoDrafts
  DraftSets = {{}}
  Operations <- MCOperationsNoDrafts
  MinDelay = 2
  Delays = {2}
PROPERTIES EveryPauseEnds
CHECK_DEADLOCK FALSE
