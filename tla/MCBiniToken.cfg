\* The market policy against pools and lookalikes, with roles on the move.
SPECIFICATION Spec
CONSTANTS
  timelock = timelock
  pauser = pauser
  genesis = genesis
  factory = factory
  pool = pool
  wallet = wallet
  Addresses = {timelock, pauser, genesis, factory, pool, wallet}
  Zero = zero
  Factories = {factory}
  AdminTimelock = timelock
  PauserSafe = pauser
  GenesisSafe = genesis
  Implementations = {logic1, logic2}
  MaxSupply = 2
  NoFactory = nofactory
  RealKind <- MCRealKind
  FactoryOf <- MCFactoryOf
  QuotesBini = {pool, wallet}
  RealPools = {pool}
  Amounts = {1, 2}
  ListableBatches <- MCListable
  Grantees = {pauser}
INVARIANTS TypeOK
PROPERTIES OnlyPolicyBlocks BlockedNeverGains OpeningIsFinal
CHECK_DEADLOCK FALSE
