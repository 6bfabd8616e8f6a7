------------------------------- MODULE BiniToken -------------------------------
(***************************************************************************)
(* src/src/BiniTokenV2.sol: an ERC-20 with a fixed supply, a global pause  *)
(* and a one-way market opening.  Before the opening, transfers into known *)
(* DEX infrastructure revert.  Known means listed by governance, or        *)
(* recognised at the moment of the transfer by asking the destination and  *)
(* the factory it names.                                                   *)
(*                                                                         *)
(* Each external function is one action; a revert is a step that does not  *)
(* happen.  Contracts around the token (factories, pools, wallets) appear  *)
(* at any time, and an address may hold BINI before its code exists.       *)
(*                                                                         *)
(* An operator named XFault is X with one plausible mistake in it; no      *)
(* action uses it.  It serves to see that the properties notice the        *)
(* mistake.                                                                *)
(***************************************************************************)
EXTENDS Integers, FiniteSets

CONSTANTS
  Addresses,    \* every non-zero address
  Zero,         \* address(0)
  Factories,    \* addresses that are AMM factories
  AdminTimelock, PauserSafe, GenesisSafe,
  Implementations,   \* logic contracts the proxy may point to
  MaxSupply

\* What the contracts around the token answer when they are probed.
CONSTANTS
  NoFactory,    \* factory() fails or returns less than a word
  RealKind,     \* the interface a factory really has
  FactoryOf,    \* what factory() of a contract answers
  QuotesBini,   \* contracts whose token0() or token1() is this token
  RealPools     \* contracts their factory creates and knows

CONSTANTS
  Amounts,          \* bound: amounts that are transferred
  ListableBatches,  \* bound: argument lists of setMarketInfrastructure
  Grantees          \* bound: accounts roles are granted to or taken from

Kinds == {"NONE", "UNISWAP_V2", "UNISWAP_V3"}
Roles == {"UPGRADER", "PAUSER", "UNPAUSER", "MARKET_MANAGER"}

\* An address is 160 bits: there are finitely many.
ASSUME TokenAddresses ==
  /\ IsFiniteSet(Addresses)
  /\ Zero \notin Addresses /\ NoFactory \notin Addresses
  /\ {AdminTimelock, PauserSafe, GenesisSafe} \subseteq Addresses
  /\ Factories \subseteq Addresses /\ Grantees \subseteq Addresses
ASSUME TokenContracts ==
  /\ RealKind \in [Factories -> Kinds \ {"NONE"}]
  /\ FactoryOf \in [Addresses -> Addresses \union {NoFactory}]
  /\ QuotesBini \subseteq Addresses
  /\ RealPools \subseteq {a \in Addresses : FactoryOf[a] \in Factories}
ASSUME TokenNumbers == MaxSupply \in Nat /\ Amounts \subseteq Nat
ASSUME TokenInputs == ListableBatches \subseteq SUBSET (Addresses \union {Zero})
ASSUME TokenLogic == Implementations # {} /\ Zero \notin Implementations

VARIABLES
  marketState, factoryKind, marketInfrastructure,   \* BiniTokenV2Storage
  paused, bal, roles, implementation,
  deployed,     \* addresses with code
  created       \* pools their factory knows

policy == <<marketState, factoryKind, marketInfrastructure>>
chain == <<deployed, created>>
tokenVars == <<policy, paused, bal, roles, implementation, chain>>
-----------------------------------------------------------------------------
HasRole(role, caller) == caller \in roles[role]

HasCodeFault(account) == TRUE   \* FAULT: code.length is not looked at.
HasCode(account) == account \in deployed

\* FAULT: the unpauser is the emergency Safe, like the pauser.
InitialRolesFault ==
  [role \in Roles |-> IF role \in {"PAUSER", "UNPAUSER"} THEN {PauserSafe} ELSE {AdminTimelock}]

InitialRoles ==
  [role \in Roles |-> IF role = "PAUSER" THEN {PauserSafe} ELSE {AdminTimelock}]

\* initialize, called by the proxy's constructor in the same transaction.
Init ==
  /\ marketState = "PRE_MARKET"
  /\ factoryKind = [a \in Addresses |-> "NONE"]
  /\ marketInfrastructure = {}
  /\ paused = FALSE
  /\ bal = [a \in Addresses |-> IF a = GenesisSafe THEN MaxSupply ELSE 0]
  /\ roles = InitialRoles
  /\ implementation \in Implementations
  /\ deployed = {AdminTimelock, PauserSafe, GenesisSafe}
  /\ created = {}

\* FAULT: whoever names a registered factory is taken for its pool.
FactoryConfirmsFault(factory, account) == TRUE

\* getPair or getPool of a registered factory, asked through the interface
\* the factory was registered with.  A factory registered with the wrong
\* kind does not understand the question.
FactoryConfirms(factory, account) ==
  /\ factory \in Factories
  /\ factoryKind[factory] = RealKind[factory]
  /\ account \in created

isRecognizedDexPool(account) ==
  /\ HasCode(account)
  /\ FactoryOf[account] # NoFactory
  /\ factoryKind[FactoryOf[account]] # "NONE"
  /\ account \in QuotesBini
  /\ FactoryConfirms(FactoryOf[account], account)

marketOpen == marketState = "OPEN_MARKET"

isBlockedDexDestination(account) ==
  /\ ~marketOpen
  /\ account \in marketInfrastructure \/ isRecognizedDexPool(account)
-----------------------------------------------------------------------------
\* FAULT: the sender is looked up in the registries, not the destination.
MayMoveFault(from, to) == ~paused /\ ~isBlockedDexDestination(from)

\* _update for a transfer or transferFrom its owner has authorised.
MayMove(from, to) == ~paused /\ ~isBlockedDexDestination(to)

Transfer(from, to, amount) ==
  /\ MayMove(from, to)
  /\ bal[from] >= amount
  /\ bal' = [a \in Addresses |-> bal[a] - (IF a = from THEN amount ELSE 0)
                                       + (IF a = to THEN amount ELSE 0)]
  /\ UNCHANGED <<policy, paused, roles, implementation, chain>>

\* _requirePreMarket, the onlyPreMarket modifier.
PreMarketFault == TRUE   \* FAULT: the modifier is missing.
PreMarket == ~marketOpen

OpenMarket(caller) ==
  /\ HasRole("MARKET_MANAGER", caller)
  /\ PreMarket
  /\ marketState' = "OPEN_MARKET"
  /\ UNCHANGED <<factoryKind, marketInfrastructure, paused, bal, roles, implementation, chain>>

SetDexFactory(caller, factory, kind) ==
  /\ HasRole("MARKET_MANAGER", caller)
  /\ PreMarket
  /\ factory # Zero
  /\ kind # "NONE" => HasCode(factory)
  /\ factoryKind' = [factoryKind EXCEPT ![factory] = kind]
  /\ UNCHANGED <<marketState, marketInfrastructure, paused, bal, roles, implementation, chain>>

\* The whole list or nothing: one bad account reverts the entries before it.
SetMarketInfrastructure(caller, accounts, blocked) ==
  /\ HasRole("MARKET_MANAGER", caller)
  /\ PreMarket
  /\ Zero \notin accounts
  /\ blocked => \A account \in accounts : HasCode(account)
  /\ marketInfrastructure' = IF blocked THEN marketInfrastructure \union accounts
                                        ELSE marketInfrastructure \ accounts
  /\ UNCHANGED <<marketState, factoryKind, paused, bal, roles, implementation, chain>>

\* _pause and _unpause of ERC20Pausable, each refused in the state it leads to.
Pause(caller) ==
  /\ HasRole("PAUSER", caller)
  /\ ~paused
  /\ paused' = TRUE
  /\ UNCHANGED <<policy, bal, roles, implementation, chain>>

Unpause(caller) ==
  /\ HasRole("UNPAUSER", caller)
  /\ paused
  /\ paused' = FALSE
  /\ UNCHANGED <<policy, bal, roles, implementation, chain>>

\* upgradeToAndCall with no call: the logic changes, the storage does not.
Upgrade(caller, newImplementation) ==
  /\ HasRole("UPGRADER", caller)
  /\ newImplementation # Zero
  /\ implementation' = newImplementation
  /\ UNCHANGED <<policy, paused, bal, roles, chain>>

\* AccessControlDefaultAdminRules: the default admin administers the four
\* roles, and a member may renounce its own.
GrantRole(caller, role, account) ==
  /\ caller = AdminTimelock
  /\ roles' = [roles EXCEPT ![role] = @ \union {account}]
  /\ UNCHANGED <<policy, paused, bal, implementation, chain>>

RevokeRole(caller, role, account) ==
  /\ caller \in {AdminTimelock, account}
  /\ roles' = [roles EXCEPT ![role] = @ \ {account}]
  /\ UNCHANGED <<policy, paused, bal, implementation, chain>>
-----------------------------------------------------------------------------
\* A contract other than a pool is deployed at its address, by anybody.
DeployContract(a) ==
  /\ a \notin deployed /\ a \notin RealPools
  /\ deployed' = deployed \union {a}
  /\ UNCHANGED <<policy, paused, bal, roles, implementation, created>>

\* A factory deploys a pool and records it, in one transaction.
CreatePool(pool) ==
  /\ pool \in RealPools /\ pool \notin deployed
  /\ FactoryOf[pool] \in deployed
  /\ deployed' = deployed \union {pool}
  /\ created' = created \union {pool}
  /\ UNCHANGED <<policy, paused, bal, roles, implementation>>

Next ==
  \/ \E from, to \in Addresses, amount \in Amounts : Transfer(from, to, amount)
  \/ \E caller \in Addresses : OpenMarket(caller)
  \/ \E caller \in Addresses, factory \in Factories \union {Zero}, kind \in Kinds :
       SetDexFactory(caller, factory, kind)
  \/ \E caller \in Addresses, accounts \in ListableBatches, blocked \in BOOLEAN :
       SetMarketInfrastructure(caller, accounts, blocked)
  \/ \E caller \in Addresses : Pause(caller)
  \/ \E caller \in Addresses : Unpause(caller)
  \/ \E caller \in Addresses, new \in Implementations \union {Zero} : Upgrade(caller, new)
  \/ \E caller \in Addresses, role \in Roles, account \in Grantees :
       GrantRole(caller, role, account) \/ RevokeRole(caller, role, account)
  \/ \E a \in Addresses : DeployContract(a)
  \/ \E pool \in RealPools : CreatePool(pool)

Spec == Init /\ [][Next]_tokenVars
-----------------------------------------------------------------------------
(* Properties.                                                             *)

\* The storage of the token has the types of its declarations; code never
\* disappears from an address that has a role in the policy.
TypeOK ==
  /\ marketState \in {"PRE_MARKET", "OPEN_MARKET"}
  /\ factoryKind \in [Addresses -> Kinds]
  /\ marketInfrastructure \subseteq deployed
  /\ paused \in BOOLEAN
  /\ bal \in [Addresses -> Nat]
  /\ roles \in [Roles -> SUBSET Addresses]
  /\ implementation \in Implementations
  /\ deployed \subseteq Addresses
  /\ created \subseteq deployed \intersect RealPools

\* What is blocked before the opening never gains BINI, whichever pool,
\* router or wallet it is, however it came to be known, and even when it
\* already held BINI: no pool can be given liquidity while it is blocked.
BlockedNeverGains ==
  [][\A a \in Addresses : isBlockedDexDestination(a) => bal'[a] <= bal[a]]_tokenVars

\* A contract that imitates a pool stays an ordinary recipient, and nobody
\* gets a market out of the list: while governance leaves the policy alone,
\* no transfer, pause, upgrade, role or new contract changes who is blocked,
\* but for a pool in the step its factory creates it.
OnlyPolicyBlocks ==
  [][policy' = policy =>
       \A a \in Addresses :
         \/ isBlockedDexDestination(a)' <=> isBlockedDexDestination(a)
         \/ a \in created' \ created]_tokenVars

\* Once open, the market stays open, no destination is blocked again, and
\* the policy registries keep the contents they had.
OpeningIsFinal ==
  [][marketOpen => /\ marketOpen'
                   /\ UNCHANGED <<factoryKind, marketInfrastructure>>
                   /\ \A a \in Addresses : ~isBlockedDexDestination(a)']_tokenVars
=============================================================================
