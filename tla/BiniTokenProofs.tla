---------------------------- MODULE BiniTokenProofs ----------------------------
(***************************************************************************)
(* Proofs about BiniToken, for every set of addresses, factories, pools    *)
(* and lookalikes.  The type invariant is inductive as it stands: the only *)
(* part that relates two variables is that listed accounts and created     *)
(* pools have code.  That the balances add up to the supply is inductive   *)
(* given their types: an amount that moves stays in the sum.               *)
(***************************************************************************)
EXTENDS BiniToken, SumLemmas, TLAPS

LEMMA InitTypes == Init => TypeOK
<1> SUFFICES ASSUME Init PROVE TypeOK
  OBVIOUS
<1>1. bal \in [Addresses -> Nat]
  BY TokenNumbers DEF Init
<1>2. roles \in [Roles -> SUBSET Addresses]
  BY TokenAddresses DEF Init, InitialRoles
<1>3. factoryKind \in [Addresses -> Kinds]
  BY DEF Init, Kinds
<1>4. deployed \subseteq Addresses
  BY TokenAddresses DEF Init
<1> QED BY <1>1, <1>2, <1>3, <1>4 DEF Init, TypeOK

LEMMA TransferKeepsTypes ==
  ASSUME TypeOK, NEW from \in Addresses, NEW to \in Addresses, NEW amount \in Amounts,
         Transfer(from, to, amount)
  PROVE  TypeOK'
<1>1. bal' \in [Addresses -> Nat]
  <2>1. amount \in Nat /\ bal \in [Addresses -> Nat] /\ bal[from] >= amount
    BY TokenNumbers DEF TypeOK, Transfer
  <2>2. ASSUME NEW a \in Addresses
        PROVE  bal[a] - (IF a = from THEN amount ELSE 0)
                      + (IF a = to THEN amount ELSE 0) \in Nat
    BY <2>1, SMT
  <2> QED BY <2>2 DEF Transfer
<1> QED BY <1>1 DEF TypeOK, Transfer, policy, chain

LEMMA PolicyKeepsTypes ==
  ASSUME TypeOK, NEW caller \in Addresses,
         \/ OpenMarket(caller)
         \/ \E factory \in Factories \union {Zero}, kind \in Kinds :
              SetDexFactory(caller, factory, kind)
         \/ \E accounts \in ListableBatches, blocked \in BOOLEAN :
              SetMarketInfrastructure(caller, accounts, blocked)
  PROVE  TypeOK'
<1>1. CASE OpenMarket(caller)
  BY <1>1 DEF TypeOK, OpenMarket, chain
<1>2. CASE \E factory \in Factories \union {Zero}, kind \in Kinds :
             SetDexFactory(caller, factory, kind)
  BY <1>2, TokenAddresses DEF TypeOK, SetDexFactory, chain
<1>3. CASE \E accounts \in ListableBatches, blocked \in BOOLEAN :
             SetMarketInfrastructure(caller, accounts, blocked)
  BY <1>3 DEF TypeOK, SetMarketInfrastructure, HasCode, chain
<1> QED BY <1>1, <1>2, <1>3

LEMMA AdministrationKeepsTypes ==
  ASSUME TypeOK, NEW caller \in Addresses,
         \/ Pause(caller) \/ Unpause(caller)
         \/ \E new \in Implementations \union {Zero} : Upgrade(caller, new)
         \/ \E role \in Roles, account \in Grantees :
              GrantRole(caller, role, account) \/ RevokeRole(caller, role, account)
  PROVE  TypeOK'
<1>1. CASE Pause(caller) \/ Unpause(caller)
  BY <1>1 DEF TypeOK, Pause, Unpause, policy, chain
<1>2. CASE \E new \in Implementations \union {Zero} : Upgrade(caller, new)
  BY <1>2 DEF TypeOK, Upgrade, policy, chain
<1>3. CASE \E role \in Roles, account \in Grantees :
             GrantRole(caller, role, account) \/ RevokeRole(caller, role, account)
  BY <1>3, TokenAddresses DEF TypeOK, GrantRole, RevokeRole, policy, chain
<1> QED BY <1>1, <1>2, <1>3

\* Nothing an action of the token or of the contracts around it does leaves
\* the types of the storage.
LEMMA NextKeepsTypes == TypeOK /\ [Next]_tokenVars => TypeOK'
<1> SUFFICES ASSUME TypeOK, [Next]_tokenVars PROVE TypeOK'
  OBVIOUS
<1>1. CASE UNCHANGED tokenVars
  BY <1>1 DEF TypeOK, tokenVars, policy, chain
<1>2. ASSUME NEW a \in Addresses, DeployContract(a) PROVE TypeOK'
  BY <1>2 DEF TypeOK, DeployContract, policy
<1>3. ASSUME NEW pool \in RealPools, CreatePool(pool) PROVE TypeOK'
  BY <1>3, TokenContracts DEF TypeOK, CreatePool, policy
<1> QED
  BY <1>1, <1>2, <1>3, TransferKeepsTypes, PolicyKeepsTypes, AdministrationKeepsTypes
  DEF Next

\* The storage of the token keeps the types of its declarations, and what
\* governance lists as market infrastructure had code when it was listed.
THEOREM TokenTypes == Spec => []TypeOK
  BY InitTypes, NextKeepsTypes, PTL DEF Spec
-----------------------------------------------------------------------------
\* Balances change in Transfer only.
LEMMA OnlyTransfersMove ==
  ASSUME Next,
         ~ \E from, to \in Addresses, amount \in Amounts : Transfer(from, to, amount)
  PROVE  bal' = bal
  BY DEF Next, OpenMarket, SetDexFactory, SetMarketInfrastructure, Pause, Unpause,
         Upgrade, GrantRole, RevokeRole, DeployContract, CreatePool

LEMMA BlockedGainsNothing ==
  ASSUME TypeOK, [Next]_tokenVars, NEW a \in Addresses, isBlockedDexDestination(a)
  PROVE  bal'[a] <= bal[a]
<1>1. bal[a] \in Nat
  BY DEF TypeOK
<1>2. ASSUME NEW from \in Addresses, NEW to \in Addresses, NEW amount \in Amounts,
             Transfer(from, to, amount)
      PROVE  bal'[a] <= bal[a]
  <2>1. a # to
    BY <1>2 DEF Transfer, MayMove
  <2>2. bal'[a] = bal[a] - (IF a = from THEN amount ELSE 0) + 0
    BY <1>2, <2>1 DEF Transfer
  <2> QED BY <1>1, <2>2, TokenNumbers
<1>3. CASE bal' = bal
  BY <1>1, <1>3
<1>4. CASE UNCHANGED tokenVars
  BY <1>3, <1>4 DEF tokenVars
<1> QED BY <1>2, <1>3, <1>4, OnlyTransfersMove

\* For every arrangement of factories, pools and lookalikes: whatever is
\* blocked in a state gains no BINI in the step that leaves the state.
THEOREM TokenBlockedNeverGains == Spec => BlockedNeverGains
<1>1. TypeOK /\ [Next]_tokenVars =>
        [\A a \in Addresses : isBlockedDexDestination(a) => bal'[a] <= bal[a]]_tokenVars
  BY BlockedGainsNothing
<1> QED BY <1>1, TokenTypes, PTL DEF Spec, BlockedNeverGains

\* Of what a destination is recognised by, only its code and its creation can
\* change without governance, and a contract its factory does not know is not
\* recognised by the code it gets.
LEMMA RecognitionStands ==
  ASSUME TypeOK, [Next]_tokenVars, policy' = policy, NEW a \in Addresses,
         a \notin created' \ created
  PROVE  isBlockedDexDestination(a)' <=> isBlockedDexDestination(a)
<1>1. UNCHANGED <<marketState, factoryKind, marketInfrastructure>>
  BY DEF policy
<1>2. deployed \subseteq deployed' /\ created \subseteq created'
  BY DEF Next, Transfer, OpenMarket, SetDexFactory, SetMarketInfrastructure, Pause, Unpause, Upgrade,
         GrantRole, RevokeRole, DeployContract, CreatePool, chain, tokenVars
<1>3. a \in created' <=> a \in created
  BY <1>2
<1>4. a \in created => a \in deployed /\ a \in deployed'
  BY <1>2 DEF TypeOK
<1>5. isRecognizedDexPool(a)' <=> isRecognizedDexPool(a)
  BY <1>1, <1>3, <1>4 DEF isRecognizedDexPool, FactoryConfirms, HasCode
<1> QED BY <1>1, <1>5 DEF isBlockedDexDestination, marketOpen

\* Recognition at transfer time follows governance and the factories it
\* registered, for every arrangement of pools and lookalikes: nothing anybody
\* else does blocks a destination or frees one.
THEOREM TokenOnlyPolicyBlocks == Spec => OnlyPolicyBlocks
<1>1. TypeOK /\ [Next]_tokenVars =>
        [policy' = policy =>
           \A a \in Addresses :
             \/ isBlockedDexDestination(a)' <=> isBlockedDexDestination(a)
             \/ a \in created' \ created]_tokenVars
  BY RecognitionStands
<1> QED BY <1>1, TokenTypes, PTL DEF Spec, OnlyPolicyBlocks

\* No function leads back from OPEN_MARKET or edits the registries there.
THEOREM TokenOpeningIsFinal == Spec => OpeningIsFinal
<1>1. [Next]_tokenVars =>
        [marketOpen => /\ marketOpen'
                       /\ UNCHANGED <<factoryKind, marketInfrastructure>>
                       /\ \A a \in Addresses : ~isBlockedDexDestination(a)']_tokenVars
  <2> SUFFICES ASSUME Next, marketOpen
               PROVE  /\ marketState' = marketState
                      /\ UNCHANGED <<factoryKind, marketInfrastructure>>
    BY DEF marketOpen, isBlockedDexDestination
  <2> QED
    BY DEF Next, PreMarket, Transfer, OpenMarket, SetDexFactory, SetMarketInfrastructure, Pause,
           Unpause, Upgrade, GrantRole, RevokeRole, DeployContract, CreatePool, policy
<1> QED BY <1>1, PTL DEF Spec, OpeningIsFinal
-----------------------------------------------------------------------------
\* All the BINI there is was minted by initialize: nothing mints, burns or
\* loses any, under no role, upgrade, pause or transfer to oneself.
SupplyIsFixed == SumFunction(bal) = MaxSupply

LEMMA InitSupply == Init => SupplyIsFixed
<1> SUFFICES ASSUME Init PROVE SupplyIsFixed
  OBVIOUS
<1> DEFINE none == [a \in Addresses |-> 0]
<1>1. \A a \in Addresses : /\ none[a] \in Int
                          /\ bal[a] = none[a] + (IF a = GenesisSafe THEN MaxSupply ELSE 0)
  BY TokenNumbers DEF Init
<1>2. \A a \in Addresses : none[a] = 0
  OBVIOUS
<1> HIDE DEF none
<1>3. IsFiniteSet(Addresses) /\ GenesisSafe \in Addresses /\ MaxSupply \in Int
  BY TokenAddresses, TokenNumbers
<1>4. SumFunctionOnSet(none, Addresses) = 0
  BY <1>2, <1>3, SumOfZeros
<1>5. SumFunctionOnSet(bal, Addresses) = SumFunctionOnSet(none, Addresses) + MaxSupply
  BY <1>1, <1>3, SumAfterChange
<1>6. DOMAIN bal = Addresses
  BY DEF Init
<1> QED BY <1>3, <1>4, <1>5, <1>6 DEF SupplyIsFixed, SumFunction

\* A transfer takes from one balance what it adds to another, or to the same.
LEMMA TransferKeepsSum ==
  ASSUME TypeOK, NEW from \in Addresses, NEW to \in Addresses, NEW amount \in Amounts,
         Transfer(from, to, amount)
  PROVE  SumFunction(bal') = SumFunction(bal)
<1> DEFINE before == bal
           after == bal'
<1>1. IsFiniteSet(Addresses)
  BY TokenAddresses
<1>2. DOMAIN before = Addresses /\ DOMAIN after = Addresses
  BY DEF TypeOK, Transfer
<1>3. \A a \in Addresses : before[a] \in Int
  BY DEF TypeOK
<1>4. \A a \in Addresses : after[a] = before[a] - (IF a = from THEN amount ELSE 0)
                                                + (IF a = to THEN amount ELSE 0)
  BY DEF Transfer
<1>5. amount \in Int /\ \A a \in Addresses : after[a] \in Int
  BY <1>3, <1>4, TokenNumbers
<1> HIDE DEF before, after
<1>6. CASE from = to
  <2>1. \A a \in Addresses : before[a] \in Int /\ before[a] = after[a]
    BY <1>3, <1>4, <1>5, <1>6
  <2> QED BY <1>1, <1>2, <2>1, SumIsExtensional DEF SumFunction, before, after
<1>7. CASE from # to
  <2>1. after[from] + after[to] = before[from] + before[to]
    BY <1>3, <1>4, <1>5, <1>7
  <2>2. \A a \in Addresses \ {from, to} : after[a] = before[a]
    BY <1>3, <1>4
  <2>3. SumFunctionOnSet(after, Addresses) = SumFunctionOnSet(before, Addresses)
    BY <1>1, <1>3, <1>5, <1>7, <2>1, <2>2, SumAfterMove
  <2> QED BY <1>2, <2>3 DEF SumFunction, before, after
<1> QED BY <1>6, <1>7

LEMMA NextKeepsSupply == TypeOK /\ SupplyIsFixed /\ [Next]_tokenVars => SupplyIsFixed'
<1> SUFFICES ASSUME TypeOK, SupplyIsFixed, [Next]_tokenVars PROVE SupplyIsFixed'
  OBVIOUS
<1>1. CASE \E from, to \in Addresses, amount \in Amounts : Transfer(from, to, amount)
  BY <1>1, TransferKeepsSum DEF SupplyIsFixed
<1>2. CASE bal' = bal
  BY <1>2 DEF SupplyIsFixed
<1> QED BY <1>1, <1>2, OnlyTransfersMove DEF tokenVars

\* For every set of accounts and every history, the balances add up to what
\* the Genesis Safe was given at initialization.
THEOREM TokenSupplyIsFixed == Spec => []SupplyIsFixed
  BY InitSupply, NextKeepsSupply, TokenTypes, PTL DEF Spec
=============================================================================
