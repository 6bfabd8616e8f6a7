------------------------------ MODULE Governance ------------------------------
(***************************************************************************)
(* How the token is governed: the commands that write operations for the   *)
(* Timelock (unpause plan, configure-market, open-market), the Safes that  *)
(* send them, the Timelock that holds them back and the token they call.   *)
(*                                                                         *)
(* A plan is a file.  Nothing on chain notices that it is written, and the *)
(* package a Safe signs is a function of it, so any action a file allows   *)
(* can be sent at any later time, any number of times.  What a command     *)
(* read from the chain when it wrote the file may be old by then.          *)
(*                                                                         *)
(* Operation documents may also be written by hand, for any call: the      *)
(* commands ask only that the id is the hash of the rest.  The Safes may   *)
(* also call the token themselves; its roles, which a hand-written         *)
(* operation can change, decide what comes of it.                          *)
(*                                                                         *)
(* Left out are transfers and pools (module BiniToken has them), and the   *)
(* operations that change who governs or what: the Timelock's own delay    *)
(* and roles, the token's default admin, and logic other than this one.    *)
(*                                                                         *)
(* An operator named XFault is X with one plausible mistake in it; no      *)
(* action uses it.  It serves to see that the properties notice the        *)
(* mistake.                                                                *)
(***************************************************************************)
EXTENDS Timelock

\* The constants of BiniToken.
CONSTANTS
  Addresses, Zero, Factories, AdminTimelock, PauserSafe, GenesisSafe, Implementations,
  MaxSupply, NoFactory, RealKind, FactoryOf, QuotesBini, RealPools,
  Amounts, ListableBatches, Grantees

CONSTANTS
  PolicyKind,            \* the factories of the DEX policy document and their kinds
  PolicyInfrastructure,  \* its infrastructure entries
  Drafts,                \* operation documents somebody may write by hand
  DraftSets              \* bound: which of them there are together

PolicyEntries == DOMAIN PolicyKind \union PolicyInfrastructure

\* An operation is identified by its calls and its salt.  The commands derive
\* the salt from the calls and from documents that do not change, so what
\* they plan has one salt; a document written by hand has any other.
Operation(call, accounts, how, salt) ==
  [call |-> call, accounts |-> accounts, how |-> how, salt |-> salt]
UnpauseOp == Operation("unpause", {}, "", "planned")
OpenMarketOp == Operation("openMarket", {}, "", "planned")
PolicyOps ==
  {Operation("setPolicy", entries, "", "planned") : entries \in (SUBSET PolicyEntries) \ {{}}}

\* The call of a hand-written operation: one function of the token, or
\* "elsewhere" for another contract.  Only the batches of bini_v2_cli make
\* several calls.
MarketCalls == {"openMarket", "setFactory", "list", "delist"}
RoleCalls == {"grantRole", "revokeRole"}
DraftCalls == MarketCalls \union RoleCalls \union {"pause", "unpause", "upgrade", "elsewhere"}

ASSUME GovernanceOperations ==
  /\ Operations = {UnpauseOp, OpenMarketOp} \union PolicyOps \union Drafts
  /\ DraftSets \subseteq SUBSET Drafts
  /\ \A op \in Drafts :
       /\ op.salt # "planned"
       /\ op.call \in DraftCalls
       /\ op.accounts \subseteq Addresses
       /\ op.call = "setFactory" => op.how \in {"NONE", "UNISWAP_V2", "UNISWAP_V3"}
       /\ op.call \in RoleCalls => op.how \in {"UPGRADER", "PAUSER", "UNPAUSER", "MARKET_MANAGER"}
ASSUME GovernanceAddresses ==
  /\ PauserSafe = SecuritySafe /\ AdminTimelock \notin {GovernanceSafe, SecuritySafe}
  /\ DOMAIN PolicyKind \subseteq Factories \intersect Addresses
  /\ PolicyInfrastructure \subseteq Addresses
  /\ DOMAIN PolicyKind \intersect PolicyInfrastructure = {}
  /\ \A factory \in DOMAIN PolicyKind : PolicyKind[factory] \in {"UNISWAP_V2", "UNISWAP_V3"}
  /\ {AdminTimelock, PauserSafe, GenesisSafe} \subseteq Addresses /\ MaxSupply \in Nat

VARIABLES
  marketState, factoryKind, marketInfrastructure, paused, bal, roles, implementation,
  deployed, created,
  documents,   \* operation documents on disk
  proposals    \* schedule and execute proposals of bini_v2_cli on disk

Token == INSTANCE BiniToken

policy == <<marketState, factoryKind, marketInfrastructure>>
tokenVars == <<policy, paused, bal, roles, implementation, deployed, created>>
files == <<documents, proposals>>
govVars == <<queueVars, tokenVars, files>>

GovInit ==
  /\ Init
  /\ Token!Init
  /\ documents \in DraftSets
  /\ proposals = {}
-----------------------------------------------------------------------------
(* The commands.                                                           *)

\* command_unpause_plan asks nothing of the chain.  Its salt is a hash of
\* fixed texts, so every run of it writes the same operation.
UnpausePlan ==
  /\ documents' = documents \union {UnpauseOp}
  /\ UNCHANGED <<queueVars, tokenVars, proposals>>

\* dex_configuration_calls with only_pending: every entry must have the
\* code the policy names; those already in force are left out.
PolicyHasCode == PolicyEntries \subseteq deployed
Pending == {f \in DOMAIN PolicyKind : factoryKind[f] # PolicyKind[f]}
             \union (PolicyInfrastructure \ marketInfrastructure)

UnplannedFault == TRUE   \* FAULT: an earlier artifact is not looked for.

\* The artifact is named after the policy, so it is written once and never
\* again, whatever has become of its operation.
Unplanned == proposals \intersect PolicyOps = {}

ConfigureMarket ==
  /\ PolicyHasCode
  /\ Pending # {}
  /\ Unplanned
  /\ proposals' = proposals \union {Operation("setPolicy", Pending, "", "planned")}
  /\ UNCHANGED <<queueVars, tokenVars, documents>>

PolicyIsCompleteFault == ~Token!marketOpen   \* FAULT: the registries are not compared.

\* verify_dex_policy_onchain
PolicyIsComplete == ~Token!marketOpen /\ PolicyHasCode /\ Pending = {}

OpenMarketPlan ==
  /\ PolicyIsComplete
  /\ OpenMarketOp \notin proposals
  /\ proposals' = proposals \union {OpenMarketOp}
  /\ UNCHANGED <<queueVars, tokenVars, documents>>
-----------------------------------------------------------------------------
(* The Safes, sending packages made from the files.                        *)

Sendable == documents \union proposals

SendSchedule(op) ==
  /\ op \in Sendable
  /\ \E delay \in Delays : Schedule(GovernanceSafe, op, delay)
  /\ UNCHANGED <<tokenVars, files>>

\* Only an operation document leads to a cancel package: the proposals of
\* bini_v2_cli are batches, whose ids validate_timelock_operation refuses.
SendCancel(op) ==
  /\ op \in documents
  /\ Cancel(SecuritySafe, op)
  /\ UNCHANGED <<tokenVars, files>>

\* The batch of setDexFactory calls and one setMarketInfrastructure call.
ApplyPolicy(entries) ==
  /\ Token!HasRole("MARKET_MANAGER", AdminTimelock)
  /\ Token!PreMarket
  /\ \A entry \in entries : Token!HasCode(entry)
  /\ factoryKind' = [a \in Addresses |->
       IF a \in entries \intersect DOMAIN PolicyKind THEN PolicyKind[a] ELSE factoryKind[a]]
  /\ marketInfrastructure' = marketInfrastructure \union (entries \intersect PolicyInfrastructure)
  /\ UNCHANGED <<marketState, paused, bal, roles, implementation, deployed, created>>

Calls(op) ==
  \/ op.call = "unpause" /\ Token!Unpause(AdminTimelock)
  \/ op.call = "openMarket" /\ Token!OpenMarket(AdminTimelock)
  \/ op.call = "setPolicy" /\ ApplyPolicy(op.accounts)
  \/ op.call = "list" /\ Token!SetMarketInfrastructure(AdminTimelock, op.accounts, TRUE)
  \/ op.call = "delist" /\ Token!SetMarketInfrastructure(AdminTimelock, op.accounts, FALSE)
  \/ \E account \in op.accounts :
       \/ op.call = "setFactory" /\ Token!SetDexFactory(AdminTimelock, account, op.how)
       \/ op.call = "grantRole" /\ Token!GrantRole(AdminTimelock, op.how, account)
       \/ op.call = "revokeRole" /\ Token!RevokeRole(AdminTimelock, op.how, account)
  \/ op.call = "pause" /\ Token!Pause(AdminTimelock)
  \/ op.call = "upgrade" /\ \E new \in Implementations : Token!Upgrade(AdminTimelock, new)
  \/ op.call = "elsewhere" /\ UNCHANGED tokenVars

SendExecute(op) ==
  /\ op \in Sendable
  /\ Execute(GovernanceSafe, op)
  /\ Calls(op)
  /\ UNCHANGED files

\* A Safe calls the token without the Timelock: a pause package, or an
\* attempt at what is reserved to the Timelock, which succeeds only with a
\* role the Timelock has granted.  What a Safe may renounce is left out.
SendDirectly(safe) ==
  /\ \/ Token!Pause(safe) \/ Token!Unpause(safe) \/ Token!OpenMarket(safe)
     \/ \E new \in Implementations : Token!Upgrade(safe, new)
     \/ \E factory \in DOMAIN PolicyKind, kind \in Token!Kinds :
          Token!SetDexFactory(safe, factory, kind)
     \/ \E account \in PolicyInfrastructure, blocked \in BOOLEAN :
          Token!SetMarketInfrastructure(safe, {account}, blocked)
  /\ UNCHANGED <<queueVars, files>>

GovTick == Tick /\ UNCHANGED <<tokenVars, files>>

DeployPolicyEntry(a) ==
  /\ Token!DeployContract(a)
  /\ UNCHANGED <<queueVars, files>>

GovNext ==
  \/ UnpausePlan \/ ConfigureMarket \/ OpenMarketPlan
  \/ \E op \in Operations : SendSchedule(op) \/ SendCancel(op) \/ SendExecute(op)
  \/ \E safe \in Callers : SendDirectly(safe)
  \/ GovTick
  \/ \E a \in PolicyEntries : DeployPolicyEntry(a)

GovSpec == GovInit /\ [][GovNext]_govVars

\* Governance goes on working towards an unpause, and time passes.
GovFairness ==
  /\ WF_govVars(UnpausePlan)
  /\ WF_govVars(SendSchedule(UnpauseOp))
  /\ WF_govVars(SendExecute(UnpauseOp))
  /\ WF_govVars(GovTick)
GovFairSpec == GovSpec /\ GovFairness
-----------------------------------------------------------------------------
(* Properties.                                                             *)

\* The Timelock's own types, and the files name known operations only, at
\* most one of them for the policy.
GovTypeOK ==
  /\ TypeOK
  /\ Token!TypeOK
  /\ documents \subseteq {UnpauseOp} \union Drafts
  /\ proposals \subseteq {OpenMarketOp} \union PolicyOps
  /\ \A op1, op2 \in proposals \intersect PolicyOps : op1 = op2

GrantsDone == {op \in Drafts : op.call = "grantRole" /\ isOperationDone(op)}

\* Every reserved power waits: the market, the registries and the end of a
\* pause change only in a step that executes an operation which has been in
\* the queue, uncancelled, for the whole minimum delay; or by a Safe such an
\* operation, written by hand, has given a role to.
PowersWait ==
  [][policy' # policy \/ (paused /\ ~paused') =>
       \/ \E op \in Operations :
            /\ isOperationPending(op) /\ waited[op] >= MinDelay
            /\ isOperationDone(op)'
       \/ \E op \in GrantsDone :
            op.accounts \intersect Callers # {} /\ op.how \in {"UNPAUSER", "MARKET_MANAGER"}]_govVars

\* The hand-written operations that open the market, change its registries
\* or let somebody else do so.
OnTheMarket(op) ==
  op.call \in MarketCalls \/ (op.call = "grantRole" /\ op.how = "MARKET_MANAGER")

\* The market opens over the complete policy, although the policy was
\* compared when the proposal was written and not when it is executed: only
\* a hand-written operation can have opened it otherwise, or have taken an
\* entry back.
OpensOverCompletePolicy ==
  [][Token!marketOpen' /\ ~Token!marketOpen =>
       \/ Pending = {}
       \/ \E op \in Drafts : OnTheMarket(op) /\ isOperationDone(op)']_govVars

NobodyCancels == <>[][\A op \in Operations : ~SendCancel(op)]_govVars

\* The first pause ends: unless the Security Safe cancels again and again,
\* governance gets its unpause through, even after cancellations.  Only a
\* hand-written operation that takes roles away can prevent it.
FirstPauseEnds ==
  NobodyCancels =>
    (paused /\ ~isOperationDone(UnpauseOp) ~>
       \/ ~paused
       \/ \E op \in Drafts : op.call = "revokeRole" /\ isOperationDone(op))

\* Recovery from every pause goes through a scheduled unpause.
EveryPauseEnds == NobodyCancels => (paused ~> ~paused)
=============================================================================
