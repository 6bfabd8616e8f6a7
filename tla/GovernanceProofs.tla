--------------------------- MODULE GovernanceProofs ---------------------------
(***************************************************************************)
(* Proofs about Timelock, TimelockStatus, Governance and GovernanceWatch,  *)
(* for every DEX policy, every set of operations, every minimum delay and  *)
(* whatever delays are asked for.                                          *)
(*                                                                         *)
(* The type invariant of the queue carries the argument about waiting:     *)
(* time left and time waited add up to the minimum delay at least, so an   *)
(* operation with no time left has waited long enough.                     *)
(*                                                                         *)
(* PowersWait follows from the facts about the queue and from what is said *)
(* of roles: RolesFollowGrants, nobody has more than he began with or an   *)
(* executed operation granted.  The opening needs an invariant, because    *)
(* what was compared when the proposal was written must still hold when it *)
(* is executed: OpeningWasChecked says that from the writing of the        *)
(* proposal on, either the policy stays complete or some hand-written      *)
(* operation on the market has been executed.                              *)
(*                                                                         *)
(* The commands of GovernanceWatch change nothing they read.  What they    *)
(* report needs StatusFollows and VerificationFollows: what is still true  *)
(* of the answers they have when the chain has moved on.                   *)
(***************************************************************************)
EXTENDS GovernanceWatch, TLAPS

LEMMA InitTypes == Init => TypeOK
  BY TimelockDelays DEF Init, TypeOK, isOperationPending

LEMMA ScheduleKeepsTypes ==
  ASSUME TypeOK, NEW caller, NEW op \in Operations, NEW delay \in Delays,
         Schedule(caller, op, delay)
  PROVE  TypeOK'
<1>1. delay \in Nat /\ delay >= MinDelay /\ MinDelay \in Nat
  BY TimelockDelays DEF Schedule, DelayIsEnough
<1>2. /\ status' \in [Operations -> {"UNSET", "WAITING", "DONE"}]
      /\ left' \in [Operations -> Nat]
      /\ waited' \in [Operations -> 0..MinDelay]
      /\ cancelled' \subseteq Operations
  BY <1>1 DEF TypeOK, Schedule
<1>3. ASSUME NEW o \in Operations, isOperationPending(o)'
      PROVE  left'[o] + waited'[o] >= MinDelay
  <2>1. CASE o = op
    BY <1>1, <2>1 DEF TypeOK, Schedule
  <2>2. CASE o # op
    BY <1>3, <2>2 DEF TypeOK, Schedule, isOperationPending
  <2> QED BY <2>1, <2>2
<1> QED BY <1>2, <1>3 DEF TypeOK, isOperationPending

LEMMA CancelKeepsTypes ==
  ASSUME TypeOK, NEW caller, NEW op \in Operations, Cancel(caller, op)
  PROVE  TypeOK'
  BY TimelockDelays DEF TypeOK, Cancel, AfterCancel, isOperationPending

LEMMA ExecuteKeepsTypes ==
  ASSUME TypeOK, NEW caller, NEW op \in Operations, Execute(caller, op)
  PROVE  TypeOK'
  BY DEF TypeOK, Execute, isOperationPending

LEMMA TickKeepsTypes ==
  ASSUME TypeOK, Tick
  PROVE  TypeOK'
<1>1. left' \in [Operations -> Nat]
  BY DEF TypeOK, Tick
<1>2. waited' \in [Operations -> 0..MinDelay]
  BY TimelockDelays DEF TypeOK, Tick
<1>3. ASSUME NEW o \in Operations, isOperationPending(o)'
      PROVE  left'[o] + waited'[o] >= MinDelay
  <2>1. isOperationPending(o) /\ left[o] + waited[o] >= MinDelay
    BY <1>3 DEF TypeOK, Tick, isOperationPending
  <2>2. left[o] \in Nat /\ waited[o] \in 0..MinDelay /\ MinDelay \in Nat
    BY TimelockDelays DEF TypeOK
  <2>3. left'[o] = IF left[o] > 0 THEN left[o] - 1 ELSE 0
    BY DEF Tick
  <2>4. waited'[o] = IF waited[o] < MinDelay THEN waited[o] + 1 ELSE waited[o]
    BY <2>1 DEF Tick, isOperationPending
  <2> QED BY <2>1, <2>2, <2>3, <2>4
<1> QED BY <1>1, <1>2, <1>3 DEF TypeOK, Tick, isOperationPending

LEMMA NextKeepsTypes == TypeOK /\ [Next]_queueVars => TypeOK'
<1> SUFFICES ASSUME TypeOK, [Next]_queueVars PROVE TypeOK'
  OBVIOUS
<1>1. CASE UNCHANGED queueVars
  BY <1>1 DEF TypeOK, queueVars, isOperationPending
<1> QED
  BY <1>1, ScheduleKeepsTypes, CancelKeepsTypes, ExecuteKeepsTypes, TickKeepsTypes DEF Next

\* The state of the queue has its types, and a waiting operation has waited
\* for every part of the minimum delay that is not still ahead of it.
THEOREM TimelockTypes == Spec => []TypeOK
  BY InitTypes, NextKeepsTypes, PTL DEF Spec
-----------------------------------------------------------------------------
\* An operation becomes done in Execute only, which demands that it is ready.
LEMMA OnlyReadyBecomesDone ==
  ASSUME TypeOK, [Next]_queueVars, NEW op \in Operations,
         isOperationDone(op)', ~isOperationDone(op)
  PROVE  isOperationPending(op) /\ waited[op] >= MinDelay
<1>1. Next
  BY DEF queueVars, isOperationDone
<1>2. PICK caller \in Callers : Execute(caller, op)
  BY <1>1 DEF Next, TypeOK, Schedule, Cancel, AfterCancel, Execute, Tick, isOperationDone
<1>3. isOperationPending(op) /\ left[op] = 0
  BY <1>2 DEF Execute, isOperationReady, isOperationPending
<1>4. left[op] + waited[op] >= MinDelay /\ waited[op] \in 0..MinDelay
  BY <1>3 DEF TypeOK
<1> QED BY <1>3, <1>4, TimelockDelays

\* No operation is executed before it has waited the minimum delay since
\* its last scheduling.
THEOREM TimelockExecutionWaits == Spec => ExecutionWaits
<1>1. TypeOK /\ [Next]_queueVars =>
        [\A op \in Operations : isOperationDone(op)' /\ ~isOperationDone(op) =>
           isOperationPending(op) /\ waited[op] >= MinDelay]_queueVars
  BY OnlyReadyBecomesDone
<1> QED BY <1>1, TimelockTypes, PTL DEF Spec, ExecutionWaits

LEMMA DoneStaysDone ==
  ASSUME TypeOK, [Next]_queueVars, NEW op \in Operations, isOperationDone(op)
  PROVE  isOperationDone(op)'
<1>1. CASE UNCHANGED queueVars
  BY <1>1 DEF queueVars, isOperationDone
<1>2. CASE Next
  BY <1>2 DEF Next, TypeOK, Schedule, MaySchedule, isOperation, Cancel, isOperationPending,
              Execute, Tick, isOperationDone
<1> QED BY <1>1, <1>2

\* An operation that was executed can be neither scheduled nor cancelled.
THEOREM TimelockDoneIsFinal == Spec => DoneIsFinal
<1>1. TypeOK /\ [Next]_queueVars =>
        [\A op \in Operations : isOperationDone(op) => isOperationDone(op)']_queueVars
  BY DoneStaysDone
<1> QED BY <1>1, TimelockTypes, PTL DEF Spec, DoneIsFinal
-----------------------------------------------------------------------------
LEMMA QueueSteps == [GovNext]_govVars => [Next]_queueVars
<1> SUFFICES ASSUME [GovNext]_govVars PROVE [Next]_queueVars
  OBVIOUS
<1>1. ASSUME NEW op \in Operations, SendSchedule(op) PROVE Next
  BY <1>1 DEF SendSchedule, Next, Callers
<1>2. ASSUME NEW op \in Operations, SendCancel(op) PROVE Next
  BY <1>2 DEF SendCancel, Next, Callers
<1>3. ASSUME NEW op \in Operations, SendExecute(op) PROVE Next
  BY <1>3 DEF SendExecute, Next, Callers
<1>4. CASE GovTick
  BY <1>4 DEF GovTick, Next
<1>5. CASE UnpausePlan \/ ConfigureMarket \/ OpenMarketPlan
             \/ \E safe \in Callers : SendDirectly(safe)
  BY <1>5 DEF UnpausePlan, ConfigureMarket, OpenMarketPlan, SendDirectly
<1>6. CASE \E a \in PolicyEntries : DeployPolicyEntry(a)
  BY <1>6 DEF DeployPolicyEntry
<1>7. CASE UNCHANGED govVars
  BY <1>7 DEF govVars
<1> QED BY <1>1, <1>2, <1>3, <1>4, <1>5, <1>6, <1>7 DEF GovNext

\* Governance drives the Timelock as its own specification allows, so every
\* theorem about the queue is one about the composition.
THEOREM GovernanceUsesTimelock == GovSpec => Spec
  BY QueueSteps, PTL DEF GovSpec, GovInit, Spec

\* A Safe has a reserved role only when a hand-written operation that is done
\* granted it, so without one all a Safe can do directly is pause.
RolesFollowGrants ==
  /\ roles \in [Token!Roles -> SUBSET Addresses]
  /\ \A role \in {"UNPAUSER", "MARKET_MANAGER"}, safe \in Callers :
       safe \in roles[role] => \E op \in GrantsDone : op.how = role /\ safe \in op.accounts

\* What a Safe achieves without the Timelock.
LEMMA SafesActByRole ==
  ASSUME NEW safe \in Callers, SendDirectly(safe)
  PROVE  /\ UNCHANGED <<queueVars, files, roles, bal, deployed, created>>
         /\ policy' = policy \/ Token!HasRole("MARKET_MANAGER", safe)
         /\ paused /\ ~paused' => Token!HasRole("UNPAUSER", safe)
<1>1. UNCHANGED <<queueVars, files>>
  BY DEF SendDirectly
<1>2. CASE Token!Pause(safe) \/ Token!Unpause(safe)
  BY <1>1, <1>2 DEF Token!Pause, Token!Unpause, Token!policy, Token!chain, policy
<1>3. CASE Token!OpenMarket(safe)
  BY <1>1, <1>3 DEF Token!OpenMarket, Token!chain
<1>4. ASSUME NEW new \in Implementations, Token!Upgrade(safe, new)
      PROVE  policy' = policy /\ paused' = paused /\ UNCHANGED <<roles, bal, deployed, created>>
  BY <1>4 DEF Token!Upgrade, Token!policy, Token!chain, policy
<1>5. ASSUME NEW factory, NEW kind, Token!SetDexFactory(safe, factory, kind)
      PROVE  /\ Token!HasRole("MARKET_MANAGER", safe) /\ paused' = paused
             /\ UNCHANGED <<roles, bal, deployed, created>>
  BY <1>5 DEF Token!SetDexFactory, Token!chain
<1>6. ASSUME NEW accounts, NEW blocked, Token!SetMarketInfrastructure(safe, accounts, blocked)
      PROVE  /\ Token!HasRole("MARKET_MANAGER", safe) /\ paused' = paused
             /\ UNCHANGED <<roles, bal, deployed, created>>
  BY <1>6 DEF Token!SetMarketInfrastructure, Token!chain
<1> QED BY <1>1, <1>2, <1>3, <1>4, <1>5, <1>6 DEF SendDirectly

LEMMA DraftsAreOperations == Drafts \subseteq Operations
  BY GovernanceOperations

LEMMA GrantsStay ==
  ASSUME TypeOK, [GovNext]_govVars
  PROVE  GrantsDone \subseteq GrantsDone'
  BY QueueSteps, DoneStaysDone, DraftsAreOperations DEF GrantsDone

\* What the commands plan.
LEMMA PlannedCalls ==
  ASSUME NEW op \in Operations, op \notin Drafts
  PROVE  \/ op = UnpauseOp /\ op.call = "unpause"
         \/ op = OpenMarketOp /\ op.call = "openMarket"
         \/ op.call = "setPolicy"
<1>1. CASE op = UnpauseOp
  BY <1>1 DEF UnpauseOp, Operation
<1>2. CASE op = OpenMarketOp
  BY <1>2 DEF OpenMarketOp, Operation
<1>3. CASE op \in PolicyOps
  <2>1. PICK entries \in (SUBSET PolicyEntries) \ {{}} :
          op = Operation("setPolicy", entries, "", "planned")
    BY <1>3 DEF PolicyOps
  <2> QED BY <2>1 DEF Operation
<1> QED BY <1>1, <1>2, <1>3, GovernanceOperations

\* The other calls are those of hand-written operations.
LEMMA OtherCallsAreDrafts ==
  ASSUME NEW op \in Operations, op.call \notin {"unpause", "openMarket", "setPolicy"}
  PROVE  op \in Drafts
  BY PlannedCalls

\* What an executed operation does to the roles.
LEMMA CallsOnRoles ==
  ASSUME NEW op \in Operations, Calls(op)
  PROVE  \/ roles' = roles
         \/ \E account \in op.accounts :
              \/ op.call = "grantRole" /\ Token!GrantRole(AdminTimelock, op.how, account)
              \/ op.call = "revokeRole" /\ Token!RevokeRole(AdminTimelock, op.how, account)
  BY DEF Calls, ApplyPolicy, Token!Unpause, Token!Pause, Token!OpenMarket, Token!Upgrade,
         Token!SetMarketInfrastructure, Token!SetDexFactory, tokenVars

LEMMA ExecutionKeepsRoles ==
  ASSUME TypeOK, RolesFollowGrants, NEW op \in Operations, SendExecute(op)
  PROVE  RolesFollowGrants'
<1>1. GrantsDone \subseteq GrantsDone'
  BY GrantsStay DEF GovNext
<1>2. CASE roles' = roles
  BY <1>1, <1>2 DEF RolesFollowGrants
<1>3. ASSUME NEW account \in op.accounts, op.call = "grantRole",
             Token!GrantRole(AdminTimelock, op.how, account)
      PROVE  RolesFollowGrants'
  <2>1. op \in Drafts /\ op.how \in Token!Roles /\ account \in Addresses
    BY <1>3, OtherCallsAreDrafts, GovernanceOperations DEF RoleCalls, Token!Roles
  <2>2. isOperationDone(op)'
    BY DEF SendExecute, Execute, isOperationDone, TypeOK
  <2>3. op \in GrantsDone'
    BY <1>3, <2>1, <2>2 DEF GrantsDone
  <2>4. roles' = [roles EXCEPT ![op.how] = @ \union {account}]
    BY <1>3 DEF Token!GrantRole
  <2>5. roles' \in [Token!Roles -> SUBSET Addresses]
    BY <2>1, <2>4 DEF RolesFollowGrants
  <2>6. ASSUME NEW role \in {"UNPAUSER", "MARKET_MANAGER"}, NEW safe \in Callers,
               safe \in roles'[role]
        PROVE  \E grant \in GrantsDone' : grant.how = role /\ safe \in grant.accounts
    <3>1. CASE safe \in roles[role]
      BY <1>1, <3>1 DEF RolesFollowGrants
    <3>2. CASE safe \notin roles[role]
      <4>1. role \in Token!Roles
        BY DEF Token!Roles
      <4>2. role = op.how /\ safe = account
        BY <2>1, <2>4, <2>6, <3>2, <4>1 DEF RolesFollowGrants
      <4> QED BY <2>3, <4>2
    <3> QED BY <3>1, <3>2
  <2> QED BY <2>5, <2>6 DEF RolesFollowGrants
<1>4. ASSUME NEW account \in op.accounts, op.call = "revokeRole",
             Token!RevokeRole(AdminTimelock, op.how, account)
      PROVE  RolesFollowGrants'
  <2>1. roles' = [roles EXCEPT ![op.how] = @ \ {account}]
    BY <1>4 DEF Token!RevokeRole
  <2>2. roles' \in [Token!Roles -> SUBSET Addresses]
        /\ \A role \in Token!Roles : roles'[role] \subseteq roles[role]
    BY <2>1 DEF RolesFollowGrants
  <2> QED BY <1>1, <2>2 DEF RolesFollowGrants, Token!Roles
<1> QED BY <1>2, <1>3, <1>4, CallsOnRoles DEF SendExecute

LEMMA RolesStay ==
  ASSUME TypeOK, RolesFollowGrants, [GovNext]_govVars
  PROVE  RolesFollowGrants'
<1>1. ASSUME roles' = roles PROVE RolesFollowGrants'
  BY <1>1, GrantsStay DEF RolesFollowGrants
<1>2. ASSUME NEW op \in Operations, SendSchedule(op) \/ SendCancel(op)
      PROVE  RolesFollowGrants'
  BY <1>1, <1>2 DEF SendSchedule, SendCancel, tokenVars
<1>3. ASSUME NEW op \in Operations, SendExecute(op) PROVE RolesFollowGrants'
  BY <1>3, ExecutionKeepsRoles
<1>4. ASSUME NEW safe \in Callers, SendDirectly(safe) PROVE RolesFollowGrants'
  BY <1>1, <1>4, SafesActByRole
<1>5. CASE UnpausePlan \/ ConfigureMarket \/ OpenMarketPlan \/ GovTick \/ UNCHANGED govVars
  BY <1>1, <1>5 DEF UnpausePlan, ConfigureMarket, OpenMarketPlan, GovTick, tokenVars, govVars
<1>6. CASE \E a \in PolicyEntries : DeployPolicyEntry(a)
  BY <1>1, <1>6 DEF DeployPolicyEntry, Token!DeployContract
<1> QED BY <1>2, <1>3, <1>4, <1>5, <1>6 DEF GovNext

LEMMA InitRoles == GovInit => RolesFollowGrants
<1> SUFFICES ASSUME GovInit PROVE RolesFollowGrants
  OBVIOUS
<1>1. roles \in [Token!Roles -> SUBSET Addresses]
  BY GovernanceAddresses DEF GovInit, Token!Init, Token!InitialRoles
<1>2. \A role \in {"UNPAUSER", "MARKET_MANAGER"} : roles[role] = {AdminTimelock}
  BY DEF GovInit, Token!Init, Token!InitialRoles, Token!Roles
<1> QED BY <1>1, <1>2, GovernanceAddresses DEF RolesFollowGrants, Callers

LEMMA RolesInvariant == GovSpec => []RolesFollowGrants
<1>1. TypeOK /\ RolesFollowGrants /\ [GovNext]_govVars => RolesFollowGrants'
  BY RolesStay
<1> QED BY <1>1, InitRoles, GovernanceUsesTimelock, TimelockTypes, PTL DEF GovSpec

\* The token's reserved variables change in SendExecute, or by a Safe.
LEMMA OnlyExecutionsAct ==
  ASSUME GovNext, policy' # policy \/ (paused /\ ~paused')
  PROVE  \/ \E op \in Operations : SendExecute(op)
         \/ \E safe \in Callers : SendDirectly(safe)
<1>1. SUFFICES ASSUME ~ \E op \in Operations : SendExecute(op),
                      ~ \E safe \in Callers : SendDirectly(safe)
               PROVE  policy' = policy /\ (paused => paused')
  BY <1>1
<1>2. ASSUME NEW op \in Operations, SendSchedule(op) \/ SendCancel(op)
      PROVE  policy' = policy /\ paused' = paused
  BY <1>2 DEF SendSchedule, SendCancel, tokenVars, policy
<1>3. CASE UnpausePlan \/ ConfigureMarket \/ OpenMarketPlan \/ GovTick
  BY <1>3 DEF UnpausePlan, ConfigureMarket, OpenMarketPlan, GovTick, tokenVars, policy
<1>4. CASE \E a \in PolicyEntries : DeployPolicyEntry(a)
  BY <1>4 DEF DeployPolicyEntry, Token!DeployContract, Token!policy, policy
<1> QED BY <1>1, <1>2, <1>3, <1>4 DEF GovNext

\* A Safe that changes them was given the role.
LEMMA SafesActByGrants ==
  ASSUME RolesFollowGrants, NEW safe \in Callers, SendDirectly(safe)
  PROVE  /\ policy' # policy =>
              \E op \in GrantsDone : op.how = "MARKET_MANAGER" /\ safe \in op.accounts
         /\ paused /\ ~paused' =>
              \E op \in GrantsDone : op.how = "UNPAUSER" /\ safe \in op.accounts
  BY SafesActByRole DEF RolesFollowGrants, Token!HasRole

\* Whatever the commands write, whatever is written by hand and the Safes
\* send, the market, the DEX registries and the end of a pause wait out the
\* minimum delay, or the grant of the role they are used with has.
THEOREM GovernancePowersWait == GovSpec => PowersWait
<1>1. TypeOK /\ RolesFollowGrants /\ [GovNext]_govVars =>
        [policy' # policy \/ (paused /\ ~paused') =>
           \/ \E op \in Operations :
                /\ isOperationPending(op) /\ waited[op] >= MinDelay
                /\ isOperationDone(op)'
           \/ \E op \in GrantsDone :
                op.accounts \intersect Callers # {} /\ op.how \in {"UNPAUSER", "MARKET_MANAGER"}
        ]_govVars
  <2> SUFFICES ASSUME TypeOK, RolesFollowGrants, GovNext,
                      policy' # policy \/ (paused /\ ~paused')
               PROVE  \/ \E op \in Operations :
                           /\ isOperationPending(op) /\ waited[op] >= MinDelay
                           /\ isOperationDone(op)'
                      \/ \E op \in GrantsDone :
                           /\ op.accounts \intersect Callers # {}
                           /\ op.how \in {"UNPAUSER", "MARKET_MANAGER"}
    OBVIOUS
  <2>1. CASE \E safe \in Callers : SendDirectly(safe)
    <3>1. PICK safe \in Callers : SendDirectly(safe)
      BY <2>1
    <3>2. PICK op \in GrantsDone :
            op.how \in {"UNPAUSER", "MARKET_MANAGER"} /\ safe \in op.accounts
      BY <3>1, SafesActByGrants
    <3> QED BY <3>2
  <2>2. CASE \E op \in Operations : SendExecute(op)
    <3>1. PICK op \in Operations : SendExecute(op)
      BY <2>2
    <3>2. isOperationDone(op)' /\ ~isOperationDone(op)
      BY <3>1 DEF SendExecute, Execute, isOperationReady, isOperationDone, TypeOK
    <3>3. [Next]_queueVars
      BY QueueSteps
    <3> QED BY <3>2, <3>3, OnlyReadyBecomesDone
  <2> QED BY <2>1, <2>2, OnlyExecutionsAct
<1> QED
  BY <1>1, GovernanceUsesTimelock, TimelockTypes, RolesInvariant, PTL DEF GovSpec, PowersWait
-----------------------------------------------------------------------------
DraftDone == \E op \in Drafts : OnTheMarket(op) /\ isOperationDone(op)

FactoryKinds == {"NONE", "UNISWAP_V2", "UNISWAP_V3"}

OpeningWasChecked ==
  /\ TypeOK
  /\ RolesFollowGrants
  /\ factoryKind \in [Addresses -> FactoryKinds]
  /\ documents \subseteq {UnpauseOp} \union Drafts
  /\ OpenMarketOp \in proposals => Pending = {} \/ DraftDone

LEMMA OpeningInit == GovInit => OpeningWasChecked
  BY InitTypes, InitRoles, GovernanceOperations
     DEF GovInit, OpeningWasChecked, FactoryKinds, Token!Init

LEMMA DraftDoneStays ==
  ASSUME TypeOK, [GovNext]_govVars, DraftDone
  PROVE  DraftDone'
<1>1. PICK op \in Drafts : OnTheMarket(op) /\ isOperationDone(op)
  BY DEF DraftDone
<1>2. isOperationDone(op)'
  BY <1>1, QueueSteps, DoneStaysDone, DraftsAreOperations
<1> QED BY <1>1, <1>2 DEF DraftDone

\* A Safe with a role on the market has it by a hand-written operation.
LEMMA MarketGrantIsDraft ==
  ASSUME RolesFollowGrants, NEW safe \in Callers, SendDirectly(safe), policy' # policy
  PROVE  DraftDone
  BY SafesActByGrants DEF GrantsDone, DraftDone, OnTheMarket

\* No call gives a factory a kind there is not.
LEMMA KindsStay ==
  ASSUME OpeningWasChecked, [GovNext]_govVars
  PROVE  factoryKind' \in [Addresses -> FactoryKinds]
<1>1. factoryKind \in [Addresses -> FactoryKinds]
  BY DEF OpeningWasChecked
<1>2. ASSUME NEW caller, NEW factory, NEW kind \in FactoryKinds,
             Token!SetDexFactory(caller, factory, kind)
      PROVE  factoryKind' \in [Addresses -> FactoryKinds]
  BY <1>1, <1>2 DEF Token!SetDexFactory
<1>3. ASSUME NEW op \in Operations, SendExecute(op)
      PROVE  factoryKind' \in [Addresses -> FactoryKinds]
  <2>1. CASE op.call = "setFactory" /\ \E account \in op.accounts :
                Token!SetDexFactory(AdminTimelock, account, op.how)
    <3>1. op \in Drafts
      BY <2>1, OtherCallsAreDrafts
    <3>2. op.how \in FactoryKinds
      BY <2>1, <3>1, GovernanceOperations DEF FactoryKinds
    <3> QED BY <1>2, <2>1, <3>2
  <2>2. CASE ApplyPolicy(op.accounts)
    BY <1>1, <2>2, GovernanceAddresses DEF ApplyPolicy, FactoryKinds
  <2>3. CASE factoryKind' = factoryKind
    BY <1>1, <2>3
  <2>4. ASSUME NEW account, \/ Token!GrantRole(AdminTimelock, op.how, account)
                            \/ Token!RevokeRole(AdminTimelock, op.how, account)
        PROVE  factoryKind' = factoryKind
    BY <2>4 DEF Token!GrantRole, Token!RevokeRole, Token!policy
  <2>5. ASSUME NEW new, Token!Upgrade(AdminTimelock, new) PROVE factoryKind' = factoryKind
    BY <2>5 DEF Token!Upgrade, Token!policy
  <2>6. ASSUME NEW blocked, Token!SetMarketInfrastructure(AdminTimelock, op.accounts, blocked)
        PROVE  factoryKind' = factoryKind
    BY <2>6 DEF Token!SetMarketInfrastructure
  <2>7. CASE Token!Unpause(AdminTimelock) \/ Token!Pause(AdminTimelock)
             \/ Token!OpenMarket(AdminTimelock) \/ UNCHANGED tokenVars
    BY <2>3, <2>7 DEF Token!Unpause, Token!Pause, Token!OpenMarket, Token!policy, tokenVars, policy
  <2> QED
    BY <1>3, <2>1, <2>2, <2>3, <2>4, <2>5, <2>6, <2>7 DEF SendExecute, Calls
<1>4. ASSUME NEW safe \in Callers, SendDirectly(safe)
      PROVE  factoryKind' \in [Addresses -> FactoryKinds]
  <2>1. CASE \E factory \in DOMAIN PolicyKind, kind \in Token!Kinds :
               Token!SetDexFactory(safe, factory, kind)
    BY <1>2, <2>1 DEF Token!Kinds, FactoryKinds
  <2>2. CASE factoryKind' = factoryKind
    BY <1>1, <2>2
  <2> QED
    BY <1>4, <2>1, <2>2
       DEF SendDirectly, Token!Unpause, Token!Pause, Token!OpenMarket, Token!Upgrade,
           Token!SetMarketInfrastructure, Token!policy
<1>5. ASSUME ~ \E op \in Operations : SendExecute(op),
             ~ \E safe \in Callers : SendDirectly(safe)
      PROVE  factoryKind' = factoryKind
  BY <1>5, OnlyExecutionsAct DEF policy, govVars, tokenVars
<1> QED BY <1>1, <1>3, <1>4, <1>5

\* The calls of a planned operation never take an entry out of force, nor do
\* the hand-written ones that are not on the market.
LEMMA PolicyCallsComplete ==
  ASSUME OpeningWasChecked, NEW op \in Operations, Calls(op),
         op.call \notin {"setFactory", "list", "delist"}
  PROVE  Pending' \subseteq Pending
<1>1. CASE Token!Unpause(AdminTimelock) \/ Token!Pause(AdminTimelock)
  BY <1>1 DEF Token!Unpause, Token!Pause, Token!policy, Pending
<1>2. CASE Token!OpenMarket(AdminTimelock)
  BY <1>2 DEF Token!OpenMarket, Pending
<1>3. CASE ApplyPolicy(op.accounts)
  BY <1>3, GovernanceAddresses DEF ApplyPolicy, Pending
<1>4. CASE \E account \in op.accounts : Token!GrantRole(AdminTimelock, op.how, account)
                                        \/ Token!RevokeRole(AdminTimelock, op.how, account)
  BY <1>4 DEF Token!GrantRole, Token!RevokeRole, Token!policy, Pending
<1>5. CASE \E new \in Implementations : Token!Upgrade(AdminTimelock, new)
  BY <1>5 DEF Token!Upgrade, Token!policy, Pending
<1>6. CASE UNCHANGED tokenVars
  BY <1>6 DEF tokenVars, policy, Pending
<1> QED BY <1>1, <1>2, <1>3, <1>4, <1>5, <1>6 DEF Calls

\* Executions: a planned operation leaves the policy at least as complete,
\* a hand-written one on the market is remembered as done.
LEMMA ExecutionKeepsOpeningChecked ==
  ASSUME OpeningWasChecked, NEW op \in Operations, SendExecute(op)
  PROVE  OpenMarketOp \in proposals' => Pending' = {} \/ DraftDone'
<1>1. proposals' = proposals
  BY DEF SendExecute, files
<1>2. [GovNext]_govVars
  BY DEF GovNext
<1>3. CASE op.call \in {"setFactory", "list", "delist"}
  <2>1. isOperationDone(op)'
    BY DEF SendExecute, Execute, isOperationDone, OpeningWasChecked, TypeOK
  <2>2. op \in Drafts
    BY <1>3, OtherCallsAreDrafts
  <2> QED BY <1>3, <2>1, <2>2 DEF DraftDone, OnTheMarket, MarketCalls
<1>4. CASE op.call \notin {"setFactory", "list", "delist"}
  <2>1. Pending' \subseteq Pending
    BY <1>4, PolicyCallsComplete DEF SendExecute
  <2> QED BY <1>1, <1>2, <2>1, DraftDoneStays DEF OpeningWasChecked
<1> QED BY <1>3, <1>4

LEMMA NextKeepsOpeningChecked == OpeningWasChecked /\ [GovNext]_govVars => OpeningWasChecked'
<1> SUFFICES ASSUME OpeningWasChecked, [GovNext]_govVars PROVE OpeningWasChecked'
  OBVIOUS
<1>1. TypeOK' /\ RolesFollowGrants' /\ factoryKind' \in [Addresses -> FactoryKinds]
  BY QueueSteps, NextKeepsTypes, RolesStay, KindsStay DEF OpeningWasChecked
<1>2. DraftDone => DraftDone'
  BY DraftDoneStays DEF OpeningWasChecked
<1>3. ASSUME policy' = policy,
             documents' \subseteq documents \union {UnpauseOp},
             OpenMarketOp \in proposals' => OpenMarketOp \in proposals \/ Pending = {}
      PROVE  OpeningWasChecked'
  BY <1>1, <1>2, <1>3 DEF OpeningWasChecked, Pending, policy
<1>4. CASE UnpausePlan
  BY <1>3, <1>4 DEF UnpausePlan, tokenVars, policy
<1>5. CASE ConfigureMarket
  <2>1. OpenMarketOp # Operation("setPolicy", Pending, "", "planned")
    BY DEF OpenMarketOp, Operation
  <2> QED BY <1>3, <1>5, <2>1 DEF ConfigureMarket, tokenVars, policy
<1>6. CASE OpenMarketPlan
  BY <1>3, <1>6 DEF OpenMarketPlan, PolicyIsComplete, tokenVars, policy
<1>7. ASSUME NEW op \in Operations, SendSchedule(op) \/ SendCancel(op)
      PROVE  OpeningWasChecked'
  BY <1>3, <1>7 DEF SendSchedule, SendCancel, tokenVars, policy, files
<1>8. ASSUME NEW op \in Operations, SendExecute(op)
      PROVE  OpeningWasChecked'
  BY <1>1, <1>8, ExecutionKeepsOpeningChecked DEF OpeningWasChecked, SendExecute, files
<1>9. ASSUME NEW safe \in Callers, SendDirectly(safe)
      PROVE  OpeningWasChecked'
  <2>1. documents' = documents /\ proposals' = proposals
    BY <1>9, SafesActByRole DEF files
  <2>2. CASE policy' = policy
    BY <1>3, <2>1, <2>2
  <2>3. CASE policy' # policy
    BY <1>1, <1>2, <1>9, <2>1, <2>3, MarketGrantIsDraft DEF OpeningWasChecked
  <2> QED BY <2>2, <2>3
<1>10. CASE GovTick
  BY <1>3, <1>10 DEF GovTick, tokenVars, policy, files
<1>11. CASE \E a \in PolicyEntries : DeployPolicyEntry(a)
  BY <1>3, <1>11 DEF DeployPolicyEntry, Token!DeployContract, Token!policy, policy, files
<1>12. CASE UNCHANGED govVars
  BY <1>3, <1>12 DEF govVars, tokenVars, policy, files
<1> QED
  BY <1>4, <1>5, <1>6, <1>7, <1>8, <1>9, <1>10, <1>11, <1>12 DEF GovNext

\* An operation that opens the market calls openMarket.
LEMMA ExecutionOpens ==
  ASSUME NEW op \in Operations, SendExecute(op), Token!marketOpen', ~Token!marketOpen
  PROVE  op.call = "openMarket"
<1> SUFFICES ASSUME op.call # "openMarket" PROVE marketState' = marketState
  BY DEF Token!marketOpen
<1>1. CASE \E account \in op.accounts :
             \/ Token!SetDexFactory(AdminTimelock, account, op.how)
             \/ Token!GrantRole(AdminTimelock, op.how, account)
             \/ Token!RevokeRole(AdminTimelock, op.how, account)
  BY <1>1 DEF Token!SetDexFactory, Token!GrantRole, Token!RevokeRole, Token!policy
<1>2. CASE \E new \in Implementations : Token!Upgrade(AdminTimelock, new)
  BY <1>2 DEF Token!Upgrade, Token!policy
<1>3. CASE \/ Token!SetMarketInfrastructure(AdminTimelock, op.accounts, TRUE)
           \/ Token!SetMarketInfrastructure(AdminTimelock, op.accounts, FALSE)
           \/ ApplyPolicy(op.accounts)
  BY <1>3 DEF Token!SetMarketInfrastructure, ApplyPolicy
<1>4. CASE Token!Unpause(AdminTimelock) \/ Token!Pause(AdminTimelock) \/ UNCHANGED tokenVars
  BY <1>4 DEF Token!Unpause, Token!Pause, Token!policy, tokenVars, policy
<1> QED BY <1>1, <1>2, <1>3, <1>4 DEF SendExecute, Calls

\* The market is opened by an operation that calls openMarket, or by a Safe
\* that was given the role.
LEMMA OpeningIsByOperation ==
  ASSUME RolesFollowGrants, [GovNext]_govVars, Token!marketOpen', ~Token!marketOpen
  PROVE  DraftDone \/ \E op \in Operations : SendExecute(op) /\ op.call = "openMarket"
<1>1. marketState' # marketState
  BY DEF Token!marketOpen
<1>2. GovNext /\ policy' # policy
  BY <1>1 DEF policy, govVars, tokenVars
<1>3. CASE \E safe \in Callers : SendDirectly(safe)
  BY <1>2, <1>3, MarketGrantIsDraft
<1> QED BY <1>2, <1>3, ExecutionOpens, OnlyExecutionsAct

\* It is one written by hand, or is executed from its proposal.
LEMMA OpeningComesFromProposal ==
  ASSUME OpeningWasChecked, [GovNext]_govVars, Token!marketOpen', ~Token!marketOpen
  PROVE  DraftDone' \/ OpenMarketOp \in proposals
<1>1. CASE DraftDone
  BY <1>1, DraftDoneStays DEF OpeningWasChecked
<1>2. ASSUME NEW op \in Operations, SendExecute(op), op.call = "openMarket"
      PROVE  DraftDone' \/ OpenMarketOp \in proposals
  <2>1. CASE op \in Drafts
    <3>1. isOperationDone(op)'
      BY <1>2 DEF SendExecute, Execute, isOperationDone, OpeningWasChecked, TypeOK
    <3> QED BY <1>2, <2>1, <3>1 DEF DraftDone, OnTheMarket, MarketCalls
  <2>2. CASE op \notin Drafts
    <3>1. UnpauseOp.call = "unpause"
      BY DEF UnpauseOp, Operation
    <3>2. op # UnpauseOp /\ op = OpenMarketOp
      BY <1>2, <2>2, <3>1, PlannedCalls
    <3> QED BY <1>2, <2>2, <3>2 DEF SendExecute, Sendable, OpeningWasChecked
  <2> QED BY <2>1, <2>2
<1> QED BY <1>1, <1>2, OpeningIsByOperation DEF OpeningWasChecked

\* The market opens over a policy that is complete at that moment, unless a
\* hand-written operation on the market has been executed.
THEOREM GovernanceOpensOverCompletePolicy == GovSpec => OpensOverCompletePolicy
<1>1. OpeningWasChecked /\ [GovNext]_govVars =>
        [Token!marketOpen' /\ ~Token!marketOpen =>
           Pending = {} \/ \E op \in Drafts : OnTheMarket(op) /\ isOperationDone(op)']_govVars
  <2> SUFFICES ASSUME OpeningWasChecked, [GovNext]_govVars,
                      Token!marketOpen', ~Token!marketOpen
               PROVE  Pending = {} \/ \E op \in Drafts : OnTheMarket(op) /\ isOperationDone(op)'
    OBVIOUS
  <2>1. DraftDone => DraftDone'
    BY DraftDoneStays DEF OpeningWasChecked
  <2>2. Pending = {} \/ DraftDone'
    BY <2>1, OpeningComesFromProposal DEF OpeningWasChecked
  <2> QED BY <2>2 DEF DraftDone
<1> QED
  BY <1>1, OpeningInit, NextKeepsOpeningChecked, PTL DEF GovSpec, OpensOverCompletePolicy

\* An open market keeps its policy: every call that changes it reverts.
LEMMA OpenPolicyStands ==
  ASSUME [GovNext]_govVars, Token!marketOpen
  PROVE  UNCHANGED policy
<1>1. ASSUME NEW op \in Operations, SendExecute(op) PROVE UNCHANGED policy
  BY <1>1 DEF SendExecute, Calls, ApplyPolicy, policy, Token!PreMarket, Token!Unpause, Token!Pause,
              Token!OpenMarket, Token!SetMarketInfrastructure, Token!SetDexFactory, Token!Upgrade,
              Token!GrantRole, Token!RevokeRole, Token!policy, tokenVars
<1>2. ASSUME NEW op \in Operations, SendSchedule(op) \/ SendCancel(op) PROVE UNCHANGED policy
  BY <1>2 DEF SendSchedule, SendCancel, tokenVars, policy
<1>3. ASSUME UnpausePlan \/ ConfigureMarket \/ OpenMarketPlan \/ GovTick \/ UNCHANGED govVars
      PROVE  UNCHANGED policy
  BY <1>3 DEF UnpausePlan, ConfigureMarket, OpenMarketPlan, GovTick, govVars, tokenVars, policy
<1>4. ASSUME NEW safe \in Callers, SendDirectly(safe) PROVE UNCHANGED policy
  <2>1. CASE Token!Pause(safe) \/ Token!Unpause(safe)
             \/ \E new \in Implementations : Token!Upgrade(safe, new)
    BY <2>1 DEF policy, Token!Pause, Token!Unpause, Token!Upgrade, Token!policy
  <2>2. CASE ~ (Token!Pause(safe) \/ Token!Unpause(safe)
                \/ \E new \in Implementations : Token!Upgrade(safe, new))
    BY <1>4, <2>2 DEF SendDirectly, Token!PreMarket, Token!OpenMarket, Token!SetDexFactory,
                      Token!SetMarketInfrastructure
  <2> QED BY <2>1, <2>2
<1>5. ASSUME NEW a \in PolicyEntries, DeployPolicyEntry(a) PROVE UNCHANGED policy
  BY <1>5 DEF DeployPolicyEntry, Token!DeployContract, Token!policy, policy
<1> QED BY <1>1, <1>2, <1>3, <1>4, <1>5 DEF GovNext

\* What BiniToken promises of the opening holds when governance drives it: a
\* policy batch, which sets many entries in one transaction, is as powerless
\* after the opening as the single functions are.
THEOREM GovernanceOpeningIsFinal == GovSpec => Token!OpeningIsFinal
<1>1. [GovNext]_govVars =>
        [Token!marketOpen => /\ Token!marketOpen'
                             /\ UNCHANGED <<factoryKind, marketInfrastructure>>
                             /\ \A a \in Addresses : ~Token!isBlockedDexDestination(a)'
        ]_(Token!tokenVars)
  <2> SUFFICES ASSUME [GovNext]_govVars, Token!marketOpen
               PROVE  /\ marketState' = marketState
                      /\ UNCHANGED <<factoryKind, marketInfrastructure>>
    BY DEF Token!marketOpen, Token!isBlockedDexDestination
  <2> QED BY OpenPolicyStands DEF policy
<1> QED BY <1>1, PTL DEF GovSpec, Token!OpeningIsFinal

\* After the opening no operation on the market or its registries is ever
\* executed, whoever wrote it, whether it was left in the queue or is
\* scheduled now.
MarketOperationsEnd ==
  [][Token!marketOpen =>
       \A op \in Operations :
         op.call \in MarketCalls \union {"setPolicy"} /\ isOperationDone(op)'
           => isOperationDone(op)]_govVars

\* Its calls revert, and a reverted execution leaves the operation as it was.
THEOREM GovernanceMarketOperationsEnd == GovSpec => MarketOperationsEnd
<1>1. TypeOK /\ [GovNext]_govVars =>
        [Token!marketOpen =>
           \A op \in Operations :
             op.call \in MarketCalls \union {"setPolicy"} /\ isOperationDone(op)'
               => isOperationDone(op)]_govVars
  <2> SUFFICES ASSUME TypeOK, [GovNext]_govVars, Token!marketOpen, NEW op \in Operations,
                      op.call \in MarketCalls \union {"setPolicy"}
               PROVE  isOperationDone(op)' => isOperationDone(op)
    OBVIOUS
  <2>1. ~SendExecute(op)
    BY DEF MarketCalls, SendExecute, Calls, ApplyPolicy, Token!PreMarket, Token!OpenMarket,
           Token!SetMarketInfrastructure, Token!SetDexFactory
  <2>2. ASSUME NEW other \in Operations, SendExecute(other)
        PROVE  isOperationDone(op)' => isOperationDone(op)
    BY <2>1, <2>2 DEF SendExecute, Execute, TypeOK, isOperationDone
  <2>3. ASSUME NEW other \in Operations, SendSchedule(other) \/ SendCancel(other)
        PROVE  isOperationDone(op)' => isOperationDone(op)
    BY <2>3 DEF SendSchedule, Schedule, SendCancel, Cancel, AfterCancel, TypeOK, isOperationDone
  <2>4. ASSUME UnpausePlan \/ ConfigureMarket \/ OpenMarketPlan \/ GovTick \/ UNCHANGED govVars
               \/ (\E safe \in Callers : SendDirectly(safe))
               \/ (\E a \in PolicyEntries : DeployPolicyEntry(a))
        PROVE  status' = status
    BY <2>4 DEF UnpausePlan, ConfigureMarket, OpenMarketPlan, GovTick, Tick, SendDirectly,
                DeployPolicyEntry, govVars, queueVars
  <2> QED BY <2>2, <2>3, <2>4 DEF GovNext, isOperationDone
<1> QED BY <1>1, GovernanceUsesTimelock, TimelockTypes, PTL DEF GovSpec, MarketOperationsEnd
-----------------------------------------------------------------------------
LEMMA OpeningInvariant == GovSpec => []OpeningWasChecked
  BY OpeningInit, NextKeepsOpeningChecked, PTL DEF GovSpec

TokenTypes == Token!TypeOK

FilesOK ==
  /\ proposals \subseteq {OpenMarketOp} \union PolicyOps
  /\ \A op1, op2 \in proposals \intersect PolicyOps : op1 = op2

\* What the functions of the token keep, whoever calls them.
LEMMA CallsKeepTypes ==
  ASSUME TokenTypes, NEW caller
  PROVE  /\ Token!Unpause(caller) \/ Token!Pause(caller) \/ Token!OpenMarket(caller) => TokenTypes'
         /\ \A accounts, blocked :
              Token!SetMarketInfrastructure(caller, accounts, blocked) => TokenTypes'
         /\ \A factory : \A kind \in Token!Kinds :
              Token!SetDexFactory(caller, factory, kind) => TokenTypes'
         /\ \A new \in Implementations : Token!Upgrade(caller, new) => TokenTypes'
<1>1. ASSUME Token!Unpause(caller) \/ Token!Pause(caller) \/ Token!OpenMarket(caller)
      PROVE  TokenTypes'
  BY <1>1 DEF Token!Unpause, Token!Pause, Token!OpenMarket, Token!policy, Token!chain,
              TokenTypes, Token!TypeOK
<1>2. ASSUME NEW accounts, NEW blocked, Token!SetMarketInfrastructure(caller, accounts, blocked)
      PROVE  TokenTypes'
  <2>1. marketInfrastructure' \subseteq deployed
    BY <1>2 DEF Token!SetMarketInfrastructure, Token!HasCode, TokenTypes, Token!TypeOK
  <2> QED BY <1>2, <2>1 DEF Token!SetMarketInfrastructure, Token!chain, TokenTypes, Token!TypeOK
<1>3. ASSUME NEW factory, NEW kind \in Token!Kinds, Token!SetDexFactory(caller, factory, kind)
      PROVE  TokenTypes'
  BY <1>3 DEF Token!SetDexFactory, Token!chain, TokenTypes, Token!TypeOK
<1>4. ASSUME NEW new \in Implementations, Token!Upgrade(caller, new)
      PROVE  TokenTypes'
  BY <1>4 DEF Token!Upgrade, Token!policy, Token!chain, TokenTypes, Token!TypeOK
<1> QED BY <1>1, <1>2, <1>3, <1>4

LEMMA OperationKeepsTypes ==
  ASSUME RolesFollowGrants', TokenTypes, NEW op \in Operations, Calls(op)
  PROVE  TokenTypes'
<1>1. CASE \/ op.call = "unpause" /\ Token!Unpause(AdminTimelock)
           \/ op.call = "pause" /\ Token!Pause(AdminTimelock)
           \/ op.call = "openMarket" /\ Token!OpenMarket(AdminTimelock)
           \/ op.call = "list" /\ Token!SetMarketInfrastructure(AdminTimelock, op.accounts, TRUE)
           \/ op.call = "delist" /\ Token!SetMarketInfrastructure(AdminTimelock, op.accounts, FALSE)
           \/ op.call = "upgrade" /\ \E new \in Implementations : Token!Upgrade(AdminTimelock, new)
  BY <1>1, CallsKeepTypes
<1>2. CASE op.call = "setPolicy" /\ ApplyPolicy(op.accounts)
  <2>1. factoryKind' \in [Addresses -> Token!Kinds]
    BY <1>2, GovernanceAddresses DEF ApplyPolicy, TokenTypes, Token!TypeOK, Token!Kinds
  <2>2. marketInfrastructure' \subseteq deployed
    BY <1>2 DEF ApplyPolicy, TokenTypes, Token!TypeOK, Token!HasCode
  <2> QED BY <1>2, <2>1, <2>2 DEF ApplyPolicy, TokenTypes, Token!TypeOK
<1>3. ASSUME NEW account \in op.accounts, op.call = "setFactory",
             Token!SetDexFactory(AdminTimelock, account, op.how)
      PROVE  TokenTypes'
  <2>1. op.how \in Token!Kinds
    BY <1>3, OtherCallsAreDrafts, GovernanceOperations DEF Token!Kinds
  <2>2. \A factory : \A kind \in Token!Kinds :
          Token!SetDexFactory(AdminTimelock, factory, kind) => TokenTypes'
    BY CallsKeepTypes
  <2> QED BY <1>3, <2>1, <2>2
<1>4. ASSUME NEW account \in op.accounts,
             \/ Token!GrantRole(AdminTimelock, op.how, account)
             \/ Token!RevokeRole(AdminTimelock, op.how, account)
      PROVE  TokenTypes'
  BY <1>4 DEF Token!GrantRole, Token!RevokeRole, Token!policy, Token!chain,
              TokenTypes, Token!TypeOK, RolesFollowGrants
<1>5. CASE UNCHANGED tokenVars
  BY <1>5 DEF tokenVars, policy, TokenTypes, Token!TypeOK
<1> QED BY <1>1, <1>2, <1>3, <1>4, <1>5 DEF Calls

LEMMA SafeKeepsTypes ==
  ASSUME TokenTypes, NEW safe \in Callers, SendDirectly(safe)
  PROVE  TokenTypes'
<1>1. CASE Token!Pause(safe) \/ Token!Unpause(safe) \/ Token!OpenMarket(safe)
  BY <1>1, CallsKeepTypes
<1>2. ASSUME NEW new \in Implementations, Token!Upgrade(safe, new) PROVE TokenTypes'
  BY <1>2, CallsKeepTypes
<1>3. ASSUME NEW factory, NEW kind \in Token!Kinds, Token!SetDexFactory(safe, factory, kind)
      PROVE  TokenTypes'
  BY <1>3, CallsKeepTypes
<1>4. ASSUME NEW accounts, NEW blocked, Token!SetMarketInfrastructure(safe, accounts, blocked)
      PROVE  TokenTypes'
  BY <1>4, CallsKeepTypes
<1> QED BY <1>1, <1>2, <1>3, <1>4 DEF SendDirectly

LEMMA StepKeepsTokenTypes ==
  ASSUME RolesFollowGrants', TokenTypes, [GovNext]_govVars
  PROVE  TokenTypes'
<1>1. ASSUME UNCHANGED tokenVars PROVE TokenTypes'
  BY <1>1 DEF tokenVars, policy, TokenTypes, Token!TypeOK
<1>2. CASE UnpausePlan \/ ConfigureMarket \/ OpenMarketPlan \/ GovTick \/ UNCHANGED govVars
  BY <1>1, <1>2 DEF UnpausePlan, ConfigureMarket, OpenMarketPlan, GovTick, govVars
<1>3. ASSUME NEW op \in Operations, SendSchedule(op) \/ SendCancel(op) PROVE TokenTypes'
  BY <1>1, <1>3 DEF SendSchedule, SendCancel
<1>4. ASSUME NEW op \in Operations, SendExecute(op) PROVE TokenTypes'
  BY <1>4, OperationKeepsTypes DEF SendExecute
<1>5. CASE \E safe \in Callers : SendDirectly(safe)
  BY <1>5, SafeKeepsTypes
<1>6. CASE \E a \in PolicyEntries : DeployPolicyEntry(a)
  BY <1>6, GovernanceAddresses DEF DeployPolicyEntry, Token!DeployContract, Token!policy,
     PolicyEntries, TokenTypes, Token!TypeOK
<1> QED BY <1>2, <1>3, <1>4, <1>5, <1>6 DEF GovNext

LEMMA StepKeepsFiles ==
  ASSUME FilesOK, [GovNext]_govVars
  PROVE  FilesOK'
<1>1. ASSUME proposals' = proposals PROVE FilesOK'
  BY <1>1 DEF FilesOK
<1>2. CASE ConfigureMarket
  <2>1. Pending \in (SUBSET PolicyEntries) \ {{}}
    BY <1>2 DEF ConfigureMarket, Pending, PolicyEntries
  <2>2. Operation("setPolicy", Pending, "", "planned") \in PolicyOps
    BY <2>1 DEF PolicyOps
  <2> QED BY <1>2, <2>2 DEF ConfigureMarket, Unplanned, FilesOK
<1>3. CASE OpenMarketPlan
  <2>1. OpenMarketOp \notin PolicyOps
    BY DEF OpenMarketOp, PolicyOps, Operation
  <2> QED BY <1>3, <2>1 DEF OpenMarketPlan, FilesOK
<1>4. ASSUME NEW op \in Operations, SendSchedule(op) \/ SendCancel(op) \/ SendExecute(op)
      PROVE  FilesOK'
  BY <1>1, <1>4 DEF SendSchedule, SendCancel, SendExecute, files
<1>5. CASE UnpausePlan \/ GovTick \/ UNCHANGED govVars
           \/ (\E safe \in Callers : SendDirectly(safe))
           \/ (\E a \in PolicyEntries : DeployPolicyEntry(a))
  BY <1>1, <1>5 DEF UnpausePlan, GovTick, SendDirectly, DeployPolicyEntry, govVars, files
<1> QED BY <1>2, <1>3, <1>4, <1>5 DEF GovNext

\* The token and the Timelock keep their types under everything governance
\* does, and a policy has one proposal for ever.
THEOREM GovernanceTypes == GovSpec => []GovTypeOK
<1>1. GovInit => TokenTypes /\ FilesOK
  <2> SUFFICES ASSUME GovInit PROVE TokenTypes /\ FilesOK
    OBVIOUS
  <2>1. FilesOK
    BY DEF GovInit, FilesOK
  <2>2. roles \in [Token!Roles -> SUBSET Addresses]
    BY GovernanceAddresses DEF GovInit, Token!Init, Token!InitialRoles
  <2>3. bal \in [Addresses -> Nat]
    BY GovernanceAddresses DEF GovInit, Token!Init
  <2>4. TokenTypes
    BY <2>2, <2>3, GovernanceAddresses DEF GovInit, Token!Init, TokenTypes, Token!TypeOK, Token!Kinds
  <2> QED BY <2>1, <2>4
<1>2. OpeningWasChecked /\ TokenTypes /\ FilesOK /\ [GovNext]_govVars => (TokenTypes /\ FilesOK)'
  BY StepKeepsTokenTypes, StepKeepsFiles, NextKeepsOpeningChecked DEF OpeningWasChecked
<1>3. OpeningWasChecked /\ TokenTypes /\ FilesOK => GovTypeOK
  BY DEF OpeningWasChecked, TokenTypes, FilesOK, GovTypeOK
<1> QED BY <1>1, <1>2, <1>3, OpeningInvariant, PTL DEF GovSpec
-----------------------------------------------------------------------------
(* The readers of GovernanceWatch.                                         *)

LEMMA WatchSteps ==
  ASSUME [WatchNext]_watchVars
  PROVE  [GovNext]_govVars
<1>1. CASE StatusCommand
  BY <1>1 DEF StatusCommand, Start, ReadDone, ReadReady, ReadPending, PrintState, govVars
<1>2. CASE OpenMarketVerified \/ \E op \in Operations : VerifyOpenMarket(op)
  BY <1>2 DEF OpenMarketVerified, VerifyOpenMarket
<1>3. CASE GovernanceStep
  BY <1>3 DEF GovernanceStep
<1>4. CASE UNCHANGED watchVars
  BY <1>4 DEF watchVars
<1> QED BY <1>1, <1>2, <1>3, <1>4 DEF WatchNext

\* The readers change nothing, so what is proved of governance holds while it
\* is watched.
THEOREM WatchIsOfGovernance == WatchSpec => GovSpec
<1>1. WatchInit => GovInit
  BY DEF WatchInit
<1>2. [WatchNext]_watchVars => [GovNext]_govVars
  BY WatchSteps
<1> QED BY <1>1, <1>2, PTL DEF WatchSpec, GovSpec

\* The states of an operation exclude one another.
LEMMA States ==
  ASSUME TypeOK, NEW op \in Operations
  PROVE  /\ isOperationDone(op) <=> State(op) = "DONE"
         /\ isOperationReady(op) <=> State(op) = "READY"
         /\ isOperationPending(op) /\ ~isOperationReady(op) <=> State(op) = "PENDING"
<1>1. status[op] \in {"UNSET", "WAITING", "DONE"}
  BY DEF TypeOK
<1>2. CASE status[op] = "DONE"
  BY <1>2, Zenon DEF State, isOperationDone, isOperationReady, isOperationPending, isOperation
<1>3. CASE status[op] = "WAITING" /\ left[op] = 0
  BY <1>3, Zenon DEF State, isOperationDone, isOperationReady, isOperationPending, isOperation
<1>4. CASE status[op] = "WAITING" /\ left[op] # 0
  BY <1>4, Zenon DEF State, isOperationDone, isOperationReady, isOperationPending, isOperation
<1>5. CASE status[op] = "UNSET"
  BY <1>5, Zenon DEF State, isOperationDone, isOperationReady, isOperationPending, isOperation
<1> QED BY <1>1, <1>2, <1>3, <1>4, <1>5

\* An operation that becomes ready was pending just before.
LEMMA ReadyComesFromPending ==
  ASSUME TypeOK, [Next]_queueVars, NEW op \in Operations,
         isOperationReady(op)', ~isOperationReady(op)
  PROVE  isOperationPending(op)
<1>1. ASSUME NEW caller \in Callers, NEW o \in Operations, NEW delay \in Delays,
             Schedule(caller, o, delay)
      PROVE  FALSE
  <2>1. delay # 0
    BY <1>1, TimelockDelays DEF Schedule, DelayIsEnough
  <2>2. o # op
    BY <1>1, <2>1 DEF Schedule, isOperationReady, TypeOK
  <2> QED BY <1>1, <2>2 DEF Schedule, isOperationReady, TypeOK
<1>2. ASSUME NEW caller \in Callers, NEW o \in Operations,
             Cancel(caller, o) \/ Execute(caller, o)
      PROVE  FALSE
  BY <1>2 DEF Cancel, AfterCancel, Execute, isOperationReady, TypeOK
<1>3. CASE Tick
  BY <1>3 DEF Tick, isOperationReady, isOperationPending
<1>4. CASE UNCHANGED queueVars
  BY <1>4 DEF queueVars, isOperationReady
<1> QED BY <1>1, <1>2, <1>3, <1>4 DEF Next

LEMMA StateStands ==
  ASSUME UNCHANGED queueVars
  PROVE  /\ State(Asked)' = State(Asked)
         /\ isOperationReady(Asked)' <=> isOperationReady(Asked)
  BY DEF queueVars, State, isOperationDone, isOperationReady, isOperationPending, isOperation

\* What a running operation-status knows.  An operation that was not ready
\* when it was asked whether it is, and is now, was seen pending in between.
StatusFollows ==
  /\ pc \in {"idle", "done", "ready", "pending", "print"}
  /\ answers \in [done : BOOLEAN, ready : BOOLEAN, pending : BOOLEAN]
  /\ pc = "idle" => answers = NoAnswers
  /\ pc # "idle" => State(Asked) \in held
  /\ answers.done => "DONE" \in held
  /\ answers.ready => "READY" \in held
  /\ pc \in {"pending", "print"} /\ ~answers.ready /\ isOperationReady(Asked) => "PENDING" \in held
  /\ pc = "print" /\ ~answers.ready /\ answers.pending => "PENDING" \in held
  /\ QueueReportsHeld

LEMMA ReadsKeepStatus ==
  ASSUME TypeOK, StatusFollows, UNCHANGED queueVars,
         Start \/ ReadDone \/ ReadReady \/ ReadPending \/ PrintState
  PROVE  StatusFollows'
<1>1. /\ State(Asked)' = State(Asked)
      /\ isOperationReady(Asked)' <=> isOperationReady(Asked)
  BY StateStands
<1>2. /\ isOperationDone(Asked) => State(Asked) = "DONE"
      /\ isOperationReady(Asked) => State(Asked) = "READY"
      /\ isOperationPending(Asked) /\ ~isOperationReady(Asked) => State(Asked) = "PENDING"
  BY AskedOperation, States
<1>3. isOperationDone(Asked) \in BOOLEAN /\ isOperationReady(Asked) \in BOOLEAN
      /\ isOperationPending(Asked) \in BOOLEAN
  BY DEF isOperationDone, isOperationReady, isOperationPending
<1>4. CASE Start
  BY <1>1, <1>4, NoReportIsNone DEF Start, StatusFollows, QueueReportsHeld, NoAnswers, Reports
<1>5. CASE ReadDone
  BY <1>1, <1>2, <1>3, <1>5 DEF ReadDone, StatusFollows, QueueReportsHeld
<1>6. CASE ReadReady
  BY <1>1, <1>2, <1>3, <1>6 DEF ReadReady, StatusFollows, QueueReportsHeld
<1>7. CASE ReadPending
  BY <1>1, <1>2, <1>3, <1>7 DEF ReadPending, StatusFollows, QueueReportsHeld
<1>8. CASE PrintState
  <2>1. Verdict \in {"PENDING", "READY", "DONE"} => Verdict \in held
    <3>1. CASE answers.done
      BY <3>1, Zenon DEF Verdict, StatusFollows
    <3>2. CASE ~answers.done /\ answers.ready
      BY <3>2, Zenon DEF Verdict, StatusFollows
    <3>3. CASE ~answers.done /\ ~answers.ready /\ answers.pending
      BY <1>8, <3>3, Zenon DEF Verdict, StatusFollows, PrintState
    <3>4. CASE ~answers.done /\ ~answers.ready /\ ~answers.pending
      <4>1. Verdict \in {"CANCELLED", "UNSET"}
        BY <3>4, Zenon DEF Verdict
      <4> QED BY <4>1
    <3> QED BY <3>1, <3>2, <3>3, <3>4
  <2> QED BY <1>1, <1>8, <2>1 DEF PrintState, StatusFollows, QueueReportsHeld, NoAnswers
<1> QED BY <1>4, <1>5, <1>6, <1>7, <1>8

LEMMA QueueKeepsStatus ==
  ASSUME TypeOK, StatusFollows, [Next]_queueVars, Watching
  PROVE  StatusFollows'
<1>1. isOperationReady(Asked)' /\ ~isOperationReady(Asked) => State(Asked) = "PENDING"
  BY AskedOperation, ReadyComesFromPending, States
<1>2. CASE pc = "idle"
  BY <1>2, NoReportIsNone DEF Watching, StatusFollows, QueueReportsHeld, NoAnswers, Reports
<1>3. CASE pc # "idle"
  <2>1. held \subseteq held' /\ State(Asked)' \in held' /\ State(Asked) \in held
        /\ report' = NoReport /\ pc' = pc /\ answers' = answers
    BY <1>3 DEF Watching, StatusFollows
  <2>2. QueueReportsHeld'
    BY <2>1, NoReportIsNone DEF QueueReportsHeld, Reports
  <2>3. pc \in {"pending", "print"} /\ ~answers.ready /\ isOperationReady(Asked)'
          => "PENDING" \in held'
    BY <1>1, <2>1 DEF StatusFollows
  <2> QED BY <1>3, <2>1, <2>2, <2>3 DEF StatusFollows
<1> QED BY <1>2, <1>3

\* What operation-status says of an operation in the queue, or executed, was
\* so at some moment of the command, whatever governance does meanwhile.
THEOREM WatchQueueReportsHeld == WatchSpec => []QueueReportsHeld
<1>1. WatchInit => StatusFollows
  BY NoReportIsNone DEF WatchInit, StatusInit, StatusFollows, NoAnswers, QueueReportsHeld, Reports
<1>2. TypeOK /\ StatusFollows /\ [WatchNext]_watchVars => StatusFollows'
  <2> SUFFICES ASSUME TypeOK, StatusFollows, [WatchNext]_watchVars PROVE StatusFollows'
    OBVIOUS
  <2>1. CASE StatusCommand
    <3>1. UNCHANGED queueVars
      BY <2>1 DEF StatusCommand, Start, ReadDone, ReadReady, ReadPending, PrintState
    <3> QED BY <2>1, <3>1, ReadsKeepStatus DEF StatusCommand
  <2>2. CASE GovernanceStep
    <3>1. [Next]_queueVars
      BY <2>2, QueueSteps DEF GovernanceStep
    <3> QED BY <2>2, <3>1, QueueKeepsStatus DEF GovernanceStep
  <2>3. ASSUME UNCHANGED <<queueVars, pc, answers, report, held>> PROVE StatusFollows'
    BY <2>3, StateStands DEF StatusFollows, QueueReportsHeld
  <2>4. CASE (\E op \in Operations : VerifyOpenMarket(op)) \/ OpenMarketVerified
    BY <2>3, <2>4 DEF VerifyOpenMarket, OpenMarketVerified, govVars
  <2>5. CASE UNCHANGED watchVars
    BY <2>3, <2>5 DEF watchVars, govVars
  <2> QED BY <2>1, <2>2, <2>4, <2>5 DEF WatchNext
<1>3. StatusFollows => QueueReportsHeld
  BY DEF StatusFollows
<1> QED
  BY <1>1, <1>2, <1>3, WatchIsOfGovernance, GovernanceUsesTimelock, TimelockTypes, PTL DEF WatchSpec
-----------------------------------------------------------------------------
MayOpen(op) ==
  op.call = "openMarket" \/ (op.call = "grantRole" /\ op.how = "MARKET_MANAGER")

OpenedByOperation ==
  Token!marketOpen => \E op \in Operations : isOperationDone(op) /\ MayOpen(op)

LEMMA StepOpensByOperation ==
  ASSUME TypeOK, RolesFollowGrants, OpenedByOperation, [GovNext]_govVars
  PROVE  OpenedByOperation'
<1>1. \A op \in Operations : isOperationDone(op) => isOperationDone(op)'
  BY QueueSteps, DoneStaysDone
<1>2. CASE Token!marketOpen
  BY <1>1, <1>2 DEF OpenedByOperation
<1>3. ASSUME NEW op \in Operations, SendExecute(op), op.call = "openMarket"
      PROVE  OpenedByOperation'
  BY <1>3 DEF SendExecute, Execute, OpenedByOperation, MayOpen, isOperationDone, TypeOK
<1>4. ASSUME NEW safe \in Callers, SendDirectly(safe), policy' # policy
      PROVE  OpenedByOperation'
  BY <1>1, <1>4, SafesActByGrants, DraftsAreOperations DEF GrantsDone, OpenedByOperation, MayOpen
<1>5. CASE ~Token!marketOpen /\ Token!marketOpen'
  <2>1. GovNext /\ policy' # policy
    BY <1>5 DEF policy, govVars, tokenVars, Token!marketOpen
  <2>2. CASE \E safe \in Callers : SendDirectly(safe)
    BY <1>4, <2>1, <2>2
  <2>3. CASE \E op \in Operations : SendExecute(op)
    BY <1>3, <1>5, <2>3, ExecutionOpens
  <2> QED BY <2>1, <2>2, <2>3, OnlyExecutionsAct
<1>6. CASE ~Token!marketOpen'
  BY <1>6 DEF OpenedByOperation
<1> QED BY <1>2, <1>5, <1>6

LEMMA MarketStaysOpen ==
  ASSUME [GovNext]_govVars, Token!marketOpen
  PROVE  Token!marketOpen'
  BY OpenPolicyStands DEF policy, Token!marketOpen

\* A verification that has found the market open, and what it may write.
VerificationFollows ==
  /\ checking \in Operations \union {NoOperation}
  /\ evidence \in Operations \union {NoOperation}
  /\ checking # NoOperation => Token!marketOpen
  /\ evidence # NoOperation => Token!marketOpen /\ isOperationDone(evidence)

\* Evidence of the opening names an executed operation, of an open market
\* that was opened through the queue.
THEOREM WatchOpenEvidenceIsTrue == WatchSpec => []OpenEvidenceIsTrue
<1>1. WatchInit => VerificationFollows /\ OpenedByOperation
  BY DEF WatchInit, GovInit, Token!Init, VerificationFollows, OpenedByOperation, Token!marketOpen
<1>2. TypeOK /\ RolesFollowGrants /\ OpenedByOperation /\ [WatchNext]_watchVars
        => OpenedByOperation'
  BY WatchSteps, StepOpensByOperation
<1>3. TypeOK /\ RolesFollowGrants /\ VerificationFollows /\ [WatchNext]_watchVars
        => VerificationFollows'
  <2> SUFFICES ASSUME TypeOK, RolesFollowGrants, VerificationFollows, [WatchNext]_watchVars
               PROVE  VerificationFollows'
    OBVIOUS
  <2>1. Token!marketOpen => Token!marketOpen'
    BY WatchSteps, MarketStaysOpen
  <2>2. \A op \in Operations : isOperationDone(op) => isOperationDone(op)'
    BY WatchSteps, QueueSteps, DoneStaysDone
  <2>3. ASSUME UNCHANGED openVars PROVE VerificationFollows'
    BY <2>1, <2>2, <2>3 DEF openVars, VerificationFollows
  <2>4. CASE StatusCommand \/ GovernanceStep \/ UNCHANGED watchVars
    BY <2>3, <2>4 DEF StatusCommand, GovernanceStep, watchVars
  <2>5. ASSUME NEW op \in Operations, VerifyOpenMarket(op) PROVE VerificationFollows'
    BY <2>1, <2>2, <2>5 DEF VerifyOpenMarket, MarketIsOpen, VerificationFollows
  <2>6. CASE OpenMarketVerified
    BY <2>1, <2>2, <2>6 DEF OpenMarketVerified, OpenedBy, VerificationFollows
  <2> QED BY <2>4, <2>5, <2>6 DEF WatchNext
<1>4. VerificationFollows /\ OpenedByOperation => OpenEvidenceIsTrue
  BY DEF VerificationFollows, OpenedByOperation, MayOpen, OpenEvidenceIsTrue
<1> QED
  BY <1>1, <1>2, <1>3, <1>4, WatchIsOfGovernance, GovernanceUsesTimelock, TimelockTypes,
     RolesInvariant, PTL DEF WatchSpec
=============================================================================
