-------------------------------- MODULE Release --------------------------------
(***************************************************************************)
(* The release commands `timelock deploy/verify`, `deploy` and             *)
(* `distribute`, run by several operators, and the Foundry scripts they    *)
(* broadcast.  The market is not open yet.                                 *)
(*                                                                         *)
(* A script is several transactions.  Foundry keeps what it broadcasts in  *)
(* one file per script, run-latest.json, which every run of the script     *)
(* overwrites; the command reads its addresses from there when the script  *)
(* has ended, checks them on the chain and writes a manifest.  A command   *)
(* may be killed at any step; then no transaction it has sent is lost, and *)
(* no manifest is written.                                                 *)
(*                                                                         *)
(* Timelocks and tokens are numbered as the scripts start; 0 is none.      *)
(*                                                                         *)
(* An operator named XFault is X with one plausible mistake in it; no      *)
(* action uses it.  It serves to see that the properties notice the        *)
(* mistake.                                                                *)
(***************************************************************************)
EXTENDS Naturals, Sequences, FiniteSets, Functions

CONSTANTS
  Operators,
  Recipients,    \* the Safes of the allocations
  Genesis,       \* the Safe the supply is minted to
  Others,        \* everybody else who may hold BINI
  Supply,
  Ledgers,       \* allocation ledgers: [version, amounts]
  MaxTimelocks,  \* bound: scripts started that deploy a Timelock
  MaxTokens,     \* bound: scripts started that deploy a token
  MaxReturned    \* bound: BINI sent back to the Genesis Safe, per token

Holders == Recipients \union {Genesis, Others}

\* The configuration lists the recipients one by one.
ASSUME ReleaseAssumption ==
  /\ IsFiniteSet(Recipients)
  /\ Genesis \notin Recipients /\ Others \notin Recipients /\ Genesis # Others
  /\ Supply \in Nat \ {0} /\ MaxTimelocks \in Nat /\ MaxTokens \in Nat /\ MaxReturned \in Nat
  /\ \A l \in Ledgers : l.amounts \in [Recipients -> Nat]

VARIABLES
  timelocks,   \* how many of the four bootstrap transactions are mined
  tokens,      \* [script, timelock, mined]: how much of the token is deployed
  bal,         \* balances in each token
  executed,    \* history: distributions executed in each token
  returned,    \* history: BINI sent back to the Genesis Safe
  runLatest, timelockManifest, deployment, packages,   \* files
  timelockAddress,   \* config.timelockAddress
  verified,    \* Timelocks that `timelock verify` found as they should be
  commands     \* where the command of an operator is

chain == <<timelocks, tokens, bal, executed, returned>>
files == <<runLatest, timelockManifest, deployment, packages, timelockAddress>>
vars == <<chain, files, verified, commands>>

Scripts == {"DeployTimelock", "DeployBiniTokenV2", "DeployBiniV2"}
Idle == [at |-> "idle"]
NoDeployment == [token |-> 0, timelock |-> 0]
Undistributed == [h \in Holders |-> 0]

Init ==
  /\ timelocks = <<>> /\ tokens = <<>> /\ bal = <<>> /\ executed = <<>> /\ returned = <<>>
  /\ runLatest = [s \in Scripts |-> 0]
  /\ timelockManifest = 0 /\ deployment = NoDeployment
  /\ packages = [l \in Ledgers |-> 0]
  /\ timelockAddress = 0
  /\ verified = {}
  /\ commands = [o \in Operators |-> Idle]

\* checked_write, immutable_write: an existing file is never replaced.
\* FAULT: it is.
CheckedWriteFault(old, none, new) == new
CheckedWrite(old, none, new) == IF old = none THEN new ELSE old
-----------------------------------------------------------------------------
(* timelock deploy, verify                                                 *)

TimelockDeploy(o) ==
  LET i == Len(timelocks) + 1 IN
  /\ commands[o] = Idle
  /\ timelockManifest = 0 /\ Len(timelocks) < MaxTimelocks
  /\ timelocks' = Append(timelocks, 0)
  /\ runLatest' = [runLatest EXCEPT !["DeployTimelock"] = i]
  /\ commands' = [commands EXCEPT ![o] = [at |-> "timelock", id |-> i]]
  /\ UNCHANGED <<tokens, bal, executed, returned, timelockManifest, deployment, packages,
                 timelockAddress, verified>>

\* The constructor, which makes the deployer administrator; a proposer, a
\* canceller; the administrator renounces.
MineTimelock(i) ==
  /\ timelocks[i] < 4
  /\ timelocks' = [timelocks EXCEPT ![i] = @ + 1]
  /\ UNCHANGED <<tokens, bal, executed, returned, files, verified, commands>>

HasReceiptsFault(i) == TRUE   \* FAULT: the file may be of a run that has just begun.

\* broadcast_transactions
HasReceipts(i) == timelocks[i] > 0

\* The command waits until its own script is mined.  Whatever run-latest.json
\* holds then becomes the manifest.
TimelockRecord(o) ==
  LET latest == runLatest["DeployTimelock"] IN
  /\ commands[o].at = "timelock" /\ timelocks[commands[o].id] = 4
  /\ timelockManifest' = IF HasReceipts(latest)
                           THEN CheckedWrite(timelockManifest, 0, latest) ELSE timelockManifest
  /\ commands' = [commands EXCEPT ![o] = Idle]
  /\ UNCHANGED <<chain, runLatest, deployment, packages, timelockAddress, verified>>

RolesAreRightFault(i) == timelocks[i] >= 3   \* FAULT: the deployer may have roles left.

\* Every role is with its holder and none with the deployer.
RolesAreRight(i) == timelocks[i] = 4

\* `timelock verify`, and `timelock deploy` when there is a manifest.
TimelockVerify ==
  /\ timelockManifest # 0 /\ RolesAreRight(timelockManifest)
  /\ verified' = verified \union {timelockManifest}
  /\ UNCHANGED <<chain, files, commands>>

\* The address of the Timelock is put into the configuration.
Configure ==
  /\ timelockManifest \in verified
  /\ timelockAddress' = timelockManifest
  /\ UNCHANGED <<chain, runLatest, timelockManifest, deployment, packages, verified, commands>>
-----------------------------------------------------------------------------
(* deploy                                                                  *)

\* DeployBiniTokenV2 for the configured Timelock, or DeployBiniV2, which
\* deploys a Timelock of its own.
Deploy(o) ==
  LET j == Len(tokens) + 1
      script == IF timelockAddress = 0 THEN "DeployBiniV2" ELSE "DeployBiniTokenV2"
  IN
  /\ commands[o] = Idle
  /\ deployment = NoDeployment /\ Len(tokens) < MaxTokens
  /\ timelockAddress = 0 => Len(timelocks) < MaxTimelocks
  /\ tokens' = Append(tokens, [script |-> script, timelock |-> timelockAddress, mined |-> 0])
  /\ bal' = Append(bal, Undistributed)
  /\ executed' = Append(executed, 0) /\ returned' = Append(returned, 0)
  /\ runLatest' = [runLatest EXCEPT ![script] = j]
  /\ commands' = [commands EXCEPT ![o] = [at |-> "deploy", id |-> j]]
  /\ UNCHANGED <<timelocks, timelockManifest, deployment, packages, timelockAddress, verified>>

\* A Timelock constructed with its final roles, when the script has to.
MineTokenTimelock(j) ==
  /\ tokens[j].timelock = 0 /\ Len(timelocks) < MaxTimelocks
  /\ timelocks' = Append(timelocks, 4)
  /\ tokens' = [tokens EXCEPT ![j].timelock = Len(timelocks) + 1]
  /\ UNCHANGED <<bal, executed, returned, files, verified, commands>>

\* The implementation, then the proxy, which mints the supply.
MineToken(j) ==
  /\ tokens[j].timelock # 0 /\ tokens[j].mined < 2
  /\ tokens' = [tokens EXCEPT ![j].mined = @ + 1]
  /\ bal' = IF tokens[j].mined = 1 THEN [bal EXCEPT ![j][Genesis] = Supply] ELSE bal
  /\ UNCHANGED <<timelocks, executed, returned, files, verified, commands>>

\* verify_recorded_deployment: code, admin, implementation and roles are as
\* recorded.
VerifiedOnChain(d) ==
  /\ tokens[d.token].mined = 2
  /\ tokens[d.token].timelock = d.timelock /\ timelocks[d.timelock] > 0

\* manifest_from_broadcast, manifest_from_token_broadcast.  The Timelock is
\* that of the configuration the command was started with, or the one in
\* run-latest.json.
DeployRecord(o) ==
  LET own == tokens[commands[o].id]
      latest == runLatest[own.script]
      manifest == [token |-> latest,
                   timelock |-> IF own.script = "DeployBiniV2"
                                  THEN tokens[latest].timelock ELSE own.timelock]
      genesisIsFull == own.script = "DeployBiniV2" => bal[latest][Genesis] = Supply
  IN
  /\ commands[o].at = "deploy" /\ own.mined = 2
  /\ deployment' = IF VerifiedOnChain(manifest) /\ genesisIsFull
                     THEN CheckedWrite(deployment, NoDeployment, manifest) ELSE deployment
  /\ commands' = [commands EXCEPT ![o] = Idle]
  /\ UNCHANGED <<chain, runLatest, timelockManifest, packages, timelockAddress, verified>>
-----------------------------------------------------------------------------
(* distribute                                                              *)

Total(ledger) == SumFunction(ledger.amounts)

ValidLedgerFault(ledger) == TRUE   \* FAULT: nobody adds the allocations up.

\* validate_ledger: the allocations add up to the supply.
ValidLedger(ledger) == Total(ledger) = Supply

\* The balance of the Genesis Safe is read before those of the recipients.
DistributeRead(o, l) ==
  /\ commands[o] = Idle
  /\ ValidLedger(l)
  /\ deployment # NoDeployment /\ VerifiedOnChain(deployment)
  /\ commands' = [commands EXCEPT ![o] = [at |-> "distribute", ledger |-> l,
                                          genesis |-> bal[deployment.token][Genesis]]]
  /\ UNCHANGED <<chain, files, verified>>

\* phase1_distribution_state
DistributionState(genesis, held, ledger) ==
  CASE genesis = Supply /\ \A r \in Recipients : held[r] = 0 -> "DEPLOYED_UNDISTRIBUTED"
    [] genesis = 0 /\ \A r \in Recipients : held[r] = ledger.amounts[r] -> "DISTRIBUTED"
    [] OTHER -> "INCONSISTENT"

\* A package is written once per ledger, for the recorded token, in the mode
\* SIMULATE too.  Otherwise the command reports ALREADY_DISTRIBUTED or
\* ALREADY_PLANNED or refuses.
DistributeEnd(o) ==
  LET l == commands[o].ledger
      t == deployment.token
      state == DistributionState(commands[o].genesis, bal[t], l)
  IN
  /\ commands[o].at = "distribute"
  /\ packages' = IF state = "DEPLOYED_UNDISTRIBUTED"
                   THEN [packages EXCEPT ![l] = CheckedWrite(@, 0, t)] ELSE packages
  /\ commands' = [commands EXCEPT ![o] = Idle]
  /\ UNCHANGED <<chain, runLatest, timelockManifest, deployment, timelockAddress, verified>>
-----------------------------------------------------------------------------
(* The Genesis Safe and the holders.  The Safe may execute a package any   *)
(* number of times; MultiSend makes all its transfers or none.             *)

ExecuteDistribution(l) ==
  LET t == packages[l] IN
  /\ t # 0 /\ bal[t][Genesis] >= Total(l)
  /\ bal' = [bal EXCEPT ![t] = [h \in Holders |->
                CASE h = Genesis -> @[h] - Total(l)
                  [] h \in Recipients -> @[h] + l.amounts[h]
                  [] OTHER -> @[h]]]
  /\ executed' = [executed EXCEPT ![t] = @ + 1]
  /\ UNCHANGED <<timelocks, tokens, returned, files, verified, commands>>

Spend(t, from, to) ==
  /\ from # to /\ from # Genesis
  /\ bal[t][from] > 0
  /\ to = Genesis => returned[t] < MaxReturned
  /\ bal' = [bal EXCEPT ![t] = [h \in Holders |->
                CASE h = from -> @[h] - 1 [] h = to -> @[h] + 1 [] OTHER -> @[h]]]
  /\ returned' = IF to = Genesis THEN [returned EXCEPT ![t] = @ + 1] ELSE returned
  /\ UNCHANGED <<timelocks, tokens, executed, files, verified, commands>>

Kill(o) ==
  /\ commands[o] # Idle
  /\ commands' = [commands EXCEPT ![o] = Idle]
  /\ UNCHANGED <<chain, files, verified>>
-----------------------------------------------------------------------------
Next ==
  \/ \E o \in Operators :
       \/ TimelockDeploy(o) \/ TimelockRecord(o) \/ Deploy(o) \/ DeployRecord(o)
       \/ \E l \in Ledgers : DistributeRead(o, l)
       \/ DistributeEnd(o) \/ Kill(o)
  \/ TimelockVerify \/ Configure
  \/ \E i \in DOMAIN timelocks : MineTimelock(i)
  \/ \E j \in DOMAIN tokens : MineTokenTimelock(j) \/ MineToken(j)
  \/ \E l \in Ledgers : ExecuteDistribution(l)
  \/ \E t \in DOMAIN tokens, from, to \in Holders : Spend(t, from, to)

Spec == Init /\ [][Next]_vars
-----------------------------------------------------------------------------
(* Properties                                                              *)

Deployments == [script : Scripts \ {"DeployTimelock"}, timelock : 0..Len(timelocks), mined : 0..2]
Deploying == [at : {"timelock"}, id : DOMAIN timelocks] \union [at : {"deploy"}, id : DOMAIN tokens]
Distributing == [at : {"distribute"}, ledger : Ledgers, genesis : Nat]

ChainTypes ==
  /\ timelocks \in Seq(0..4) /\ Len(timelocks) <= MaxTimelocks
  /\ tokens \in Seq(Deployments) /\ Len(tokens) <= MaxTokens
  /\ bal \in Seq([Holders -> Nat]) /\ Len(bal) = Len(tokens)
  /\ executed \in Seq(Nat) /\ Len(executed) = Len(tokens)
  /\ returned \in Seq(0..MaxReturned) /\ Len(returned) = Len(tokens)

FileTypes ==
  /\ runLatest \in [Scripts -> Nat]
  /\ \A s \in Scripts :
       runLatest[s] <= IF s = "DeployTimelock" THEN Len(timelocks) ELSE Len(tokens)
  /\ timelockManifest \in 0..Len(timelocks)
  /\ timelockManifest # 0 => timelocks[timelockManifest] > 0
  /\ deployment \in {NoDeployment} \union [token : DOMAIN tokens, timelock : DOMAIN timelocks]
  /\ packages \in [Ledgers -> 0..Len(tokens)]
  /\ timelockAddress \in 0..Len(timelocks)
  /\ verified \subseteq DOMAIN timelocks

\* Types, and the recorded contracts exist.
TypeOK ==
  /\ ChainTypes /\ FileTypes
  /\ commands \in [Operators -> {Idle} \union Deploying \union Distributing]

\* The recorded token is deployed, under the recorded Timelock, whatever
\* other runs have left in run-latest.json; and the deployer has no power
\* over that Timelock, however many commands were killed between its
\* bootstrap transactions.
DeploymentIsGoverned ==
  deployment # NoDeployment =>
    /\ tokens[deployment.token].mined = 2
    /\ tokens[deployment.token].timelock = deployment.timelock
    /\ timelocks[deployment.timelock] = 4

\* Only the recorded token is distributed: what another command deployed at
\* the same time stays with its Genesis Safe.
OnlyRecordedIsDistributed ==
  /\ \A l \in Ledgers : packages[l] \in {0, deployment.token}
  /\ \A t \in DOMAIN tokens : executed[t] > 0 => t = deployment.token

\* A package has no memory of its execution and there may be one per ledger,
\* but a second distribution needs the whole supply back.
DistributedOnce ==
  \A t \in DOMAIN tokens : executed[t] * Supply <= Supply + returned[t]
=============================================================================
