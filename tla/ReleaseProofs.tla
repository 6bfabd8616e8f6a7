----------------------------- MODULE ReleaseProofs -----------------------------
(***************************************************************************)
(* Proofs about Release, for every number of operators, recipients,        *)
(* ledgers, Timelocks and tokens.                                          *)
(*                                                                         *)
(* The inductive invariant says of each token which part of its supply is  *)
(* where: what the Genesis Safe holds and what it has distributed add up   *)
(* to what was minted and what came back.                                  *)
(***************************************************************************)
EXTENDS Release, SumLemmas, SequenceTheorems, TLAPS

\* A command that waits for its script reads a file that names something.
FilesAreThere ==
  /\ \A o \in Operators : commands[o].at = "timelock" => runLatest["DeployTimelock"] # 0
  /\ \A j \in DOMAIN tokens : runLatest[tokens[j].script] # 0

\* A Timelock has its final roles before anything relies on it.
TimelocksAreFinal ==
  /\ \A i \in verified : timelocks[i] = 4
  /\ timelockAddress # 0 => timelocks[timelockAddress] = 4
  /\ \A j \in DOMAIN tokens : tokens[j].timelock # 0 => timelocks[tokens[j].timelock] = 4
  /\ \A j \in DOMAIN tokens : tokens[j].mined # 0 => tokens[j].timelock # 0

DeploymentIsMined ==
  deployment # NoDeployment =>
    /\ tokens[deployment.token].mined = 2
    /\ tokens[deployment.token].timelock = deployment.timelock

\* What pays, or is about to be written and will pay, pays out the supply of
\* the recorded token.
PackagesPayTheSupply ==
  /\ \A o \in Operators : commands[o].at = "distribute" =>
       Total(commands[o].ledger) = Supply /\ deployment # NoDeployment
  /\ \A l \in Ledgers : packages[l] # 0 =>
       Total(l) = Supply /\ deployment # NoDeployment /\ packages[l] = deployment.token

OnlyItIsExecuted ==
  \A t \in DOMAIN tokens : executed[t] # 0 => deployment # NoDeployment /\ t = deployment.token

Minted(t) == IF tokens[t].mined = 2 THEN Supply ELSE 0

SupplyIsAccounted ==
  /\ \A t \in DOMAIN tokens :
       bal[t][Genesis] + executed[t] * Supply = Minted(t) + returned[t]
  /\ \A t \in DOMAIN tokens : tokens[t].mined # 2 =>
       /\ executed[t] = 0 /\ returned[t] = 0
       /\ \A h \in Holders : bal[t][h] = 0

Consistent ==
  /\ FilesAreThere /\ TimelocksAreFinal /\ DeploymentIsMined
  /\ PackagesPayTheSupply /\ OnlyItIsExecuted /\ SupplyIsAccounted

IInv == TypeOK /\ Consistent

LEMMA CommandKinds ==
  ASSUME TypeOK, NEW o \in Operators
  PROVE  /\ commands[o].at = "timelock" => commands[o].id \in DOMAIN timelocks
         /\ commands[o].at = "deploy" => commands[o].id \in DOMAIN tokens
         /\ commands[o].at = "distribute" =>
              commands[o].ledger \in Ledgers /\ commands[o].genesis \in Nat
<1>1. Idle.at = "idle" BY DEF Idle
<1>2. commands[o] \in {Idle} \union Deploying \union Distributing BY DEF TypeOK
<1> QED BY <1>1, <1>2 DEF Deploying, Distributing

LEMMA ElementsOf ==
  ASSUME ChainTypes
  PROVE  /\ DOMAIN timelocks = 1..Len(timelocks) /\ Len(timelocks) \in Nat
         /\ \A i \in DOMAIN timelocks : timelocks[i] \in 0..4
         /\ DOMAIN tokens = 1..Len(tokens) /\ Len(tokens) \in Nat
         /\ DOMAIN bal = DOMAIN tokens /\ DOMAIN executed = DOMAIN tokens
         /\ DOMAIN returned = DOMAIN tokens
         /\ \A j \in DOMAIN tokens :
              /\ tokens[j] \in Deployments
              /\ bal[j] \in [Holders -> Nat]
              /\ executed[j] \in Nat /\ returned[j] \in 0..MaxReturned
<1>1. DOMAIN timelocks = 1..Len(timelocks) /\ Len(timelocks) \in Nat
      /\ \A i \in DOMAIN timelocks : timelocks[i] \in 0..4
  BY DEF ChainTypes
<1>2. DOMAIN tokens = 1..Len(tokens) /\ Len(tokens) \in Nat
      /\ \A j \in DOMAIN tokens : tokens[j] \in Deployments
  BY DEF ChainTypes
<1>3. DOMAIN bal = DOMAIN tokens /\ \A j \in DOMAIN tokens : bal[j] \in [Holders -> Nat]
  <2>1. bal \in Seq([Holders -> Nat]) /\ Len(bal) = Len(tokens) BY DEF ChainTypes
  <2> QED BY <1>2, <2>1
<1>4. DOMAIN executed = DOMAIN tokens /\ \A j \in DOMAIN tokens : executed[j] \in Nat
  <2>1. executed \in Seq(Nat) /\ Len(executed) = Len(tokens) BY DEF ChainTypes
  <2> QED BY <1>2, <2>1
<1>5. DOMAIN returned = DOMAIN tokens /\ \A j \in DOMAIN tokens : returned[j] \in 0..MaxReturned
  <2>1. returned \in Seq(0..MaxReturned) /\ Len(returned) = Len(tokens) BY DEF ChainTypes
  <2>2. DOMAIN returned = DOMAIN tokens BY <1>2, <2>1
  <2> QED BY <2>1, <2>2, <1>2, ElementOfSeq
<1> QED BY <1>1, <1>2, <1>3, <1>4, <1>5

LEMMA LaterElementsOf ==
  ASSUME ChainTypes'
  PROVE  /\ DOMAIN timelocks' = 1..Len(timelocks') /\ Len(timelocks') \in Nat
         /\ \A i \in DOMAIN timelocks' : timelocks'[i] \in 0..4
         /\ DOMAIN tokens' = 1..Len(tokens') /\ Len(tokens') \in Nat
<1>1. DOMAIN timelocks' = 1..Len(timelocks') /\ Len(timelocks') \in Nat
      /\ \A i \in DOMAIN timelocks' : timelocks'[i] \in 0..4
  BY DEF ChainTypes
<1>2. DOMAIN tokens' = 1..Len(tokens') /\ Len(tokens') \in Nat BY DEF ChainTypes
<1> QED BY <1>1, <1>2

LEMMA DeploymentsOf ==
  ASSUME NEW d \in Deployments
  PROVE  /\ d.script \in Scripts \ {"DeployTimelock"} /\ d.timelock \in 0..Len(timelocks)
         /\ d.mined \in 0..2
  BY DEF Deployments

\* Nothing that is deployed goes away.
Grows ==
  /\ Len(timelocks) <= Len(timelocks') /\ Len(tokens) <= Len(tokens')
  /\ \A i \in DOMAIN timelocks : timelocks[i] <= timelocks'[i]

LEMMA FilesKeepTypes ==
  ASSUME TypeOK, ChainTypes', Grows,
         UNCHANGED <<timelockManifest, deployment, packages, timelockAddress, verified>>,
         runLatest' \in [Scripts -> Nat],
         \A s \in Scripts : runLatest'[s] # runLatest[s] =>
           runLatest'[s] <= IF s = "DeployTimelock" THEN Len(timelocks') ELSE Len(tokens')
  PROVE  FileTypes'
<1>1. /\ DOMAIN timelocks \subseteq DOMAIN timelocks' /\ 0..Len(timelocks) \subseteq 0..Len(timelocks')
      /\ DOMAIN tokens \subseteq DOMAIN tokens' /\ 0..Len(tokens) \subseteq 0..Len(tokens')
      /\ Len(timelocks) \in Nat /\ Len(timelocks') \in Nat /\ Len(tokens) \in Nat /\ Len(tokens') \in Nat
  BY DEF TypeOK, ChainTypes, Grows
<1>2. \A s \in Scripts :
        runLatest'[s] <= IF s = "DeployTimelock" THEN Len(timelocks') ELSE Len(tokens')
  BY <1>1 DEF TypeOK, FileTypes, Grows
<1>3. timelockManifest' # 0 => timelocks'[timelockManifest'] > 0
  <2>1. SUFFICES ASSUME timelockManifest # 0 PROVE timelocks'[timelockManifest] > 0 OBVIOUS
  <2>2. timelockManifest \in DOMAIN timelocks /\ timelocks[timelockManifest] > 0
    BY <2>1 DEF TypeOK, ChainTypes, FileTypes
  <2>3. timelocks[timelockManifest] \in 0..4 /\ timelocks'[timelockManifest] \in 0..4
    BY <1>1, <2>2, ElementsOf, LaterElementsOf DEF TypeOK
  <2>4. timelocks[timelockManifest] <= timelocks'[timelockManifest] BY <2>2 DEF Grows
  <2> QED BY <2>2, <2>3, <2>4
<1>4. deployment' \in {NoDeployment} \union [token : DOMAIN tokens', timelock : DOMAIN timelocks']
  BY <1>1 DEF TypeOK, FileTypes
<1> QED BY <1>1, <1>2, <1>3, <1>4 DEF TypeOK, FileTypes

LEMMA CommandsKeepTypes ==
  ASSUME TypeOK, ChainTypes', Grows
  PROVE  commands \in [Operators -> {Idle} \union Deploying' \union Distributing']
<1>1. DOMAIN timelocks \subseteq DOMAIN timelocks' /\ DOMAIN tokens \subseteq DOMAIN tokens'
  BY ElementsOf, LaterElementsOf DEF TypeOK, Grows
<1>2. Deploying \subseteq Deploying' /\ Distributing' = Distributing
  BY <1>1 DEF Deploying, Distributing
<1> QED BY <1>2 DEF TypeOK

LEMMA TimelocksStayFinal ==
  ASSUME TypeOK, TimelocksAreFinal, ChainTypes', Grows,
         UNCHANGED <<tokens, timelockAddress, verified>>
  PROVE  TimelocksAreFinal'
<1>1. ASSUME NEW i \in 1..Len(timelocks), timelocks[i] = 4 PROVE timelocks'[i] = 4
  <2>1. i \in DOMAIN timelocks /\ i \in DOMAIN timelocks' /\ timelocks'[i] \in 0..4
    BY ElementsOf, LaterElementsOf DEF TypeOK, Grows
  <2>2. timelocks[i] <= timelocks'[i] BY <2>1 DEF Grows
  <2> QED BY <1>1, <2>1, <2>2
<1>2. verified \subseteq 1..Len(timelocks)
      /\ (timelockAddress # 0 => timelockAddress \in 1..Len(timelocks))
  BY DEF TypeOK, ChainTypes, FileTypes
<1>3. \A j \in DOMAIN tokens : tokens[j].timelock # 0 => tokens[j].timelock \in 1..Len(timelocks)
  BY ElementsOf, DeploymentsOf DEF TypeOK
<1> QED BY <1>1, <1>2, <1>3 DEF TimelocksAreFinal

LEMMA InitInv == Init => IInv
<1> SUFFICES ASSUME Init PROVE IInv OBVIOUS
<1>1. Idle.at = "idle" BY DEF Idle
<1>2. TypeOK
  BY ReleaseAssumption DEF Init, TypeOK, ChainTypes, FileTypes
<1>3. Consistent
  BY <1>1 DEF Init, Consistent, FilesAreThere, TimelocksAreFinal, DeploymentIsMined,
     PackagesPayTheSupply, OnlyItIsExecuted, SupplyIsAccounted
<1> QED BY <1>2, <1>3 DEF IInv
-----------------------------------------------------------------------------
(* timelock deploy, verify                                                 *)

LEMMA TimelockDeployInv ==
  ASSUME IInv, NEW o \in Operators, TimelockDeploy(o) PROVE IInv'
<1> DEFINE i == Len(timelocks) + 1
           c == [at |-> "timelock", id |-> i]
<1>1. /\ timelocks' \in Seq(0..4) /\ Len(timelocks') = i /\ DOMAIN timelocks' = 1..i
      /\ i <= MaxTimelocks /\ Len(timelocks) \in Nat
      /\ \A k \in DOMAIN timelocks : timelocks'[k] = timelocks[k] /\ timelocks[k] \in 0..4
  BY ReleaseAssumption DEF IInv, TypeOK, ChainTypes, TimelockDeploy
<1>2. runLatest' = [runLatest EXCEPT !["DeployTimelock"] = i]
      /\ commands' = [commands EXCEPT ![o] = c]
  BY DEF TimelockDeploy
<1>3. UNCHANGED <<tokens, bal, executed, returned, timelockManifest, deployment, packages,
                  timelockAddress, verified>>
  BY DEF TimelockDeploy
<1>4. Grows BY <1>1, <1>3, ElementsOf DEF IInv, TypeOK, Grows
<1>5. ChainTypes'
  <2>1. Deployments \subseteq Deployments' BY <1>1 DEF Deployments
  <2>2. tokens \in Seq(Deployments') BY <2>1, SeqMonotonic DEF IInv, TypeOK, ChainTypes
  <2> QED BY <1>1, <1>3, <2>2 DEF IInv, TypeOK, ChainTypes
<1>6. FileTypes'
  <2>1. runLatest' \in [Scripts -> Nat]
    <3>1. i \in Nat BY <1>1
    <3> QED BY <1>2, <3>1 DEF IInv, TypeOK, FileTypes
  <2>2. \A s \in Scripts : runLatest'[s] # runLatest[s] => s = "DeployTimelock" /\ runLatest'[s] = i
    BY <1>2 DEF IInv, TypeOK, FileTypes
  <2> QED BY <1>1, <1>3, <1>4, <1>5, <2>1, <2>2, FilesKeepTypes DEF IInv
<1>7. TypeOK'
  <2>1. c \in Deploying' BY <1>1 DEF Deploying
  <2>2. commands \in [Operators -> {Idle} \union Deploying' \union Distributing']
    BY <1>4, <1>5, CommandsKeepTypes DEF IInv
  <2> QED BY <1>2, <1>5, <1>6, <2>1, <2>2 DEF TypeOK
<1>8. c.at = "timelock" /\ i # 0 BY <1>1
<1>9. FilesAreThere'
  <2>1. runLatest'["DeployTimelock"] = i
        /\ \A s \in Scripts \ {"DeployTimelock"} : runLatest'[s] = runLatest[s]
    BY <1>2 DEF IInv, TypeOK, FileTypes, Scripts
  <2>2. \A j \in DOMAIN tokens : tokens[j].script \in Scripts \ {"DeployTimelock"}
    BY ElementsOf, DeploymentsOf DEF IInv, TypeOK
  <2> QED BY <1>3, <1>8, <2>1, <2>2 DEF IInv, Consistent, FilesAreThere
<1>10. TimelocksAreFinal' BY <1>3, <1>4, <1>5, TimelocksStayFinal DEF IInv, Consistent
<1>11. PackagesPayTheSupply'
  BY <1>2, <1>3, <1>8 DEF IInv, TypeOK, Consistent, PackagesPayTheSupply
<1> QED
  BY <1>3, <1>7, <1>9, <1>10, <1>11 DEF IInv, Consistent, DeploymentIsMined, OnlyItIsExecuted,
     SupplyIsAccounted, Minted

LEMMA MineTimelockInv ==
  ASSUME IInv, NEW i \in DOMAIN timelocks, MineTimelock(i) PROVE IInv'
<1>1. /\ timelocks' = [timelocks EXCEPT ![i] = timelocks[i] + 1]
      /\ timelocks[i] \in 0..3
  BY DEF IInv, TypeOK, ChainTypes, MineTimelock
<1>2. UNCHANGED <<tokens, bal, executed, returned, runLatest, timelockManifest, deployment,
                  packages, timelockAddress, verified, commands>>
  BY DEF MineTimelock, files
<1>3. timelocks' \in Seq(0..4) /\ Len(timelocks') = Len(timelocks)
  BY <1>1 DEF IInv, TypeOK, ChainTypes
<1>4. Grows
  <2>1. \A j \in DOMAIN timelocks : timelocks[j] \in 0..4 BY ElementsOf DEF IInv, TypeOK
  <2>2. \A j \in DOMAIN timelocks : timelocks[j] <= timelocks'[j] BY <1>1, <2>1
  <2>3. Len(timelocks) \in Nat /\ Len(tokens) \in Nat BY ElementsOf DEF IInv, TypeOK
  <2> QED BY <1>2, <1>3, <2>2, <2>3 DEF Grows
<1>5. ChainTypes'
  <2>1. Deployments' = Deployments BY <1>3 DEF Deployments
  <2> QED BY <1>2, <1>3, <2>1 DEF IInv, TypeOK, ChainTypes
<1>6. FileTypes'
  <2>1. runLatest' \in [Scripts -> Nat] BY <1>2 DEF IInv, TypeOK, FileTypes
  <2> QED BY <1>2, <1>4, <1>5, <2>1, FilesKeepTypes DEF IInv
<1>7. TypeOK' BY <1>2, <1>4, <1>5, <1>6, CommandsKeepTypes DEF IInv, TypeOK
<1>8. TimelocksAreFinal' BY <1>2, <1>4, <1>5, TimelocksStayFinal DEF IInv, Consistent
<1> QED
  BY <1>2, <1>7, <1>8 DEF IInv, Consistent, FilesAreThere, DeploymentIsMined,
     PackagesPayTheSupply, OnlyItIsExecuted, SupplyIsAccounted, Minted

LEMMA TimelockRecordInv ==
  ASSUME IInv, NEW o \in Operators, TimelockRecord(o) PROVE IInv'
<1> DEFINE latest == runLatest["DeployTimelock"]
<1>1. commands' = [commands EXCEPT ![o] = Idle]
      /\ UNCHANGED <<timelocks, tokens, bal, executed, returned, runLatest, deployment,
                     packages, timelockAddress, verified>>
  BY DEF TimelockRecord, chain
<1>2. latest \in DOMAIN timelocks
  <2>1. latest \in Nat /\ latest <= Len(timelocks) /\ latest # 0
    BY DEF IInv, TypeOK, FileTypes, Scripts, Consistent, FilesAreThere, TimelockRecord
  <2> QED BY <2>1 DEF IInv, TypeOK, ChainTypes
<1>3. timelockManifest' \in 0..Len(timelocks)
      /\ (timelockManifest' # 0 => timelocks[timelockManifest'] > 0)
  <2>1. latest \in 0..Len(timelocks) BY <1>2 DEF IInv, TypeOK, ChainTypes
  <2> QED
    BY <2>1 DEF IInv, TypeOK, FileTypes, TimelockRecord, CheckedWrite, HasReceipts
<1>4. Idle.at = "idle" BY DEF Idle
<1>5. TypeOK'
  <2>1. Deploying' = Deploying /\ Distributing' = Distributing /\ Deployments' = Deployments
    BY <1>1 DEF Deploying, Distributing, Deployments
  <2> QED BY <1>1, <1>3, <2>1 DEF IInv, TypeOK, ChainTypes, FileTypes
<1> QED
  BY <1>1, <1>4, <1>5 DEF IInv, TypeOK, Consistent, FilesAreThere, TimelocksAreFinal,
     DeploymentIsMined, PackagesPayTheSupply, OnlyItIsExecuted, SupplyIsAccounted, Minted

LEMMA TimelockVerifyInv == ASSUME IInv, TimelockVerify PROVE IInv'
<1>1. TypeOK'
  BY DEF IInv, TypeOK, ChainTypes, FileTypes, Deployments, Deploying, Distributing,
     TimelockVerify, chain, files
<1> QED
  BY <1>1 DEF IInv, Consistent, FilesAreThere, TimelocksAreFinal, DeploymentIsMined,
     PackagesPayTheSupply, OnlyItIsExecuted, SupplyIsAccounted, Minted, TimelockVerify,
     RolesAreRight, chain, files

LEMMA ConfigureInv == ASSUME IInv, Configure PROVE IInv'
<1>1. TypeOK'
  BY DEF IInv, TypeOK, ChainTypes, FileTypes, Deployments, Deploying, Distributing,
     Configure, chain
<1> QED
  BY <1>1 DEF IInv, Consistent, FilesAreThere, TimelocksAreFinal, DeploymentIsMined,
     PackagesPayTheSupply, OnlyItIsExecuted, SupplyIsAccounted, Minted, Configure, chain

LEMMA KillInv == ASSUME IInv, NEW o \in Operators, Kill(o) PROVE IInv'
<1>1. Idle.at = "idle" BY DEF Idle
<1>2. TypeOK'
  BY DEF IInv, TypeOK, ChainTypes, FileTypes, Deployments, Deploying, Distributing,
     Kill, chain, files
<1> QED
  BY <1>1, <1>2 DEF IInv, TypeOK, Consistent, FilesAreThere, TimelocksAreFinal,
     DeploymentIsMined, PackagesPayTheSupply, OnlyItIsExecuted, SupplyIsAccounted, Minted,
     Kill, chain, files
-----------------------------------------------------------------------------
(* deploy                                                                  *)

LEMMA DeployInv ==
  ASSUME IInv, NEW o \in Operators, Deploy(o) PROVE IInv'
<1> DEFINE j == Len(tokens) + 1
           script == IF timelockAddress = 0 THEN "DeployBiniV2" ELSE "DeployBiniTokenV2"
           d == [script |-> script, timelock |-> timelockAddress, mined |-> 0]
           c == [at |-> "deploy", id |-> j]
<1>1. /\ tokens' = Append(tokens, d) /\ bal' = Append(bal, Undistributed)
      /\ executed' = Append(executed, 0) /\ returned' = Append(returned, 0)
      /\ runLatest' = [runLatest EXCEPT ![script] = j]
      /\ commands' = [commands EXCEPT ![o] = c]
      /\ Len(tokens) < MaxTokens
  BY DEF Deploy
<1>2. UNCHANGED <<timelocks, timelockManifest, deployment, packages, timelockAddress, verified>>
      /\ Deployments' = Deployments
  BY DEF Deploy, Deployments
<1>3. d \in Deployments /\ script \in Scripts \ {"DeployTimelock"}
  BY DEF IInv, TypeOK, FileTypes, Deployments, Scripts
<1>4. j \in Nat /\ j # 0 /\ j <= MaxTokens /\ DOMAIN tokens = 1..Len(tokens) /\ Len(tokens) \in Nat
      /\ DOMAIN bal = 1..Len(tokens) /\ DOMAIN executed = 1..Len(tokens)
      /\ DOMAIN returned = 1..Len(tokens)
  BY <1>1, ElementsOf, ReleaseAssumption DEF IInv, TypeOK
<1>5. /\ tokens' \in Seq(Deployments) /\ Len(tokens') = j
      /\ bal' \in Seq([Holders -> Nat]) /\ Len(bal') = j
      /\ executed' \in Seq(Nat) /\ Len(executed') = j
      /\ returned' \in Seq(0..MaxReturned) /\ Len(returned') = j
  <2>1. Undistributed \in [Holders -> Nat] BY DEF Undistributed
  <2>2. tokens' \in Seq(Deployments) /\ Len(tokens') = j
    BY <1>1, <1>3 DEF IInv, TypeOK, ChainTypes
  <2>3. bal' \in Seq([Holders -> Nat]) /\ Len(bal') = j
    BY <1>1, <2>1 DEF IInv, TypeOK, ChainTypes
  <2>4. executed' \in Seq(Nat) /\ Len(executed') = j
    BY <1>1 DEF IInv, TypeOK, ChainTypes
  <2>5. returned' \in Seq(0..MaxReturned) /\ Len(returned') = j
    BY <1>1, ReleaseAssumption DEF IInv, TypeOK, ChainTypes
  <2> QED BY <2>2, <2>3, <2>4, <2>5
<1>6. DOMAIN tokens' = 1..j /\ tokens'[j] = d /\ \A k \in 1..Len(tokens) : tokens'[k] = tokens[k]
  BY <1>1, <1>4 DEF IInv, TypeOK, ChainTypes
<1>7. /\ bal'[j] = Undistributed /\ executed'[j] = 0 /\ returned'[j] = 0
      /\ \A k \in 1..Len(tokens) :
           bal'[k] = bal[k] /\ executed'[k] = executed[k] /\ returned'[k] = returned[k]
  <2>1. bal'[j] = Undistributed /\ \A k \in 1..Len(tokens) : bal'[k] = bal[k]
    BY <1>1, <1>4 DEF IInv, TypeOK, ChainTypes
  <2>2. executed'[j] = 0 /\ \A k \in 1..Len(tokens) : executed'[k] = executed[k]
    BY <1>1, <1>4 DEF IInv, TypeOK, ChainTypes
  <2>3. returned'[j] = 0 /\ \A k \in 1..Len(tokens) : returned'[k] = returned[k]
    BY <1>1, <1>4 DEF IInv, TypeOK, ChainTypes
  <2> QED BY <2>1, <2>2, <2>3
<1>8. ChainTypes' BY <1>2, <1>4, <1>5 DEF IInv, TypeOK, ChainTypes
<1>9. Grows
  <2>1. Len(timelocks) \in Nat /\ \A i \in DOMAIN timelocks : timelocks[i] \in 0..4
    BY ElementsOf DEF IInv, TypeOK
  <2>2. timelocks' = timelocks BY <1>2
  <2>3. \A i \in DOMAIN timelocks : timelocks[i] <= timelocks'[i] BY <2>1, <2>2
  <2>4. Len(tokens) <= Len(tokens') BY <1>4, <1>5
  <2> QED BY <2>1, <2>2, <2>3, <2>4 DEF Grows
<1>10. runLatest' \in [Scripts -> Nat] /\ runLatest'[script] = j
       /\ \A s \in Scripts : s # script => runLatest'[s] = runLatest[s]
  BY <1>1, <1>3, <1>4 DEF IInv, TypeOK, FileTypes
<1>11. FileTypes'
  <2>1. \A s \in Scripts : runLatest'[s] # runLatest[s] =>
          runLatest'[s] <= IF s = "DeployTimelock" THEN Len(timelocks') ELSE Len(tokens')
    BY <1>3, <1>4, <1>5, <1>10
  <2> QED BY <1>2, <1>8, <1>9, <1>10, <2>1, FilesKeepTypes DEF IInv
<1>12. TypeOK'
  <2>1. c \in Deploying' BY <1>4, <1>6 DEF Deploying
  <2>2. commands \in [Operators -> {Idle} \union Deploying' \union Distributing']
    BY <1>8, <1>9, CommandsKeepTypes DEF IInv
  <2> QED BY <1>1, <1>8, <1>11, <2>1, <2>2 DEF TypeOK
<1>13. c.at = "deploy" /\ d.timelock = timelockAddress /\ d.mined = 0 /\ d.script = script
       /\ 1..j = 1..Len(tokens) \union {j}
  BY <1>4
<1>14. FilesAreThere'
  <2>1. runLatest'["DeployTimelock"] = runLatest["DeployTimelock"] BY <1>3, <1>10 DEF Scripts
  <2>2. \A k \in 1..Len(tokens) : tokens[k].script \in Scripts
    BY <1>4, ElementsOf, DeploymentsOf DEF IInv, TypeOK
  <2>3. \A k \in 1..Len(tokens) : runLatest'[tokens[k].script] # 0
    BY <1>4, <1>10, <2>2 DEF IInv, Consistent, FilesAreThere
  <2>4. \A k \in DOMAIN tokens' : runLatest'[tokens'[k].script] # 0
    BY <1>4, <1>6, <1>10, <1>13, <2>3
  <2>5. \A e \in Operators : commands'[e].at = "timelock" => commands[e].at = "timelock"
    BY <1>1, <1>13 DEF IInv, TypeOK
  <2> QED BY <2>1, <2>4, <2>5 DEF IInv, Consistent, FilesAreThere
<1>15. TimelocksAreFinal'
  BY <1>2, <1>4, <1>6, <1>13 DEF IInv, Consistent, TimelocksAreFinal
<1>16. DeploymentIsMined' BY <1>2 DEF Deploy, DeploymentIsMined
<1>17. PackagesPayTheSupply'
  BY <1>1, <1>2, <1>13 DEF IInv, TypeOK, Consistent, PackagesPayTheSupply
<1>18. OnlyItIsExecuted'
  BY <1>2, <1>4, <1>6, <1>7, <1>13 DEF IInv, Consistent, OnlyItIsExecuted
<1>19. SupplyIsAccounted'
  <2>1. tokens'[j].mined = 0 /\ \A k \in 1..Len(tokens) : tokens'[k].mined = tokens[k].mined
    BY <1>6, <1>13
  <2>2. \A h \in Holders : bal'[j][h] = 0 BY <1>7 DEF Undistributed
  <2>3. bal'[j][Genesis] + executed'[j] * Supply = 0 /\ returned'[j] = 0
    BY <1>7, <2>2, ReleaseAssumption DEF Holders
  <2>4. \A k \in 1..Len(tokens) :
          /\ bal'[k][Genesis] + executed'[k] * Supply
               = (IF tokens'[k].mined = 2 THEN Supply ELSE 0) + returned'[k]
          /\ tokens'[k].mined # 2 =>
               executed'[k] = 0 /\ returned'[k] = 0 /\ \A h \in Holders : bal'[k][h] = 0
    BY <1>4, <1>7, <2>1 DEF IInv, Consistent, SupplyIsAccounted, Minted
  <2> QED BY <1>6, <1>7, <1>13, <2>1, <2>2, <2>3, <2>4 DEF SupplyIsAccounted, Minted
<1> QED
  BY <1>12, <1>14, <1>15, <1>16, <1>17, <1>18, <1>19 DEF IInv, Consistent

LEMMA MineTokenTimelockInv ==
  ASSUME IInv, NEW j \in DOMAIN tokens, MineTokenTimelock(j) PROVE IInv'
<1> DEFINE n == Len(timelocks) + 1
<1>1. /\ timelocks' = Append(timelocks, 4) /\ tokens' = [tokens EXCEPT ![j].timelock = n]
      /\ tokens[j].timelock = 0 /\ Len(timelocks) < MaxTimelocks
  BY DEF MineTokenTimelock
<1>2. UNCHANGED <<bal, executed, returned, runLatest, timelockManifest, deployment, packages,
                  timelockAddress, verified, commands>>
  BY DEF MineTokenTimelock, files
<1>3. /\ DOMAIN timelocks = 1..Len(timelocks) /\ Len(timelocks) \in Nat /\ n <= MaxTimelocks
      /\ DOMAIN tokens = 1..Len(tokens) /\ Len(tokens) \in Nat
      /\ \A i \in DOMAIN timelocks : timelocks[i] \in 0..4
      /\ \A k \in DOMAIN tokens : tokens[k] \in Deployments
  BY <1>1, ElementsOf, ReleaseAssumption DEF IInv, TypeOK
<1>4. /\ timelocks' \in Seq(0..4) /\ Len(timelocks') = n /\ DOMAIN timelocks' = 1..n
      /\ timelocks'[n] = 4 /\ \A i \in DOMAIN timelocks : timelocks'[i] = timelocks[i]
  BY <1>1, <1>3 DEF IInv, TypeOK, ChainTypes
<1>5. /\ DOMAIN tokens' = DOMAIN tokens /\ tokens'[j] = [tokens[j] EXCEPT !.timelock = n]
      /\ \A k \in DOMAIN tokens : k # j => tokens'[k] = tokens[k]
  BY <1>1
<1>6. \A k \in DOMAIN tokens : tokens'[k].script = tokens[k].script
                              /\ tokens'[k].mined = tokens[k].mined
                              /\ tokens'[k].timelock = IF k = j THEN n ELSE tokens[k].timelock
  BY <1>3, <1>5 DEF Deployments
<1>7. tokens' \in Seq(Deployments') /\ Len(tokens') = Len(tokens)
  <2>1. Deployments \subseteq Deployments' BY <1>3, <1>4 DEF Deployments
  <2>2. tokens'[j] \in Deployments'
    <3>1. n \in 0..Len(timelocks') BY <1>3, <1>4
    <3>2. tokens[j] \in [script : Scripts \ {"DeployTimelock"}, timelock : 0..Len(timelocks), mined : 0..2]
      BY <1>3 DEF Deployments
    <3>3. [tokens[j] EXCEPT !.timelock = n]
            \in [script : Scripts \ {"DeployTimelock"}, timelock : 0..Len(timelocks'), mined : 0..2]
      BY <3>1, <3>2
    <3> QED BY <1>5, <3>3 DEF Deployments
  <2>3. \A k \in DOMAIN tokens : tokens'[k] \in Deployments' BY <1>3, <1>5, <2>1, <2>2
  <2>4. tokens' \in [1..Len(tokens) -> Deployments']
    BY <1>1, <1>3, <1>5, <2>3
  <2> QED BY <1>3, <2>4, SeqDef
<1>8. ChainTypes' BY <1>2, <1>3, <1>4, <1>7 DEF IInv, TypeOK, ChainTypes
<1>9. Grows BY <1>3, <1>4, <1>7 DEF Grows
<1>10. FileTypes'
  <2>1. runLatest' \in [Scripts -> Nat] BY <1>2 DEF IInv, TypeOK, FileTypes
  <2> QED BY <1>2, <1>8, <1>9, <2>1, FilesKeepTypes DEF IInv
<1>11. TypeOK' BY <1>2, <1>8, <1>9, <1>10, CommandsKeepTypes DEF IInv, TypeOK
<1>12. FilesAreThere' BY <1>2, <1>5, <1>6 DEF IInv, Consistent, FilesAreThere
<1>13. TimelocksAreFinal'
  <2>1. verified \subseteq DOMAIN timelocks
        /\ (timelockAddress # 0 => timelockAddress \in DOMAIN timelocks)
    BY <1>3 DEF IInv, TypeOK, FileTypes
  <2>2. \A k \in DOMAIN tokens : tokens[k].timelock # 0 => tokens[k].timelock \in DOMAIN timelocks
    BY <1>3 DEF Deployments
  <2> QED BY <1>2, <1>3, <1>4, <1>5, <1>6, <2>1, <2>2 DEF IInv, Consistent, TimelocksAreFinal
<1>14. DeploymentIsMined'
  <2>1. SUFFICES ASSUME deployment # NoDeployment
                 PROVE  /\ tokens'[deployment.token].mined = 2
                        /\ tokens'[deployment.token].timelock = deployment.timelock
    BY <1>2 DEF DeploymentIsMined
  <2>2. deployment.token \in DOMAIN tokens /\ deployment.timelock \in DOMAIN timelocks
    BY <2>1 DEF IInv, TypeOK, FileTypes
  <2>3. tokens[deployment.token].mined = 2
        /\ tokens[deployment.token].timelock = deployment.timelock
    BY <2>1 DEF IInv, Consistent, DeploymentIsMined
  <2>4. deployment.token # j BY <1>1, <1>3, <2>2, <2>3
  <2> QED BY <1>6, <2>2, <2>3, <2>4
<1>15. PackagesPayTheSupply' BY <1>2 DEF IInv, Consistent, PackagesPayTheSupply
<1>16. OnlyItIsExecuted' BY <1>2, <1>5 DEF IInv, Consistent, OnlyItIsExecuted
<1>17. SupplyIsAccounted' BY <1>2, <1>5, <1>6 DEF IInv, Consistent, SupplyIsAccounted, Minted
<1> QED
  BY <1>11, <1>12, <1>13, <1>14, <1>15, <1>16, <1>17 DEF IInv, Consistent

LEMMA MineTokenInv ==
  ASSUME IInv, NEW j \in DOMAIN tokens, MineToken(j) PROVE IInv'
<1>1. /\ tokens' = [tokens EXCEPT ![j].mined = tokens[j].mined + 1]
      /\ tokens[j].timelock # 0 /\ tokens[j].mined < 2
      /\ bal' = IF tokens[j].mined = 1 THEN [bal EXCEPT ![j][Genesis] = Supply] ELSE bal
  BY DEF MineToken
<1>2. UNCHANGED <<timelocks, executed, returned, runLatest, timelockManifest, deployment,
                  packages, timelockAddress, verified, commands>>
      /\ Deployments' = Deployments
  BY DEF MineToken, files, Deployments
<1>3. /\ DOMAIN timelocks = 1..Len(timelocks) /\ Len(timelocks) \in Nat
      /\ DOMAIN tokens = 1..Len(tokens) /\ Len(tokens) \in Nat
      /\ \A i \in DOMAIN timelocks : timelocks[i] \in 0..4
      /\ \A k \in DOMAIN tokens : tokens[k] \in Deployments /\ bal[k] \in [Holders -> Nat]
      /\ DOMAIN bal = DOMAIN tokens
  BY ElementsOf DEF IInv, TypeOK
<1>4. Genesis \in Holders /\ Supply \in Nat BY ReleaseAssumption DEF Holders
<1>5. /\ DOMAIN tokens' = DOMAIN tokens
      /\ tokens'[j] = [tokens[j] EXCEPT !.mined = tokens[j].mined + 1]
      /\ \A k \in DOMAIN tokens : k # j => tokens'[k] = tokens[k]
  BY <1>1
<1>6. \A k \in DOMAIN tokens :
        /\ tokens'[k].script = tokens[k].script /\ tokens'[k].timelock = tokens[k].timelock
        /\ tokens'[k].mined = IF k = j THEN tokens[j].mined + 1 ELSE tokens[k].mined
  BY <1>3, <1>5 DEF Deployments
<1>7. tokens' \in Seq(Deployments) /\ Len(tokens') = Len(tokens)
  <2>1. tokens'[j] \in Deployments BY <1>1, <1>3, <1>5 DEF Deployments
  <2>2. tokens' \in [1..Len(tokens) -> Deployments] BY <1>1, <1>3, <1>5, <2>1
  <2> QED BY <1>3, <2>2, SeqDef
<1>8. /\ \A k \in DOMAIN tokens : k # j => bal'[k] = bal[k]
      /\ tokens[j].mined = 0 => bal'[j] = bal[j]
      /\ tokens[j].mined = 1 => bal'[j] = [bal[j] EXCEPT ![Genesis] = Supply]
      /\ DOMAIN bal' = DOMAIN bal
  BY <1>1, <1>3
<1>9. bal' \in Seq([Holders -> Nat]) /\ Len(bal') = Len(tokens)
  <2>1. bal'[j] \in [Holders -> Nat]
    <3>1. tokens[j].mined \in 0..1 BY <1>1, <1>3 DEF Deployments
    <3>2. [bal[j] EXCEPT ![Genesis] = Supply] \in [Holders -> Nat] BY <1>3, <1>4
    <3> QED BY <1>3, <1>8, <3>1, <3>2
  <2>2. bal' \in [1..Len(tokens) -> [Holders -> Nat]]
    <3>1. \A k \in 1..Len(tokens) : bal'[k] \in [Holders -> Nat] BY <1>3, <1>8, <2>1
    <3>2. bal' = [k \in 1..Len(tokens) |-> bal'[k]]
      <4>1. bal = [k \in 1..Len(tokens) |-> bal[k]] BY <1>3 DEF IInv, TypeOK, ChainTypes
      <4> QED BY <1>1, <4>1
    <3> QED BY <3>1, <3>2
  <2> QED BY <1>3, <2>2, SeqDef
<1>10. ChainTypes' BY <1>2, <1>7, <1>9 DEF IInv, TypeOK, ChainTypes
<1>11. Grows BY <1>2, <1>3, <1>7 DEF Grows
<1>12. FileTypes'
  <2>1. runLatest' \in [Scripts -> Nat] BY <1>2 DEF IInv, TypeOK, FileTypes
  <2> QED BY <1>2, <1>10, <1>11, <2>1, FilesKeepTypes DEF IInv
<1>13. TypeOK' BY <1>2, <1>10, <1>11, <1>12, CommandsKeepTypes DEF IInv, TypeOK
<1>14. FilesAreThere' BY <1>2, <1>5, <1>6 DEF IInv, Consistent, FilesAreThere
<1>15. TimelocksAreFinal'
  BY <1>1, <1>2, <1>5, <1>6 DEF IInv, Consistent, TimelocksAreFinal
<1>16. DeploymentIsMined'
  <2>1. SUFFICES ASSUME deployment # NoDeployment
                 PROVE  /\ tokens'[deployment.token].mined = 2
                        /\ tokens'[deployment.token].timelock = deployment.timelock
    BY <1>2 DEF DeploymentIsMined
  <2>2. deployment.token \in DOMAIN tokens BY <2>1 DEF IInv, TypeOK, FileTypes
  <2>3. tokens[deployment.token].mined = 2
        /\ tokens[deployment.token].timelock = deployment.timelock
    BY <2>1 DEF IInv, Consistent, DeploymentIsMined
  <2> QED BY <1>1, <1>6, <2>2, <2>3
<1>17. PackagesPayTheSupply' BY <1>2 DEF IInv, Consistent, PackagesPayTheSupply
<1>18. OnlyItIsExecuted' BY <1>2, <1>5 DEF IInv, Consistent, OnlyItIsExecuted
<1>19. SupplyIsAccounted'
  <2>1. /\ executed[j] = 0 /\ returned[j] = 0 /\ \A h \in Holders : bal[j][h] = 0
    BY <1>1 DEF IInv, Consistent, SupplyIsAccounted
  <2>2. CASE tokens[j].mined = 1
    <3>1. tokens'[j].mined = 2 /\ bal'[j][Genesis] = Supply /\ executed[j] * Supply = 0
      BY <1>3, <1>4, <1>6, <1>8, <2>1, <2>2
    <3>2. bal'[j][Genesis] + executed[j] * Supply = Supply + returned[j]
      BY <1>4, <2>1, <3>1
    <3> QED BY <1>2, <1>5, <1>6, <1>8, <3>1, <3>2 DEF IInv, Consistent, SupplyIsAccounted, Minted
  <2>3. CASE tokens[j].mined = 0
    <3>1. tokens'[j].mined = 1 /\ bal'[j] = bal[j] BY <1>6, <1>8, <2>3
    <3> QED BY <1>2, <1>5, <1>6, <1>8, <2>1, <2>3, <3>1 DEF IInv, Consistent, SupplyIsAccounted, Minted
  <2> QED BY <1>1, <1>3, <2>2, <2>3 DEF Deployments
<1> QED
  BY <1>13, <1>14, <1>15, <1>16, <1>17, <1>18, <1>19 DEF IInv, Consistent

LEMMA DeployRecordInv ==
  ASSUME IInv, NEW o \in Operators, DeployRecord(o) PROVE IInv'
<1> DEFINE own == tokens[commands[o].id]
           latest == runLatest[own.script]
           manifest == [token |-> latest,
                        timelock |-> IF own.script = "DeployBiniV2"
                                       THEN tokens[latest].timelock ELSE own.timelock]
<1>1. commands' = [commands EXCEPT ![o] = Idle]
      /\ UNCHANGED <<timelocks, tokens, bal, executed, returned, runLatest, timelockManifest,
                     packages, timelockAddress, verified>>
      /\ Deploying' = Deploying /\ Distributing' = Distributing /\ Deployments' = Deployments
  BY DEF DeployRecord, chain, Deploying, Distributing, Deployments
<1>2. Idle.at = "idle" BY DEF Idle
<1>3. own \in Deployments /\ latest \in DOMAIN tokens /\ commands[o].id \in DOMAIN tokens
  <2>1. commands[o].id \in DOMAIN tokens BY CommandKinds DEF IInv, DeployRecord
  <2>2. own \in Deployments BY <2>1, ElementsOf DEF IInv, TypeOK
  <2>3. own.script \in Scripts \ {"DeployTimelock"} BY <2>2, DeploymentsOf
  <2>4. latest \in Nat /\ latest <= Len(tokens) BY <2>3 DEF IInv, TypeOK, FileTypes
  <2>5. latest # 0 BY <2>1 DEF IInv, Consistent, FilesAreThere
  <2> QED BY <2>1, <2>2, <2>4, <2>5, ElementsOf DEF IInv, TypeOK
<1>4. \/ deployment' = deployment
      \/ deployment = NoDeployment /\ deployment' = manifest /\ VerifiedOnChain(manifest)
  BY DEF DeployRecord, CheckedWrite
<1>5. ASSUME VerifiedOnChain(manifest)
      PROVE  /\ manifest \in [token : DOMAIN tokens, timelock : DOMAIN timelocks]
             /\ tokens[manifest.token].mined = 2
             /\ tokens[manifest.token].timelock = manifest.timelock
  <2>1. tokens[latest].mined = 2 /\ tokens[latest].timelock = manifest.timelock
    BY <1>5 DEF VerifiedOnChain
  <2>2. tokens[latest].timelock # 0 BY <1>3, <2>1 DEF IInv, Consistent, TimelocksAreFinal
  <2>3. tokens[latest].timelock \in 0..Len(timelocks)
    BY <1>3, ElementsOf, DeploymentsOf DEF IInv, TypeOK
  <2>4. DOMAIN timelocks = 1..Len(timelocks) /\ Len(timelocks) \in Nat
    BY ElementsOf DEF IInv, TypeOK
  <2>5. manifest.timelock = tokens[latest].timelock BY <2>1
  <2>6. \A n \in Nat : \A t \in 0..n : t # 0 => t \in 1..n OBVIOUS
  <2>7. tokens[latest].timelock \in 1..Len(timelocks)
    <3> HIDE DEF latest
    <3> QED BY <2>2, <2>3, <2>4, <2>6
  <2>8. manifest.timelock \in DOMAIN timelocks BY <2>4, <2>5, <2>7
  <2> QED BY <1>3, <2>1, <2>8
<1>6. deployment' \in {NoDeployment} \union [token : DOMAIN tokens, timelock : DOMAIN timelocks]
  BY <1>4, <1>5 DEF IInv, TypeOK, FileTypes
<1>7. TypeOK' BY <1>1, <1>6 DEF IInv, TypeOK, ChainTypes, FileTypes
<1>8. DeploymentIsMined' BY <1>1, <1>4, <1>5 DEF IInv, Consistent, DeploymentIsMined
<1>9. deployment # NoDeployment => deployment' = deployment BY <1>4
<1>10. PackagesPayTheSupply'
  BY <1>1, <1>2, <1>9 DEF IInv, TypeOK, Consistent, PackagesPayTheSupply
<1>11. OnlyItIsExecuted' BY <1>1, <1>9 DEF IInv, Consistent, OnlyItIsExecuted
<1>12. FilesAreThere' BY <1>1, <1>2 DEF IInv, TypeOK, Consistent, FilesAreThere
<1> QED
  BY <1>1, <1>7, <1>8, <1>10, <1>11, <1>12 DEF IInv, Consistent, TimelocksAreFinal,
     SupplyIsAccounted, Minted
-----------------------------------------------------------------------------
(* distribute; the Genesis Safe and the holders                            *)

LEMMA DistributeReadInv ==
  ASSUME IInv, NEW o \in Operators, NEW l \in Ledgers, DistributeRead(o, l) PROVE IInv'
<1> DEFINE c == [at |-> "distribute", ledger |-> l, genesis |-> bal[deployment.token][Genesis]]
<1>1. /\ commands' = [commands EXCEPT ![o] = c]
      /\ deployment # NoDeployment /\ Total(l) = Supply
      /\ UNCHANGED <<timelocks, tokens, bal, executed, returned, runLatest, timelockManifest,
                     deployment, packages, timelockAddress, verified>>
      /\ Deploying' = Deploying /\ Distributing' = Distributing /\ Deployments' = Deployments
  BY DEF DistributeRead, ValidLedger, chain, files, Deploying, Distributing, Deployments
<1>2. c \in Distributing
  <2>1. deployment.token \in DOMAIN tokens BY <1>1 DEF IInv, TypeOK, FileTypes
  <2>2. bal[deployment.token] \in [Holders -> Nat] BY <2>1, ElementsOf DEF IInv, TypeOK
  <2> QED BY <2>2 DEF Distributing, Holders
<1>3. TypeOK' BY <1>1, <1>2 DEF IInv, TypeOK, ChainTypes, FileTypes
<1>4. c.at = "distribute" /\ c.ledger = l OBVIOUS
<1>5. PackagesPayTheSupply'
  BY <1>1, <1>4 DEF IInv, TypeOK, Consistent, PackagesPayTheSupply
<1>6. FilesAreThere' BY <1>1, <1>4 DEF IInv, TypeOK, Consistent, FilesAreThere
<1> QED
  BY <1>1, <1>3, <1>5, <1>6 DEF IInv, Consistent, TimelocksAreFinal, DeploymentIsMined,
     OnlyItIsExecuted, SupplyIsAccounted, Minted

LEMMA DistributeEndInv ==
  ASSUME IInv, NEW o \in Operators, DistributeEnd(o) PROVE IInv'
<1> DEFINE l == commands[o].ledger
           t == deployment.token
<1>1. /\ commands' = [commands EXCEPT ![o] = Idle] /\ commands[o].at = "distribute"
      /\ UNCHANGED <<timelocks, tokens, bal, executed, returned, runLatest, timelockManifest,
                     deployment, timelockAddress, verified>>
      /\ Deploying' = Deploying /\ Distributing' = Distributing /\ Deployments' = Deployments
  BY DEF DistributeEnd, chain, Deploying, Distributing, Deployments
<1>2. Idle.at = "idle" BY DEF Idle
<1>3. l \in Ledgers BY <1>1, CommandKinds DEF IInv
<1>4. Total(l) = Supply /\ deployment # NoDeployment
  BY <1>1 DEF IInv, Consistent, PackagesPayTheSupply
<1>5. packages' = packages \/ packages' = [packages EXCEPT ![l] = CheckedWrite(packages[l], 0, t)]
  BY DEF DistributeEnd
<1>6. CheckedWrite(packages[l], 0, t) \in {packages[l], t} BY DEF CheckedWrite
<1>7. t \in 0..Len(tokens)
  <2>1. t \in DOMAIN tokens BY <1>4 DEF IInv, TypeOK, FileTypes
  <2> QED BY <2>1, ElementsOf DEF IInv, TypeOK
<1>8. packages' \in [Ledgers -> 0..Len(tokens)]
      /\ \A k \in Ledgers : packages'[k] = packages[k] \/ (k = l /\ packages'[k] = t)
  BY <1>3, <1>5, <1>6, <1>7 DEF IInv, TypeOK, FileTypes
<1>9. TypeOK' BY <1>1, <1>8 DEF IInv, TypeOK, ChainTypes, FileTypes
<1>10. PackagesPayTheSupply'
  BY <1>1, <1>2, <1>4, <1>8 DEF IInv, TypeOK, Consistent, PackagesPayTheSupply
<1>11. FilesAreThere' BY <1>1, <1>2 DEF IInv, TypeOK, Consistent, FilesAreThere
<1> QED
  BY <1>1, <1>9, <1>10, <1>11 DEF IInv, Consistent, TimelocksAreFinal, DeploymentIsMined,
     OnlyItIsExecuted, SupplyIsAccounted, Minted

\* A step that changes the balances in one token keeps everything but the
\* account of its supply.
LEMMA BalancesChange ==
  ASSUME IInv, NEW t \in DOMAIN tokens, NEW f \in [Holders -> Nat],
         bal' = [bal EXCEPT ![t] = f],
         executed' \in Seq(Nat), Len(executed') = Len(tokens),
         returned' \in Seq(0..MaxReturned), Len(returned') = Len(tokens),
         UNCHANGED <<timelocks, tokens, files, verified, commands>>
  PROVE  /\ TypeOK' /\ FilesAreThere' /\ TimelocksAreFinal' /\ DeploymentIsMined'
         /\ PackagesPayTheSupply'
         /\ bal'[t] = f /\ \A k \in DOMAIN tokens : k # t => bal'[k] = bal[k]
<1>1. DOMAIN bal = DOMAIN tokens BY ElementsOf DEF IInv, TypeOK
<1>2. bal' \in Seq([Holders -> Nat]) /\ Len(bal') = Len(tokens)
  BY <1>1 DEF IInv, TypeOK, ChainTypes
<1>3. Deploying' = Deploying /\ Distributing' = Distributing /\ Deployments' = Deployments
  BY DEF Deploying, Distributing, Deployments
<1>4. TypeOK' BY <1>2, <1>3 DEF IInv, TypeOK, ChainTypes, FileTypes, files
<1>5. FilesAreThere' /\ TimelocksAreFinal' /\ DeploymentIsMined' /\ PackagesPayTheSupply'
  BY DEF IInv, Consistent, FilesAreThere, TimelocksAreFinal, DeploymentIsMined,
     PackagesPayTheSupply, files
<1> QED BY <1>1, <1>4, <1>5

LEMMA ExecuteDistributionInv ==
  ASSUME IInv, NEW l \in Ledgers, ExecuteDistribution(l) PROVE IInv'
<1> DEFINE t == packages[l]
           f == [h \in Holders |->
                   CASE h = Genesis -> bal[t][h] - Total(l)
                     [] h \in Recipients -> bal[t][h] + l.amounts[h]
                     [] OTHER -> bal[t][h]]
<1>1. /\ t # 0 /\ bal[t][Genesis] >= Total(l)
      /\ bal' = [bal EXCEPT ![t] = f] /\ executed' = [executed EXCEPT ![t] = executed[t] + 1]
      /\ UNCHANGED <<timelocks, tokens, returned, files, verified, commands>>
  BY DEF ExecuteDistribution
<1>2. Total(l) = Supply /\ deployment # NoDeployment /\ t = deployment.token
  BY <1>1 DEF IInv, Consistent, PackagesPayTheSupply
<1>3. PICK u \in DOMAIN tokens : u = t
  BY <1>2 DEF IInv, TypeOK, FileTypes
<1>4. /\ bal[u] \in [Holders -> Nat] /\ executed[u] \in Nat /\ returned[u] \in 0..MaxReturned
      /\ DOMAIN executed = DOMAIN tokens
  BY ElementsOf DEF IInv, TypeOK
<1>5. Genesis \in Holders /\ Supply \in Nat /\ Supply > 0 /\ MaxReturned \in Nat
      /\ l.amounts \in [Recipients -> Nat] /\ Genesis \notin Recipients
      /\ Recipients \subseteq Holders
  BY ReleaseAssumption DEF Holders
<1>6. f \in [Holders -> Nat] /\ f[Genesis] = bal[u][Genesis] - Supply
  <2>1. bal[u][Genesis] - Supply \in Nat BY <1>1, <1>2, <1>3, <1>4, <1>5
  <2>2. ASSUME NEW h \in Holders PROVE f[h] \in Nat
    BY <1>2, <1>3, <1>4, <1>5, <2>1
  <2> QED BY <1>2, <1>3, <1>5, <2>2
<1>7. executed' \in Seq(Nat) /\ Len(executed') = Len(tokens)
  BY <1>1, <1>3, <1>4 DEF IInv, TypeOK, ChainTypes
<1>8. returned' \in Seq(0..MaxReturned) /\ Len(returned') = Len(tokens)
  BY <1>1 DEF IInv, TypeOK, ChainTypes
<1>9. /\ TypeOK' /\ FilesAreThere' /\ TimelocksAreFinal' /\ DeploymentIsMined'
      /\ PackagesPayTheSupply'
      /\ bal'[u] = f /\ \A k \in DOMAIN tokens : k # u => bal'[k] = bal[k]
  <2> HIDE DEF f
  <2> QED BY <1>1, <1>3, <1>6, <1>7, <1>8, BalancesChange
<1>10. executed'[u] = executed[u] + 1
       /\ \A k \in DOMAIN tokens : k # u => executed'[k] = executed[k]
  BY <1>1, <1>3, <1>4
<1>11. OnlyItIsExecuted'
  <2>1. UNCHANGED <<tokens, deployment>> BY <1>1 DEF files
  <2> QED BY <1>2, <1>3, <1>10, <2>1 DEF IInv, Consistent, OnlyItIsExecuted
<1>12. SupplyIsAccounted'
  <2>1. tokens[u].mined = 2
    <3>1. bal[u][Genesis] # 0 BY <1>1, <1>2, <1>3, <1>5
    <3> QED BY <1>5, <3>1 DEF IInv, Consistent, SupplyIsAccounted
  <2>2. bal[u][Genesis] + executed[u] * Supply = Supply + returned[u]
    BY <2>1 DEF IInv, Consistent, SupplyIsAccounted, Minted
  <2>3. (executed[u] + 1) * Supply = executed[u] * Supply + Supply /\ executed[u] * Supply \in Nat
    BY <1>4, <1>5
  <2>4. bal'[u][Genesis] + executed'[u] * Supply = Supply + returned[u]
    <3>1. bal'[u][Genesis] = bal[u][Genesis] - Supply BY <1>6, <1>9
    <3>2. bal[u][Genesis] \in Nat BY <1>4, <1>5
    <3> DEFINE x == executed[u] * Supply
    <3>3. executed'[u] * Supply = x + Supply BY <1>10, <2>3
    <3>4. x \in Nat /\ bal[u][Genesis] + x = Supply + returned[u] BY <2>2, <2>3
    <3> HIDE DEF x
    <3>5. (bal[u][Genesis] - Supply) + (x + Supply) = Supply + returned[u] BY <1>5, <3>2, <3>4
    <3> QED BY <3>1, <3>3, <3>5
  <2>5. UNCHANGED <<tokens, returned>> BY <1>1
  <2>6. \A k \in DOMAIN tokens : k # u =>
          /\ bal'[k][Genesis] + executed'[k] * Supply = Minted(k) + returned[k]
          /\ tokens[k].mined # 2 =>
               executed'[k] = 0 /\ returned[k] = 0 /\ \A h \in Holders : bal'[k][h] = 0
    BY <1>9, <1>10 DEF IInv, Consistent, SupplyIsAccounted
  <2> QED BY <2>1, <2>4, <2>5, <2>6 DEF SupplyIsAccounted, Minted
<1> QED BY <1>9, <1>11, <1>12 DEF IInv, Consistent

LEMMA SpendInv ==
  ASSUME IInv, NEW t \in DOMAIN tokens, NEW from \in Holders, NEW to \in Holders,
         Spend(t, from, to)
  PROVE  IInv'
<1> DEFINE f == [h \in Holders |->
                   CASE h = from -> bal[t][h] - 1 [] h = to -> bal[t][h] + 1 [] OTHER -> bal[t][h]]
<1>1. /\ from # to /\ from # Genesis /\ bal[t][from] > 0
      /\ (to = Genesis => returned[t] < MaxReturned)
      /\ bal' = [bal EXCEPT ![t] = f]
      /\ returned' = IF to = Genesis THEN [returned EXCEPT ![t] = returned[t] + 1] ELSE returned
      /\ UNCHANGED <<timelocks, tokens, executed, files, verified, commands>>
  BY DEF Spend
<1>2. /\ bal[t] \in [Holders -> Nat] /\ executed[t] \in Nat /\ returned[t] \in 0..MaxReturned
      /\ DOMAIN returned = DOMAIN tokens
  BY ElementsOf DEF IInv, TypeOK
<1>3. Genesis \in Holders /\ MaxReturned \in Nat /\ Supply \in Nat BY ReleaseAssumption DEF Holders
<1>4. f \in [Holders -> Nat]
      /\ f[Genesis] = IF to = Genesis THEN bal[t][Genesis] + 1 ELSE bal[t][Genesis]
  <2>1. bal[t][from] - 1 \in Nat BY <1>1, <1>2
  <2>2. ASSUME NEW h \in Holders PROVE f[h] \in Nat BY <1>2, <2>1
  <2> QED BY <1>1, <1>3, <2>2
<1>5. returned' \in Seq(0..MaxReturned) /\ Len(returned') = Len(tokens)
  <2>1. to = Genesis => returned[t] + 1 \in 0..MaxReturned BY <1>1, <1>2, <1>3
  <2>2. returned \in Seq(0..MaxReturned) /\ Len(returned) = Len(tokens)
    BY DEF IInv, TypeOK, ChainTypes
  <2>3. CASE to = Genesis
    <3>1. returned' = [returned EXCEPT ![t] = returned[t] + 1] BY <1>1, <2>3
    <3>2. Len(returned') = Len(returned) /\ DOMAIN returned' = DOMAIN returned
      BY <1>2, <2>2, <3>1
    <3>3. \A k \in 1..Len(returned) : returned[k] \in 0..MaxReturned BY <2>2, ElementOfSeq
    <3>4. returned' \in [1..Len(returned) -> 0..MaxReturned] BY <2>1, <2>2, <2>3, <3>1, <3>3
    <3>5. Len(returned) \in Nat BY <2>2
    <3> QED BY <2>2, <3>2, <3>4, <3>5, SeqDef
  <2>4. CASE to # Genesis BY <1>1, <2>2, <2>4
  <2> QED BY <2>3, <2>4
<1>6. executed' \in Seq(Nat) /\ Len(executed') = Len(tokens)
  BY <1>1 DEF IInv, TypeOK, ChainTypes
<1>7. /\ TypeOK' /\ FilesAreThere' /\ TimelocksAreFinal' /\ DeploymentIsMined'
      /\ PackagesPayTheSupply'
      /\ bal'[t] = f /\ \A k \in DOMAIN tokens : k # t => bal'[k] = bal[k]
  <2> HIDE DEF f
  <2> QED BY <1>1, <1>4, <1>5, <1>6, BalancesChange
<1>8. returned'[t] = (IF to = Genesis THEN returned[t] + 1 ELSE returned[t])
      /\ \A k \in DOMAIN tokens : k # t => returned'[k] = returned[k]
  BY <1>1, <1>2
<1>9. OnlyItIsExecuted'
  <2>1. UNCHANGED <<tokens, deployment, executed>> BY <1>1 DEF files
  <2> QED BY <2>1 DEF IInv, Consistent, OnlyItIsExecuted
<1>10. SupplyIsAccounted'
  <2>1. tokens[t].mined = 2
    <3>1. bal[t][from] # 0 BY <1>1, <1>2
    <3> QED BY <3>1 DEF IInv, Consistent, SupplyIsAccounted
  <2>2. bal'[t][Genesis] + executed[t] * Supply = Supply + returned'[t]
    <3> DEFINE x == executed[t] * Supply
    <3>1. x \in Nat BY <1>2, <1>3
    <3>2. bal[t][Genesis] + x = Supply + returned[t]
      BY <2>1 DEF IInv, Consistent, SupplyIsAccounted, Minted
    <3>3. bal[t][Genesis] \in Nat /\ returned[t] \in Nat BY <1>2, <1>3
    <3> HIDE DEF x
    <3>4. bal'[t][Genesis] + x = Supply + returned'[t]
      BY <1>3, <1>4, <1>7, <1>8, <3>1, <3>2, <3>3
    <3> QED BY <3>4 DEF x
  <2>3. UNCHANGED <<tokens, executed>> BY <1>1
  <2>4. \A k \in DOMAIN tokens : k # t =>
          /\ bal'[k][Genesis] + executed[k] * Supply = Minted(k) + returned'[k]
          /\ tokens[k].mined # 2 =>
               executed[k] = 0 /\ returned'[k] = 0 /\ \A h \in Holders : bal'[k][h] = 0
    BY <1>7, <1>8 DEF IInv, Consistent, SupplyIsAccounted
  <2> QED BY <2>1, <2>2, <2>3, <2>4 DEF SupplyIsAccounted, Minted
<1> QED BY <1>7, <1>9, <1>10 DEF IInv, Consistent
-----------------------------------------------------------------------------
LEMMA NextInv == IInv /\ [Next]_vars => IInv'
<1> SUFFICES ASSUME IInv, [Next]_vars PROVE IInv' OBVIOUS
<1>1. CASE Next
  <2>1. ASSUME NEW o \in Operators, TimelockDeploy(o) PROVE IInv' BY <2>1, TimelockDeployInv
  <2>2. ASSUME NEW o \in Operators, TimelockRecord(o) PROVE IInv' BY <2>2, TimelockRecordInv
  <2>3. ASSUME NEW o \in Operators, Deploy(o) PROVE IInv' BY <2>3, DeployInv
  <2>4. ASSUME NEW o \in Operators, DeployRecord(o) PROVE IInv' BY <2>4, DeployRecordInv
  <2>5. ASSUME NEW o \in Operators, NEW l \in Ledgers, DistributeRead(o, l) PROVE IInv'
    BY <2>5, DistributeReadInv
  <2>6. ASSUME NEW o \in Operators, DistributeEnd(o) PROVE IInv' BY <2>6, DistributeEndInv
  <2>7. ASSUME NEW o \in Operators, Kill(o) PROVE IInv' BY <2>7, KillInv
  <2>8. ASSUME NEW i \in DOMAIN timelocks, MineTimelock(i) PROVE IInv' BY <2>8, MineTimelockInv
  <2>9. ASSUME NEW j \in DOMAIN tokens, MineTokenTimelock(j) PROVE IInv'
    BY <2>9, MineTokenTimelockInv
  <2>10. ASSUME NEW j \in DOMAIN tokens, MineToken(j) PROVE IInv' BY <2>10, MineTokenInv
  <2>11. ASSUME NEW l \in Ledgers, ExecuteDistribution(l) PROVE IInv'
    BY <2>11, ExecuteDistributionInv
  <2>12. ASSUME NEW t \in DOMAIN tokens, NEW from \in Holders, NEW to \in Holders,
                Spend(t, from, to)
         PROVE IInv'
    BY <2>12, SpendInv
  <2> QED
    BY <1>1, <2>1, <2>2, <2>3, <2>4, <2>5, <2>6, <2>7, <2>8, <2>9, <2>10, <2>11, <2>12,
       TimelockVerifyInv, ConfigureInv DEF Next
<1>2. CASE UNCHANGED vars
  BY <1>2 DEF IInv, TypeOK, ChainTypes, FileTypes, Deployments, Deploying, Distributing,
     Consistent, FilesAreThere, TimelocksAreFinal, DeploymentIsMined, PackagesPayTheSupply,
     OnlyItIsExecuted, SupplyIsAccounted, Minted, vars, chain, files
<1> QED BY <1>1, <1>2

LEMMA ReleaseInvariant == Spec => []IInv
  BY InitInv, NextInv, PTL DEF Spec

\* Files name what exists, and everything keeps its type.
THEOREM ReleaseTypes == Spec => []TypeOK
<1>1. IInv => TypeOK BY DEF IInv
<1> QED BY <1>1, ReleaseInvariant, PTL

\* The recorded token is deployed under the recorded Timelock, over which the
\* deployer has no power: for any number of commands, killed anywhere.
THEOREM ReleaseDeploymentIsGoverned == Spec => []DeploymentIsGoverned
<1>1. IInv => DeploymentIsGoverned
  <2>1. SUFFICES ASSUME IInv, deployment # NoDeployment
                 PROVE  /\ tokens[deployment.token].mined = 2
                        /\ tokens[deployment.token].timelock = deployment.timelock
                        /\ timelocks[deployment.timelock] = 4
    BY DEF DeploymentIsGoverned
  <2>2. deployment.token \in DOMAIN tokens BY <2>1 DEF IInv, TypeOK, FileTypes
  <2>3. /\ tokens[deployment.token].mined = 2
        /\ tokens[deployment.token].timelock = deployment.timelock
    BY <2>1 DEF IInv, Consistent, DeploymentIsMined
  <2> QED BY <2>1, <2>2, <2>3 DEF IInv, Consistent, TimelocksAreFinal
<1> QED BY <1>1, ReleaseInvariant, PTL

\* Only the recorded token is distributed.
THEOREM ReleaseOnlyRecordedIsDistributed == Spec => []OnlyRecordedIsDistributed
<1>1. IInv => OnlyRecordedIsDistributed
  <2>1. SUFFICES ASSUME IInv PROVE OnlyRecordedIsDistributed OBVIOUS
  <2>2. \A l \in Ledgers : packages[l] \in {0, deployment.token}
    BY <2>1 DEF IInv, Consistent, PackagesPayTheSupply
  <2>3. \A t \in DOMAIN tokens : executed[t] > 0 => t = deployment.token
    BY <2>1 DEF IInv, Consistent, OnlyItIsExecuted
  <2> QED BY <2>2, <2>3 DEF OnlyRecordedIsDistributed
<1> QED BY <1>1, ReleaseInvariant, PTL

\* Every distribution after the first needs the supply back, for every supply
\* and every set of ledgers.
THEOREM ReleaseDistributedOnce == Spec => []DistributedOnce
<1>1. IInv => DistributedOnce
  <2>1. SUFFICES ASSUME IInv, NEW t \in DOMAIN tokens
                 PROVE  executed[t] * Supply <= Supply + returned[t]
    BY DEF DistributedOnce
  <2> DEFINE x == executed[t] * Supply
  <2>2. /\ bal[t] \in [Holders -> Nat] /\ executed[t] \in Nat /\ returned[t] \in 0..MaxReturned
    BY <2>1, ElementsOf DEF IInv, TypeOK
  <2>3. Genesis \in Holders /\ Supply \in Nat /\ MaxReturned \in Nat
    BY ReleaseAssumption DEF Holders
  <2>4. x \in Nat BY <2>2, <2>3
  <2>5. bal[t][Genesis] + x = Minted(t) + returned[t]
    BY <2>1 DEF IInv, Consistent, SupplyIsAccounted
  <2>6. Minted(t) \in {0, Supply} BY DEF Minted
  <2> HIDE DEF x
  <2>7. x <= Supply + returned[t] BY <2>2, <2>3, <2>4, <2>5, <2>6
  <2> QED BY <2>7 DEF x
<1> QED BY <1>1, ReleaseInvariant, PTL
-----------------------------------------------------------------------------
\* In every token ever deployed the balances add up to the supply once it is
\* minted, and to nothing before: a distribution pays out of the Genesis Safe
\* what it pays to the recipients, to the last unit.
NothingIsLost == \A t \in DOMAIN tokens : SumFunction(bal[t]) = Minted(t)

LEMMA HoldersAreFinite == IsFiniteSet(Holders) /\ Genesis \in Holders
<1> DEFINE all == (Recipients \union {Genesis}) \union {Others}
<1>1. IsFiniteSet(all) BY ReleaseAssumption, FS_AddElement
<1>2. all = Holders BY DEF Holders
<1> QED BY <1>1, <1>2 DEF Holders

\* One balance of a token that holds nothing is set to the supply.
LEMMA MintAddsUp ==
  ASSUME NEW f, \A h \in Holders : f[h] = 0,
         NEW g, DOMAIN g = Holders, g[Genesis] = Supply,
         \A h \in Holders \ {Genesis} : g[h] = f[h]
  PROVE  SumFunction(g) = Supply
<1>1. Supply \in Int BY ReleaseAssumption
<1>2. (\A h \in Holders : f[h] \in Int) /\ (\A h \in Holders : g[h] \in Int) BY <1>1
<1>3. SumFunctionOnSet(f, Holders) = 0 BY HoldersAreFinite, SumOfZeros
<1>4. SumFunctionOnSet(g, Holders) + f[Genesis] = SumFunctionOnSet(f, Holders) + g[Genesis]
  BY <1>2, HoldersAreFinite, SumAfterUpdate
<1>5. f[Genesis] = 0 BY HoldersAreFinite
<1>6. SumFunctionOnSet(g, Holders) \in Int BY <1>2, HoldersAreFinite, SumRules
<1> QED BY <1>1, <1>3, <1>4, <1>5, <1>6 DEF SumFunction

\* What the recipients get is what the Genesis Safe pays.
LEMMA DistributionAddsUp ==
  ASSUME NEW f \in [Holders -> Nat], NEW l \in Ledgers, NEW g,
         g = [h \in Holders |-> CASE h = Genesis -> f[h] - Total(l)
                                 [] h \in Recipients -> f[h] + l.amounts[h]
                                 [] OTHER -> f[h]]
  PROVE  SumFunction(g) = SumFunction(f)
<1> DEFINE paid == [h \in Holders |-> IF h \in Recipients THEN l.amounts[h] ELSE 0]
           mid == [h \in Holders |-> f[h] + paid[h]]
           total == Total(l)
<1>1. /\ l.amounts \in [Recipients -> Nat] /\ Genesis \notin Recipients
      /\ Recipients \subseteq Holders /\ IsFiniteSet(Recipients)
  BY ReleaseAssumption DEF Holders
<1>2. total = SumFunctionOnSet(l.amounts, Recipients)
  BY <1>1 DEF Total, SumFunction
<1>3. SumFunctionOnSet(paid, Holders) = total /\ total \in Int
  <2>1. \A h \in Holders : paid[h] \in Int BY <1>1
  <2>2. \A r \in Recipients : paid[r] \in Int /\ paid[r] = l.amounts[r] BY <1>1
  <2>3. \A h \in Holders \ Recipients : paid[h] = 0 OBVIOUS
  <2>4. IsFiniteSet(Holders \ Recipients) BY HoldersAreFinite, FS_Subset
  <2>5. Recipients \in SUBSET Holders BY <1>1
  <2> HIDE DEF paid
  <2>6. SumFunctionOnSet(paid, Recipients) = SumFunctionOnSet(l.amounts, Recipients)
    BY <1>1, <2>2, SumIsExtensional
  <2>7. SumFunctionOnSet(paid, Holders \ Recipients) = 0 BY <2>3, <2>4, SumOfZeros
  <2>8. SumFunctionOnSet(paid, Holders) =
          SumFunctionOnSet(paid, Recipients) + SumFunctionOnSet(paid, Holders \ Recipients)
    BY <2>1, <2>5, HoldersAreFinite, SumOfParts
  <2>9. SumFunctionOnSet(paid, Recipients) \in Int
    BY <2>1, <2>5, HoldersAreFinite, SumRules
  <2> QED BY <1>2, <2>6, <2>7, <2>8, <2>9
<1>4. \A h \in Holders : f[h] \in Int OBVIOUS
<1>5. \A h \in Holders : paid[h] \in Int BY <1>1
<1>6. \A h \in Holders : mid[h] = f[h] + paid[h] OBVIOUS
<1>7. /\ \A h \in Holders : mid[h] \in Int
      /\ \A h \in Holders \ {Genesis} : g[h] = mid[h]
      /\ g[Genesis] = f[Genesis] - total /\ mid[Genesis] = f[Genesis] /\ Genesis \in Holders
  <2> HIDE DEF total
  <2>1. \A h \in Holders : mid[h] \in Int BY <1>4, <1>5, <1>6
  <2>2. \A h \in Holders \ {Genesis} : g[h] = mid[h] BY <1>4
  <2>3. g[Genesis] = f[Genesis] - total /\ mid[Genesis] = f[Genesis]
    BY <1>1, <1>4, HoldersAreFinite DEF total
  <2> QED BY <2>1, <2>2, <2>3, HoldersAreFinite
<1>8. \A h \in Holders : g[h] \in Int
  <2> HIDE DEF mid, total
  <2> QED BY <1>3, <1>4, <1>7
<1>9. DOMAIN g = Holders /\ DOMAIN f = Holders OBVIOUS
<1> HIDE DEF total, paid, mid
<1>10. SumFunctionOnSet(mid, Holders) =
         SumFunctionOnSet(f, Holders) + SumFunctionOnSet(paid, Holders)
  BY <1>4, <1>5, <1>6, HoldersAreFinite, SumIsAdditive
<1>11. SumFunctionOnSet(g, Holders) + mid[Genesis] = SumFunctionOnSet(mid, Holders) + g[Genesis]
  BY <1>7, <1>8, HoldersAreFinite, SumAfterUpdate
<1>12. SumFunctionOnSet(f, Holders) \in Int BY <1>4, HoldersAreFinite, SumRules
<1>13. SumFunctionOnSet(g, Holders) \in Int BY <1>8, HoldersAreFinite, SumRules
<1>14. f[Genesis] \in Int BY <1>4, HoldersAreFinite
<1> QED BY <1>3, <1>7, <1>9, <1>10, <1>11, <1>12, <1>13, <1>14 DEF SumFunction

LEMMA SpendAddsUp ==
  ASSUME NEW f \in [Holders -> Nat], NEW from \in Holders, NEW to \in Holders, from # to, NEW g,
         g = [h \in Holders |-> CASE h = from -> f[h] - 1 [] h = to -> f[h] + 1 [] OTHER -> f[h]]
  PROVE  SumFunction(g) = SumFunction(f)
<1>1. \A h \in Holders : f[h] \in Int OBVIOUS
<1>2. \A h \in Holders : g[h] \in Int
  <2> SUFFICES ASSUME NEW h \in Holders PROVE g[h] \in Int OBVIOUS
  <2>1. CASE h = from BY <1>1, <2>1
  <2>2. CASE h = to BY <1>1, <2>2
  <2>3. CASE h # from /\ h # to BY <1>1, <2>3
  <2> QED BY <2>1, <2>2, <2>3
<1>3. g[from] + g[to] = f[from] + f[to] OBVIOUS
<1>4. \A h \in Holders \ {from, to} : g[h] = f[h] OBVIOUS
<1>5. DOMAIN f = Holders /\ DOMAIN g = Holders OBVIOUS
<1>6. SumFunctionOnSet(g, Holders) = SumFunctionOnSet(f, Holders)
  BY <1>1, <1>2, <1>3, <1>4, HoldersAreFinite, SumAfterMove
<1> QED BY <1>5, <1>6 DEF SumFunction

\* A step that mines no token and moves no BINI loses nothing.
LEMMA StillNothingIsLost ==
  ASSUME NothingIsLost, bal' = bal, DOMAIN tokens' = DOMAIN tokens,
         \A t \in DOMAIN tokens : tokens'[t].mined = 2 <=> tokens[t].mined = 2
  PROVE  NothingIsLost'
<1> SUFFICES ASSUME NEW t \in DOMAIN tokens PROVE SumFunction(bal'[t]) = Minted(t)'
  BY DEF NothingIsLost
<1>1. Minted(t)' = Minted(t) BY DEF Minted
<1> QED BY <1>1 DEF NothingIsLost

LEMMA DeployLosesNothing ==
  ASSUME IInv, NothingIsLost, NEW o \in Operators, Deploy(o)
  PROVE  NothingIsLost'
<1> SUFFICES ASSUME NEW t \in DOMAIN tokens' PROVE SumFunction(bal'[t]) = Minted(t)'
  BY DEF NothingIsLost
<1> DEFINE j == Len(tokens) + 1
           d == [script |-> IF timelockAddress = 0 THEN "DeployBiniV2" ELSE "DeployBiniTokenV2",
                 timelock |-> timelockAddress, mined |-> 0]
<1>1. tokens' = Append(tokens, d) /\ d.mined = 0 BY DEF Deploy
<1> HIDE DEF d
<1>2. bal' = Append(bal, Undistributed) BY DEF Deploy
<1>3. DOMAIN tokens = 1..Len(tokens) /\ Len(tokens) \in Nat /\ DOMAIN bal = DOMAIN tokens
      /\ tokens \in Seq(Deployments) /\ bal \in Seq([Holders -> Nat]) /\ Len(bal) = Len(tokens)
  BY ElementsOf DEF IInv, TypeOK, ChainTypes
<1>4. DOMAIN tokens' = 1..j /\ tokens'[j].mined = 0 /\ bal'[j] = Undistributed
      /\ \A k \in DOMAIN tokens : tokens'[k] = tokens[k] /\ bal'[k] = bal[k]
  BY <1>1, <1>2, <1>3
<1>5. CASE t = j
  <2>1. Minted(t)' = 0 BY <1>4, <1>5 DEF Minted
  <2>2. DOMAIN Undistributed = Holders /\ \A h \in Holders : Undistributed[h] = 0
    BY DEF Undistributed
  <2>3. SumFunctionOnSet(Undistributed, Holders) = 0 BY <2>2, HoldersAreFinite, SumOfZeros
  <2> QED BY <1>4, <1>5, <2>1, <2>2, <2>3 DEF SumFunction
<1>6. CASE t \in DOMAIN tokens
  <2>1. Minted(t)' = Minted(t) BY <1>4, <1>6 DEF Minted
  <2> QED BY <1>4, <1>6, <2>1 DEF NothingIsLost
<1>7. t = j \/ t \in DOMAIN tokens BY <1>3, <1>4
<1> QED BY <1>5, <1>6, <1>7

LEMMA MineTokenLosesNothing ==
  ASSUME IInv, NothingIsLost, NEW j \in DOMAIN tokens, MineToken(j)
  PROVE  NothingIsLost'
<1> SUFFICES ASSUME NEW t \in DOMAIN tokens' PROVE SumFunction(bal'[t]) = Minted(t)'
  BY DEF NothingIsLost
<1>1. /\ tokens' = [tokens EXCEPT ![j].mined = tokens[j].mined + 1]
      /\ tokens[j].mined < 2 /\ tokens[j] \in Deployments /\ DOMAIN bal = DOMAIN tokens
      /\ bal' = IF tokens[j].mined = 1 THEN [bal EXCEPT ![j][Genesis] = Supply] ELSE bal
      /\ bal[j] \in [Holders -> Nat]
  BY ElementsOf DEF MineToken, IInv, TypeOK
<1>2. t \in DOMAIN tokens /\ tokens[j].mined \in 0..1
      /\ tokens'[t].mined = IF t = j THEN tokens[j].mined + 1 ELSE tokens[t].mined
  BY <1>1 DEF Deployments
<1>3. CASE t = j /\ tokens[j].mined = 1
  <2>1. bal'[t] = [bal[j] EXCEPT ![Genesis] = Supply] BY <1>1, <1>2, <1>3
  <2>2. \A h \in Holders : bal[j][h] = 0
    BY <1>3 DEF IInv, Consistent, SupplyIsAccounted
  <2> DEFINE f == bal[j]
             g == bal'[t]
  <2>3. DOMAIN g = Holders /\ g[Genesis] = Supply /\ \A h \in Holders \ {Genesis} : g[h] = f[h]
    BY <1>1, <2>1, HoldersAreFinite
  <2> HIDE DEF f, g
  <2>4. SumFunction(g) = Supply BY <2>2, <2>3, MintAddsUp DEF f
  <2>5. Minted(t)' = Supply BY <1>2, <1>3 DEF Minted
  <2> QED BY <2>4, <2>5 DEF g
<1>4. CASE ~(t = j /\ tokens[j].mined = 1)
  <2>1. bal'[t] = bal[t] BY <1>1, <1>2, <1>4
  <2>2. tokens'[t].mined = 2 <=> tokens[t].mined = 2 BY <1>1, <1>2, <1>4
  <2>3. Minted(t)' = Minted(t) BY <2>2 DEF Minted
  <2> QED BY <1>2, <2>1, <2>3 DEF NothingIsLost
<1> QED BY <1>3, <1>4

\* A distribution or a transfer changes the balances of one token.
LEMMA MovesLoseNothing ==
  ASSUME IInv, NothingIsLost, NEW t \in DOMAIN tokens, NEW g,
         bal' = [bal EXCEPT ![t] = g], SumFunction(g) = SumFunction(bal[t]), tokens' = tokens
  PROVE  NothingIsLost'
<1>1. DOMAIN bal = DOMAIN tokens BY ElementsOf DEF IInv, TypeOK
<1>2. \A k \in DOMAIN tokens : Minted(k)' = Minted(k) BY DEF Minted
<1>3. \A k \in DOMAIN tokens : SumFunction(bal'[k]) = SumFunction(bal[k]) BY <1>1
<1> QED BY <1>2, <1>3 DEF NothingIsLost

LEMMA NextLosesNothing == IInv /\ NothingIsLost /\ [Next]_vars => NothingIsLost'
<1> SUFFICES ASSUME IInv, NothingIsLost, [Next]_vars PROVE NothingIsLost'
  OBVIOUS
<1>1. ASSUME NEW o \in Operators, Deploy(o) PROVE NothingIsLost'
  BY <1>1, DeployLosesNothing
<1>2. ASSUME NEW j \in DOMAIN tokens, MineToken(j) PROVE NothingIsLost'
  BY <1>2, MineTokenLosesNothing
<1>3. ASSUME NEW j \in DOMAIN tokens, MineTokenTimelock(j) PROVE NothingIsLost'
  <2>1. /\ bal' = bal /\ tokens' = [tokens EXCEPT ![j].timelock = Len(timelocks) + 1]
        /\ tokens[j] \in Deployments
    BY <1>3, ElementsOf DEF MineTokenTimelock, IInv, TypeOK
  <2>2. DOMAIN tokens' = DOMAIN tokens
        /\ \A t \in DOMAIN tokens : tokens'[t].mined = tokens[t].mined
    BY <2>1 DEF Deployments
  <2> QED BY <2>1, <2>2, StillNothingIsLost
<1>4. ASSUME NEW l \in Ledgers, ExecuteDistribution(l) PROVE NothingIsLost'
  <2> DEFINE t == packages[l]
             g == [h \in Holders |-> CASE h = Genesis -> bal[t][h] - Total(l)
                                      [] h \in Recipients -> bal[t][h] + l.amounts[h]
                                      [] OTHER -> bal[t][h]]
  <2>1. t # 0 /\ bal' = [bal EXCEPT ![t] = g] /\ tokens' = tokens
    BY <1>4 DEF ExecuteDistribution
  <2>2. t \in DOMAIN tokens /\ bal[t] \in [Holders -> Nat]
    <3>1. deployment # NoDeployment /\ t = deployment.token
      BY <2>1 DEF IInv, Consistent, PackagesPayTheSupply
    <3>2. t \in DOMAIN tokens BY <3>1 DEF IInv, TypeOK, FileTypes
    <3> HIDE DEF t
    <3> QED BY <3>2, ElementsOf DEF IInv, TypeOK
  <2>3. SumFunction(g) = SumFunction(bal[t]) BY <2>2, DistributionAddsUp
  <2> HIDE DEF t, g
  <2> QED BY <2>1, <2>2, <2>3, MovesLoseNothing
<1>5. ASSUME NEW t \in DOMAIN tokens, NEW from \in Holders, NEW to \in Holders, Spend(t, from, to)
      PROVE  NothingIsLost'
  <2> DEFINE g == [h \in Holders |-> CASE h = from -> bal[t][h] - 1
                                      [] h = to -> bal[t][h] + 1 [] OTHER -> bal[t][h]]
  <2>1. from # to /\ bal' = [bal EXCEPT ![t] = g] /\ tokens' = tokens
    BY <1>5 DEF Spend
  <2>2. bal[t] \in [Holders -> Nat] BY ElementsOf DEF IInv, TypeOK
  <2>3. SumFunction(g) = SumFunction(bal[t]) BY <2>1, <2>2, SpendAddsUp
  <2> HIDE DEF g
  <2> QED BY <2>1, <2>3, MovesLoseNothing
<1>6. CASE UNCHANGED <<tokens, bal>>
  BY <1>6, StillNothingIsLost
<1>7. ASSUME NEW o \in Operators,
             \/ TimelockDeploy(o) \/ TimelockRecord(o) \/ DeployRecord(o)
             \/ \E l \in Ledgers : DistributeRead(o, l)
             \/ DistributeEnd(o) \/ Kill(o)
      PROVE  UNCHANGED <<tokens, bal>>
  BY <1>7 DEF TimelockDeploy, TimelockRecord, DeployRecord, DistributeRead, DistributeEnd, Kill,
              chain
<1>8. ASSUME TimelockVerify \/ Configure \/ \E i \in DOMAIN timelocks : MineTimelock(i)
      PROVE  UNCHANGED <<tokens, bal>>
  BY <1>8 DEF TimelockVerify, Configure, MineTimelock, chain
<1>9. CASE UNCHANGED vars
  BY <1>6, <1>9 DEF vars, chain
<1> QED
  BY <1>1, <1>2, <1>3, <1>4, <1>5, <1>6, <1>7, <1>8, <1>9 DEF Next

\* However many tokens are deployed, distributed and killed on the way.
THEOREM ReleaseLosesNothing == Spec => []NothingIsLost
<1>1. Init => NothingIsLost BY DEF Init, NothingIsLost
<1> QED BY <1>1, NextLosesNothing, ReleaseInvariant, PTL DEF Spec
=============================================================================
