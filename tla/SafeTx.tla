-------------------------------- MODULE SafeTx --------------------------------
(***************************************************************************)
(* `safe-tx sign`, `execute` and `verify`: owners sign a package for one   *)
(* Safe at the Safe's nonce, signatures gather in files, an operator sends *)
(* a bundle of them to the Safe and writes a receipt.                      *)
(*                                                                         *)
(* A command is several steps: it reads the chain, asks a wallet, sends a  *)
(* transaction, waits, writes a file.  Any number of owners and operators  *)
(* run commands at the same time, and a command may be killed between any  *)
(* two steps.  A transaction that was sent stays in the pool when the      *)
(* command that sent it is gone.                                           *)
(*                                                                         *)
(* The Safe transaction hash is an injection of the transaction and the    *)
(* nonce: a transaction [package, nonce] stands for its own hash.          *)
(*                                                                         *)
(* An operator named XFault is X with one plausible mistake in it; no      *)
(* action uses it.  It serves to see that the properties notice the        *)
(* mistake.                                                                *)
(***************************************************************************)
EXTENDS Naturals, Sequences, FiniteSets

CONSTANTS
  Accounts,       \* signing accounts, owners now or after the rotation
  InitialOwners, InitialThreshold,
  Operators,      \* who runs `safe-tx execute`
  Nobody,         \* waits for what a killed command has sent
  Mortal,         \* whose commands may be killed
  Again,          \* whether owners sign again what was executed before
  Packages,       \* the calls of a package
  Sound,          \* packages of plain calls, or of the pinned MultiSend
  Rotation,       \* the package, if any, that replaces owners and threshold
  RotatedOwners, RotatedThreshold,
  MaxNonce        \* bound: the Safe executes at most this many transactions

ASSUME SafeAssumption ==
  /\ InitialOwners \subseteq Accounts /\ RotatedOwners \subseteq Accounts
  /\ IsFiniteSet(Accounts) /\ Nobody \notin Operators
  /\ {InitialThreshold, RotatedThreshold} \subseteq Nat \ {0} /\ MaxNonce \in Nat
  /\ Sound \subseteq Packages /\ Again \in BOOLEAN

VARIABLES
  log,         \* the Safe: what it executed; its nonce is how much that is
  owners, threshold,   \* the Safe's, of the moment
  pool,        \* transactions sent and not yet mined
  signatures, bundles, receipts,   \* files
  signing,     \* where the `sign` command of an account is
  executing    \* where the `execute` command of an operator is

chain == <<log, owners, threshold, pool>>
files == <<signatures, bundles, receipts>>
vars == <<chain, files, signing, executing>>

nonce == Len(log)
Waiting == {p \in Sound : \A n \in 1..nonce : log[n].package # p}

SafeTransactions == [package : Packages, nonce : 0..MaxNonce-1]
Signatures == [owner : Accounts, tx : SafeTransactions]
Bundles == [tx : SafeTransactions, signers : SUBSET Accounts]

Idle == [step |-> "idle"]

Init ==
  /\ log = <<>> /\ pool = {}
  /\ owners = InitialOwners /\ threshold = InitialThreshold
  /\ signatures = {} /\ bundles = {} /\ receipts = {}
  /\ signing = [a \in Accounts |-> Idle]
  /\ executing = [e \in Operators |-> Idle]
-----------------------------------------------------------------------------
(* safe-tx sign                                                            *)

\* The nonce is read before the wallet asks its user.
SignRead(a, p) ==
  /\ signing[a] = Idle
  /\ p \in Sound /\ a \in owners /\ nonce < MaxNonce
  /\ Again \/ p \in Waiting
  /\ signing' = [signing EXCEPT ![a] =
                   [step |-> "wallet", tx |-> [package |-> p, nonce |-> nonce]]]
  /\ UNCHANGED <<chain, files, executing>>

\* FAULT: one directory for a package, whatever the nonce.
SignatureDirFault(tx) == {s \in signatures : s.tx.package = tx.package}

\* FAULT: no signature is found there.
SignatureDirLost(tx) == {}

\* signature_dir: the files are kept by transaction hash.
SignatureDir(tx) == {s \in signatures : s.tx = tx}

\* The signature, unless it exists.
SignWrite(a) ==
  /\ signing[a].step = "wallet"
  /\ signatures' = signatures \union {[owner |-> a, tx |-> signing[a].tx]}
  /\ signing' = [signing EXCEPT ![a].step = "signed"]
  /\ UNCHANGED <<chain, bundles, receipts, executing>>

\* The bundle of all signatures there are.
BundleWrite(a) ==
  LET tx == signing[a].tx
      signers == {s.owner : s \in SignatureDir(tx)}
  IN
  /\ signing[a].step = "signed"
  /\ bundles' = bundles \union {[tx |-> tx, signers |-> signers]}
  /\ signing' = [signing EXCEPT ![a] = Idle]
  /\ UNCHANGED <<chain, signatures, receipts, executing>>
-----------------------------------------------------------------------------
(* safe-tx verify                                                          *)

NonceProvesFault(tx) == nonce > tx.nonce + 1   \* FAULT: off by one.

NonceProves(tx) == nonce > tx.nonce

\* getOwners and getThreshold of the Safe as it is now.
SignedByOwners(b) == b.signers \subseteq owners
SignedByEnough(b) == Cardinality(b.signers) >= threshold

\* validate_safe_execution_receipt: the transaction is on chain with its
\* event, and the recorded signers satisfy today's threshold of today's
\* owners.
Verifies(receipt) ==
  /\ NonceProves(receipt.tx)
  /\ log[receipt.tx.nonce + 1].package = receipt.tx.package
  /\ SignedByOwners(receipt) /\ SignedByEnough(receipt)
-----------------------------------------------------------------------------
(* safe-tx execute.  Where it raises an error without a trace, there is no *)
(* action: the nonce has passed and there is no receipt, or one that does  *)
(* not verify; the nonce is still to come; the package is not the one that *)
(* was signed.                                                             *)

ReceiptsOfFault(tx) == {r \in receipts : r.tx.package = tx.package}   \* FAULT: of any nonce.

ReceiptsOf(tx) == {r \in receipts : r.tx = tx}

AlreadyExecuted(e, b) ==
  /\ executing[e] = Idle
  /\ nonce > b.tx.nonce
  /\ \E receipt \in ReceiptsOf(b.tx) : Verifies(receipt)
  /\ executing' = [executing EXCEPT ![e] = [step |-> "already", bundle |-> b]]
  /\ UNCHANGED <<chain, files, signing>>

ExecuteRead(e, p, b) ==
  /\ executing[e] = Idle
  /\ p \in Sound /\ b.tx = [package |-> p, nonce |-> nonce]
  /\ executing' = [executing EXCEPT ![e] = [step |-> "check", bundle |-> b]]
  /\ UNCHANGED <<chain, files, signing>>

MayBeSent(b) == SignedByOwners(b) /\ SignedByEnough(b)

\* Owners and threshold are read after the nonce, one after the other.
ExecuteOwners(e) ==
  /\ executing[e].step = "check"
  /\ SignedByOwners(executing[e].bundle)
  /\ executing' = [executing EXCEPT ![e].step = "threshold"]
  /\ UNCHANGED <<chain, files, signing>>

ExecuteSend(e) ==
  /\ executing[e].step = "threshold"
  /\ SignedByEnough(executing[e].bundle)
  /\ pool' = pool \union {[by |-> e, bundle |-> executing[e].bundle]}
  /\ executing' = [executing EXCEPT ![e].step = "wait"]
  /\ UNCHANGED <<log, owners, threshold, files, signing>>

\* The end of a command: a report, or an error after one of its reads.
ExecuteEnd(e) ==
  /\ \/ executing[e].step = "already"
     \/ executing[e].step = "check" /\ ~SignedByOwners(executing[e].bundle)
     \/ executing[e].step = "threshold" /\ ~SignedByEnough(executing[e].bundle)
  /\ executing' = [executing EXCEPT ![e] = Idle]
  /\ UNCHANGED <<chain, files, signing>>

SucceededFault(status) == TRUE   \* FAULT: neither status nor event is looked at.

Succeeded(status) == status = "success"

\* What cast send returned for the transaction decides about the receipt.
WriteReceipt(e) ==
  /\ executing[e].step \in {"success", "reverted"}
  /\ receipts' = IF Succeeded(executing[e].step)
                   THEN receipts \union {executing[e].bundle} ELSE receipts
  /\ executing' = [executing EXCEPT ![e] = Idle]
  /\ UNCHANGED <<chain, signatures, bundles, signing>>
-----------------------------------------------------------------------------
(* The chain                                                               *)

SafeAccepts(b) ==
  /\ b.tx.nonce = nonce
  /\ SignedByOwners(b) /\ SignedByEnough(b)
  /\ \A a \in b.signers : [owner |-> a, tx |-> b.tx] \in signatures

\* cast send returns to the command that waits for the transaction, if that
\* is still there.
Returned(t, status) ==
  executing' = [e \in Operators |->
                  IF e = t.by THEN [executing[e] EXCEPT !.step = status] ELSE executing[e]]

MineSuccess(t) ==
  /\ SafeAccepts(t.bundle)
  /\ pool' = pool \ {t}
  /\ log' = Append(log, [package |-> t.bundle.tx.package, signers |-> t.bundle.signers])
  /\ IF t.bundle.tx.package = Rotation
       THEN owners' = RotatedOwners /\ threshold' = RotatedThreshold
       ELSE UNCHANGED <<owners, threshold>>
  /\ Returned(t, "success")
  /\ UNCHANGED <<files, signing>>

\* The Safe refuses, or the calls of the package do: the Safe passes that on
\* because safeTxGas and gasPrice are zero.
MineRevert(t) ==
  /\ pool' = pool \ {t}
  /\ Returned(t, "reverted")
  /\ UNCHANGED <<log, owners, threshold, files, signing>>
-----------------------------------------------------------------------------
KillSign(a) ==
  /\ signing[a] # Idle
  /\ signing' = [signing EXCEPT ![a] = Idle]
  /\ UNCHANGED <<chain, files, executing>>

\* What the command sent stays in the pool.
KillExecute(e) ==
  /\ executing[e] # Idle
  /\ executing' = [executing EXCEPT ![e] = Idle]
  /\ pool' = {[t EXCEPT !.by = IF @ = e THEN Nobody ELSE @] : t \in pool}
  /\ UNCHANGED <<log, owners, threshold, files, signing>>

Kill ==
  \/ \E a \in Accounts \intersect Mortal : KillSign(a)
  \/ \E e \in Operators \intersect Mortal : KillExecute(e)

ExecuteStep(e) ==
  \/ \E p \in Packages, b \in bundles : ExecuteRead(e, p, b)
  \/ \E b \in bundles : AlreadyExecuted(e, b)
  \/ ExecuteOwners(e) \/ ExecuteSend(e) \/ ExecuteEnd(e) \/ WriteReceipt(e)

Next ==
  \/ \E a \in Accounts : SignWrite(a) \/ BundleWrite(a) \/ \E p \in Packages : SignRead(a, p)
  \/ \E e \in Operators : ExecuteStep(e)
  \/ \E t \in pool : MineSuccess(t) \/ MineRevert(t)
  \/ Kill

Spec == Init /\ [][Next]_vars
-----------------------------------------------------------------------------
(* Properties                                                              *)

\* Types; and a receipt file is named after its transaction.
TypeOK ==
  /\ log \in Seq([package : Packages, signers : SUBSET Accounts])
  /\ nonce <= MaxNonce
  /\ owners \subseteq Accounts /\ threshold \in Nat \ {0}
  /\ pool \subseteq [by : Operators \union {Nobody}, bundle : Bundles]
  /\ signatures \subseteq Signatures
  /\ bundles \subseteq Bundles /\ receipts \subseteq Bundles
  /\ \A r1, r2 \in receipts : r1.tx = r2.tx => r1 = r2
  /\ signing \in [Accounts -> {Idle} \union [step : {"wallet", "signed"}, tx : SafeTransactions]]
  /\ executing \in [Operators -> {Idle} \union
       [step : {"already", "check", "threshold", "wait", "success", "reverted"},
        bundle : Bundles]]

Executed(tx) == tx.nonce < nonce /\ log[tx.nonce + 1].package = tx.package

\* A bundle holds signatures of its own transaction only, although owners
\* sign the same package at different nonces at the same time.
BundlesAreSigned ==
  \A b \in bundles, a \in Accounts :
    a \in b.signers => [owner |-> a, tx |-> b.tx] \in signatures

\* A receipt names a transaction the Safe executed and the signers it
\* executed it for, whatever was sent by whom, killed or reverted.
ReceiptsAreTrue ==
  \A r \in receipts : Executed(r.tx) /\ log[r.tx.nonce + 1].signers = r.signers

\* ALREADY_EXECUTED is said of executed transactions only.
ReportsAreTrue ==
  \A e \in Operators : executing[e].step = "already" => Executed(executing[e].bundle.tx)

\* A receipt verifies until the Safe changes its owners or its threshold, by
\* the recorded execution or a later one: the change may remove a signer or
\* ask for more of them, and `safe-tx verify` knows only the Safe of today.
ReceiptsVerify ==
  \A r \in receipts :
    (\A n \in r.tx.nonce+1 .. nonce : log[n].package # Rotation) => Verifies(r)
-----------------------------------------------------------------------------
(* Liveness                                                                *)

\* Every owner keeps signing what was not executed yet, operators keep
\* executing some of it, commands proceed, and what was sent is mined and
\* not always refused.
Bundled(a, tx) == \E b \in bundles : b.tx = tx /\ a \in b.signers

Fairness ==
  /\ \A a \in Accounts :
       /\ SF_vars(\E p \in Waiting :
                    /\ ~Bundled(a, [package |-> p, nonce |-> nonce])
                    /\ SignRead(a, p))
       /\ WF_vars(SignWrite(a) \/ BundleWrite(a))
  /\ SF_vars(\E e \in Operators, p \in Waiting, b \in bundles :
                MayBeSent(b) /\ ExecuteRead(e, p, b))
  /\ \A e \in Operators :
       WF_vars(ExecuteOwners(e) \/ ExecuteSend(e) \/ ExecuteEnd(e) \/ WriteReceipt(e))
  /\ SF_vars(\E t \in pool : t.bundle.tx.package \in Waiting /\ MineSuccess(t))
  /\ WF_vars(\E t \in pool : MineSuccess(t) \/ MineRevert(t))
FairSpec == Spec /\ Fairness

NobodyKills == <>[][~Kill]_vars

\* Every package is executed in the end, although the others take the nonce
\* it was signed for, when owners sign it until then and not afterwards.
PackagesExecute == NobodyKills /\ ~Again => <>(Waiting = {})

\* "Execution requires `ExecutionSuccess` and writes an immutable receipt"
ExecutionsAreReceipted ==
  NobodyKills =>
    \A tx \in SafeTransactions : Executed(tx) ~> \E r \in receipts : r.tx = tx
=============================================================================
