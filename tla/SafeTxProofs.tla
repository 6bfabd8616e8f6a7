----------------------------- MODULE SafeTxProofs -----------------------------
(***************************************************************************)
(* Proofs about SafeTx, for every set of accounts, packages and operators. *)
(*                                                                         *)
(* That receipts are true is not inductive: the command that writes one    *)
(* knows of the execution only through what cast send returned.            *)
(* ReturnedTruly says that it was told the truth, and that this remains so *)
(* while the Safe executes other transactions.                             *)
(***************************************************************************)
EXTENDS SafeTx, FiniteSetTheorems, SequenceTheorems, TLAPS

Entries == [package : Packages, signers : SUBSET Accounts]

\* The types of the variables, without the uniqueness of receipts.
Types ==
  /\ log \in Seq(Entries)
  /\ nonce <= MaxNonce
  /\ owners \subseteq Accounts /\ threshold \in Nat \ {0}
  /\ pool \subseteq [by : Operators \union {Nobody}, bundle : Bundles]
  /\ signatures \subseteq Signatures
  /\ bundles \subseteq Bundles /\ receipts \subseteq Bundles
  /\ signing \in [Accounts -> {Idle} \union [step : {"wallet", "signed"}, tx : SafeTransactions]]
  /\ executing \in [Operators -> {Idle} \union
       [step : {"already", "check", "threshold", "wait", "success", "reverted"}, bundle : Bundles]]

\* Who is said to wait for a transaction does.
Waits ==
  \A t \in pool :
    t.by \in Operators => executing[t.by] = [step |-> "wait", bundle |-> t.bundle]

\* What the Safe executed as this bundle.
ExecutedAs(b) == Executed(b.tx) /\ log[b.tx.nonce + 1].signers = b.signers

ReturnedTruly ==
  \A e \in Operators : executing[e].step = "success" => ExecutedAs(executing[e].bundle)

LEMMA InitTypes == Init => Types /\ Waits
  BY SafeAssumption DEF Init, Types, Waits, nonce, Entries, Idle

LEMMA SignTypes ==
  ASSUME Types, NEW a \in Accounts,
         SignWrite(a) \/ BundleWrite(a) \/ (\E p \in Packages : SignRead(a, p)) \/ KillSign(a)
  PROVE  Types'
<1>1. ASSUME NEW p \in Packages, SignRead(a, p) PROVE Types'
  <2>1. [package |-> p, nonce |-> nonce] \in SafeTransactions
    BY <1>1, SafeAssumption DEF SignRead, SafeTransactions, nonce, Types, Entries
  <2> QED BY <1>1, <2>1 DEF SignRead, Types, chain, files, nonce
<1>2. CASE SignWrite(a)
  <2>1. signing[a] \in [step : {"wallet"}, tx : SafeTransactions]
    BY <1>2 DEF SignWrite, Types, Idle
  <2> QED BY <1>2, <2>1 DEF SignWrite, Types, chain, nonce, Signatures
<1>3. CASE BundleWrite(a)
  <2>1. signing[a].tx \in SafeTransactions
    BY <1>3 DEF BundleWrite, Types, Idle
  <2>2. {s.owner : s \in SignatureDir(signing[a].tx)} \subseteq Accounts
    BY DEF Types, SignatureDir, Signatures
  <2> QED BY <1>3, <2>1, <2>2 DEF BundleWrite, Types, chain, nonce, Bundles
<1>4. CASE KillSign(a)
  BY <1>4 DEF KillSign, Types, chain, files, nonce
<1> QED BY <1>1, <1>2, <1>3, <1>4

LEMMA ExecuteTypes ==
  ASSUME Types, NEW e \in Operators, ExecuteStep(e) \/ KillExecute(e)
  PROVE  Types'
<1>1. ASSUME NEW p \in Packages, NEW b \in bundles, ExecuteRead(e, p, b) PROVE Types'
  BY <1>1 DEF ExecuteRead, Types, chain, files, nonce
<1>2. ASSUME NEW b \in bundles, AlreadyExecuted(e, b) PROVE Types'
  BY <1>2 DEF AlreadyExecuted, Types, chain, files, nonce
<1>3. CASE ExecuteSend(e)
  <2>1. executing[e] \in [step : {"threshold"}, bundle : Bundles]
    BY <1>3 DEF ExecuteSend, Types, Idle
  <2> QED BY <1>3, <2>1 DEF ExecuteSend, Types, files, nonce
<1>7. CASE ExecuteOwners(e)
  <2>1. executing[e] \in [step : {"check"}, bundle : Bundles]
    BY <1>7 DEF ExecuteOwners, Types, Idle
  <2> QED BY <1>7, <2>1 DEF ExecuteOwners, Types, chain, files, nonce
<1>4. CASE ExecuteEnd(e)
  BY <1>4 DEF ExecuteEnd, Types, chain, files, nonce
<1>5. CASE WriteReceipt(e)
  <2>1. executing[e].bundle \in Bundles
    BY <1>5 DEF WriteReceipt, Types, Idle
  <2> QED BY <1>5, <2>1 DEF WriteReceipt, Types, chain, nonce
<1>6. CASE KillExecute(e)
  <2>1. pool' \subseteq [by : Operators \union {Nobody}, bundle : Bundles]
    BY <1>6 DEF KillExecute, Types
  <2> QED BY <1>6, <2>1 DEF KillExecute, Types, files, nonce
<1> QED BY <1>1, <1>2, <1>3, <1>4, <1>5, <1>6, <1>7 DEF ExecuteStep

LEMMA ReturnedTypes ==
  ASSUME Types, Waits, NEW t \in pool, NEW status \in {"success", "reverted"},
         Returned(t, status)
  PROVE  executing' \in [Operators -> {Idle} \union
           [step : {"already", "check", "threshold", "wait", "success", "reverted"}, bundle : Bundles]]
<1> SUFFICES ASSUME NEW e \in Operators, e = t.by
             PROVE  [executing[e] EXCEPT !.step = status] \in
                      [step : {"success", "reverted"}, bundle : Bundles]
  BY DEF Types, Returned
<1>1. executing[e] = [step |-> "wait", bundle |-> t.bundle]
  BY DEF Waits
<1> QED BY <1>1 DEF Types

\* cast send returns to the one command that waits for the transaction.
LEMMA ReturnedValue ==
  ASSUME Types, Waits, NEW t \in pool, NEW status \in {"success", "reverted"},
         Returned(t, status), NEW e \in Operators, executing'[e] # executing[e]
  PROVE  executing'[e] = [step |-> status, bundle |-> t.bundle]
<1>1. e = t.by /\ executing'[e] = [executing[e] EXCEPT !.step = status]
  BY DEF Returned
<1>2. executing[e] = [step |-> "wait", bundle |-> t.bundle]
  BY <1>1 DEF Waits
<1> QED BY <1>1, <1>2

LEMMA MineTypes ==
  ASSUME Types, Waits, NEW t \in pool, MineSuccess(t) \/ MineRevert(t)
  PROVE  Types'
<1>1. CASE MineRevert(t)
  <2>1. executing' \in [Operators -> {Idle} \union
          [step : {"already", "check", "threshold", "wait", "success", "reverted"}, bundle : Bundles]]
    BY <1>1, ReturnedTypes DEF MineRevert
  <2> QED BY <1>1, <2>1 DEF MineRevert, Types, files, nonce
<1>2. CASE MineSuccess(t)
  <2>1. executing' \in [Operators -> {Idle} \union
          [step : {"already", "check", "threshold", "wait", "success", "reverted"}, bundle : Bundles]]
    BY <1>2, ReturnedTypes DEF MineSuccess
  <2>2. t.bundle \in Bundles /\ t.bundle.tx.nonce = nonce
    BY <1>2 DEF MineSuccess, SafeAccepts, Types
  <2>3. log' \in Seq(Entries) /\ nonce' = nonce + 1
    BY <1>2, <2>2 DEF MineSuccess, Types, Entries, Bundles, SafeTransactions, nonce
  <2>4. nonce' <= MaxNonce
    BY <2>2, <2>3, SafeAssumption DEF Bundles, SafeTransactions, nonce
  <2>5. owners' \subseteq Accounts /\ threshold' \in Nat \ {0}
    BY <1>2, SafeAssumption DEF MineSuccess, Types
  <2> QED BY <1>2, <2>1, <2>3, <2>4, <2>5 DEF MineSuccess, Types, files
<1> QED BY <1>1, <1>2

LEMMA ExecuteWaits ==
  ASSUME Types, Waits, NEW e \in Operators, ExecuteStep(e) \/ KillExecute(e)
  PROVE  Waits'
<1> SUFFICES ASSUME NEW t \in pool', t.by \in Operators
             PROVE  executing'[t.by] = [step |-> "wait", bundle |-> t.bundle]
  BY DEF Waits
<1>1. CASE KillExecute(e)
  <2>1. PICK u \in pool : t = [u EXCEPT !.by = IF @ = e THEN Nobody ELSE @]
    BY <1>1 DEF KillExecute
  <2>2. u.by # e /\ t = u
    BY <2>1, SafeAssumption DEF Types
  <2> QED BY <1>1, <2>2 DEF KillExecute, Types, Waits
<1>2. CASE ExecuteSend(e)
  <2>1. executing[e].step # "wait"
    BY <1>2 DEF ExecuteSend
  <2>2. CASE t \in pool
    BY <1>2, <2>1, <2>2 DEF ExecuteSend, Types, Waits
  <2>3. CASE t \notin pool
    <3>1. t.by = e /\ t.bundle = executing[e].bundle
      BY <1>2, <2>3 DEF ExecuteSend
    <3>2. executing[e] \in [step : {"threshold"}, bundle : Bundles]
      BY <1>2 DEF ExecuteSend, Types, Idle
    <3> QED BY <1>2, <3>1, <3>2 DEF ExecuteSend, Types
  <2> QED BY <2>2, <2>3
<1>3. CASE ExecuteStep(e) /\ ~ExecuteSend(e)
  <2>1. pool' = pool /\ executing[e].step # "wait"
    <3>1. Idle.step # "wait"
      BY DEF Idle
    <3>2. ASSUME NEW b \in bundles, AlreadyExecuted(e, b) \/ \E p \in Packages : ExecuteRead(e, p, b)
          PROVE  pool' = pool /\ executing[e] = Idle
      BY <3>2 DEF AlreadyExecuted, ExecuteRead, chain
    <3>3. CASE ExecuteOwners(e) \/ ExecuteEnd(e) \/ WriteReceipt(e)
      BY <3>3 DEF ExecuteOwners, ExecuteEnd, WriteReceipt, chain
    <3> QED BY <1>3, <3>1, <3>2, <3>3 DEF ExecuteStep
  <2>2. ASSUME NEW f \in Operators \ {e} PROVE executing'[f] = executing[f]
    BY <1>3 DEF ExecuteStep, ExecuteRead, AlreadyExecuted, ExecuteOwners, ExecuteEnd, WriteReceipt, Types
  <2>3. t \in pool /\ executing[t.by] = [step |-> "wait", bundle |-> t.bundle]
    BY <2>1 DEF Waits
  <2>4. executing[t.by].step = "wait"
    BY <2>3
  <2>5. t.by # e
    BY <2>1, <2>4
  <2> QED BY <2>2, <2>3, <2>5
<1> QED BY <1>1, <1>2, <1>3

LEMMA MineWaits ==
  ASSUME Types, Waits, NEW t \in pool, MineSuccess(t) \/ MineRevert(t)
  PROVE  Waits'
<1> SUFFICES ASSUME NEW u \in pool', u.by \in Operators
             PROVE  executing'[u.by] = [step |-> "wait", bundle |-> u.bundle]
  BY DEF Waits
<1>1. u \in pool /\ u # t
  BY DEF MineSuccess, MineRevert
<1>2. u.by # t.by
  <2> SUFFICES ASSUME u.by = t.by PROVE u = t
    BY <1>1
  <2>1. /\ executing[u.by] = [step |-> "wait", bundle |-> u.bundle]
        /\ executing[u.by] = [step |-> "wait", bundle |-> t.bundle]
    BY <1>1 DEF Waits
  <2>2. u.bundle = t.bundle
    BY <2>1
  <2>3. u \in [by : Operators \union {Nobody}, bundle : Bundles]
        /\ t \in [by : Operators \union {Nobody}, bundle : Bundles]
    BY <1>1 DEF Types
  <2> QED BY <2>2, <2>3
<1>3. executing'[u.by] = executing[u.by]
  BY <1>2 DEF MineSuccess, MineRevert, Returned
<1> QED BY <1>1, <1>3 DEF Waits

LEMMA NextTypes == Types /\ Waits /\ [Next]_vars => Types' /\ Waits'
<1> SUFFICES ASSUME Types, Waits, [Next]_vars PROVE Types' /\ Waits'
  OBVIOUS
<1>1. CASE UNCHANGED vars
  BY <1>1 DEF vars, chain, files, Types, Waits, nonce
<1>2. ASSUME NEW a \in Accounts,
             SignWrite(a) \/ BundleWrite(a) \/ (\E p \in Packages : SignRead(a, p)) \/ KillSign(a)
      PROVE  Types' /\ Waits'
  <2>1. Waits'
    BY <1>2 DEF SignWrite, BundleWrite, SignRead, KillSign, Waits, chain
  <2> QED BY <1>2, <2>1, SignTypes
<1>3. ASSUME NEW e \in Operators, ExecuteStep(e) \/ KillExecute(e) PROVE Types' /\ Waits'
  BY <1>3, ExecuteTypes, ExecuteWaits
<1>4. ASSUME NEW t \in pool, MineSuccess(t) \/ MineRevert(t) PROVE Types' /\ Waits'
  BY <1>4, MineTypes, MineWaits
<1> QED BY <1>1, <1>2, <1>3, <1>4 DEF Next, Kill
-----------------------------------------------------------------------------
\* The signatures in a bundle are all over its own transaction.
THEOREM SafeTxBundlesAreSigned == Spec => []BundlesAreSigned
<1>1. Init => BundlesAreSigned
  BY DEF Init, BundlesAreSigned
<1>2. Types /\ BundlesAreSigned /\ [Next]_vars => BundlesAreSigned'
  <2> SUFFICES ASSUME Types, BundlesAreSigned, [Next]_vars,
                      NEW b \in bundles', NEW a \in Accounts, a \in b.signers
               PROVE  [owner |-> a, tx |-> b.tx] \in signatures'
    BY DEF BundlesAreSigned
  <2>1. signatures \subseteq signatures'
    BY DEF Next, Kill, ExecuteStep, SignRead, SignWrite, BundleWrite, KillSign, KillExecute,
           ExecuteRead, AlreadyExecuted, ExecuteOwners, ExecuteSend, ExecuteEnd, WriteReceipt, MineSuccess,
           MineRevert, vars, files
  <2>2. CASE b \in bundles
    BY <2>1, <2>2 DEF BundlesAreSigned
  <2>3. CASE b \notin bundles
    <3>1. PICK c \in Accounts : BundleWrite(c)
      BY <2>3 DEF Next, Kill, ExecuteStep, SignRead, SignWrite, KillSign, KillExecute,
                  ExecuteRead, AlreadyExecuted, ExecuteOwners, ExecuteSend, ExecuteEnd, WriteReceipt,
                  MineSuccess, MineRevert, vars, files
    <3> DEFINE tx == signing[c].tx
    <3>2. b = [tx |-> tx, signers |-> {s.owner : s \in SignatureDir(tx)}]
      BY <3>1, <2>3 DEF BundleWrite
    <3>3. PICK s \in SignatureDir(tx) : s.owner = a
      BY <3>2
    <3>4. s \in signatures /\ s = [owner |-> a, tx |-> tx]
      BY <3>3 DEF SignatureDir, Types, Signatures
    <3> QED BY <2>1, <3>2, <3>4
  <2> QED BY <2>2, <2>3
<1> QED BY <1>1, <1>2, InitTypes, NextTypes, PTL DEF Spec
-----------------------------------------------------------------------------
\* The Safe's history only grows.
LEMMA ExecutedStays ==
  ASSUME Types, [Next]_vars, NEW b \in Bundles, ExecutedAs(b)
  PROVE  ExecutedAs(b)'
<1>1. CASE log' = log
  BY <1>1 DEF ExecutedAs, Executed, nonce
<1>2. ASSUME NEW t \in pool, MineSuccess(t) PROVE ExecutedAs(b)'
  <2>1. log' = Append(log, [package |-> t.bundle.tx.package, signers |-> t.bundle.signers])
    BY <1>2 DEF MineSuccess
  <2>2. b.tx.nonce \in Nat /\ b.tx.nonce + 1 \in 1..Len(log)
    BY SafeAssumption DEF ExecutedAs, Executed, Bundles, SafeTransactions, nonce, Types
  <2>3. Len(log') = Len(log) + 1 /\ log'[b.tx.nonce + 1] = log[b.tx.nonce + 1]
    BY <2>1, <2>2 DEF Types
  <2> QED BY <2>2, <2>3 DEF ExecutedAs, Executed, nonce, Types
<1>3. CASE ~ \E t \in pool : MineSuccess(t)
  <2>1. log' = log
    BY <1>3 DEF Next, Kill, ExecuteStep, SignRead, SignWrite, BundleWrite, KillSign, KillExecute, ExecuteRead,
                AlreadyExecuted, ExecuteOwners, ExecuteSend, ExecuteEnd, WriteReceipt, MineRevert,
                vars, chain
  <2> QED BY <1>1, <2>1
<1> QED BY <1>2, <1>3

\* What is mined successfully is in the history afterwards.
LEMMA MinedIsExecuted ==
  ASSUME Types, NEW t \in pool, MineSuccess(t)
  PROVE  ExecutedAs(t.bundle)'
<1>1. t.bundle.tx.nonce = Len(log)
  BY DEF MineSuccess, SafeAccepts, nonce
<1>2. log' = Append(log, [package |-> t.bundle.tx.package, signers |-> t.bundle.signers])
  BY DEF MineSuccess
<1>3. Len(log') = Len(log) + 1
      /\ log'[Len(log) + 1] = [package |-> t.bundle.tx.package, signers |-> t.bundle.signers]
  BY <1>2 DEF Types
<1> QED BY <1>1, <1>3 DEF ExecutedAs, Executed, nonce, Types

\* Only a mined transaction makes a command see a success.
LEMMA SuccessComesFrom ==
  ASSUME Types, Waits, [Next]_vars, NEW e \in Operators,
         executing'[e] # executing[e], executing'[e].step = "success"
  PROVE  \E t \in pool : MineSuccess(t) /\ executing'[e].bundle = t.bundle
<1>1. CASE UNCHANGED vars
  BY <1>1 DEF vars
<1>2. ASSUME NEW a \in Accounts,
             SignWrite(a) \/ BundleWrite(a) \/ (\E p \in Packages : SignRead(a, p)) \/ KillSign(a)
      PROVE  executing' = executing
  BY <1>2 DEF SignWrite, BundleWrite, SignRead, KillSign
<1>3. ASSUME NEW t \in pool, MineSuccess(t)
      PROVE  executing'[e].bundle = t.bundle
  <2>1. Returned(t, "success")
    BY <1>3 DEF MineSuccess
  <2>2. executing'[e] = [step |-> "success", bundle |-> t.bundle]
    BY <2>1, ReturnedValue
  <2> QED BY <2>2
<1>4. ASSUME NEW t \in pool, MineRevert(t)
      PROVE  FALSE
  <2>1. Returned(t, "reverted")
    BY <1>4 DEF MineRevert
  <2>2. executing'[e] = [step |-> "reverted", bundle |-> t.bundle]
    BY <2>1, ReturnedValue
  <2> QED BY <2>2
<1>5. ASSUME NEW f \in Operators, ExecuteStep(f) \/ KillExecute(f)
      PROVE  FALSE
  <2>1. f = e
    BY <1>5 DEF ExecuteStep, KillExecute, ExecuteRead, AlreadyExecuted, ExecuteOwners, ExecuteSend, ExecuteEnd,
                WriteReceipt, Types
  <2>2. ASSUME NEW b \in bundles, AlreadyExecuted(e, b) PROVE FALSE
    BY <2>2 DEF AlreadyExecuted, Types
  <2>6. ASSUME NEW b \in bundles, NEW p \in Packages, ExecuteRead(e, p, b) PROVE FALSE
    BY <2>6 DEF ExecuteRead, Types
  <2>3. CASE ExecuteOwners(e) \/ ExecuteSend(e)
    BY <2>3 DEF ExecuteOwners, ExecuteSend, Types, Idle
  <2>4. CASE ExecuteEnd(e) \/ WriteReceipt(e) \/ KillExecute(e)
    <3>1. executing'[e] = Idle
      BY <2>1, <2>4 DEF ExecuteEnd, WriteReceipt, KillExecute, Types
    <3>2. Idle.step = "idle"
      BY DEF Idle
    <3> QED BY <3>1, <3>2
  <2>5. ExecuteStep(e) \/ KillExecute(e)
    BY <1>5, <2>1
  <2> QED BY <2>2, <2>3, <2>4, <2>5, <2>6 DEF ExecuteStep
<1> QED BY <1>1, <1>2, <1>3, <1>4, <1>5 DEF Next, Kill

LEMMA ReturnedStays == Types /\ Waits /\ ReturnedTruly /\ [Next]_vars => ReturnedTruly'
<1> SUFFICES ASSUME Types, Waits, ReturnedTruly, [Next]_vars, NEW e \in Operators,
                    (executing[e].step = "success")'
             PROVE  ExecutedAs(executing[e].bundle)'
  BY DEF ReturnedTruly
<1>1. CASE executing'[e] = executing[e]
  <2>1. PICK b \in Bundles : b = executing[e].bundle
    BY <1>1 DEF Types, Idle
  <2>2. ExecutedAs(b)'
    BY <1>1, <2>1, ExecutedStays DEF ReturnedTruly
  <2> QED BY <1>1, <2>1, <2>2 DEF ExecutedAs, Executed
<1>2. CASE executing'[e] # executing[e]
  <2>1. PICK t \in pool : MineSuccess(t) /\ executing'[e].bundle = t.bundle
    BY <1>2, SuccessComesFrom
  <2>2. ExecutedAs(t.bundle)'
    BY <2>1, MinedIsExecuted
  <2> QED BY <2>1, <2>2 DEF ExecutedAs, Executed
<1> QED BY <1>1, <1>2

LEMMA ReceiptsStay ==
  Types /\ ReturnedTruly /\ ReceiptsAreTrue /\ [Next]_vars => ReceiptsAreTrue'
<1> SUFFICES ASSUME Types, ReturnedTruly, ReceiptsAreTrue, [Next]_vars, NEW r \in receipts'
             PROVE  ExecutedAs(r)'
  BY DEF ReceiptsAreTrue, ExecutedAs
<1>1. CASE r \in receipts
  BY <1>1, ExecutedStays DEF ReceiptsAreTrue, ExecutedAs, Types
<1>2. CASE r \notin receipts
  <2>1. PICK e \in Operators : WriteReceipt(e) /\ Succeeded(executing[e].step)
    BY <1>2 DEF Next, Kill, ExecuteStep, SignRead, SignWrite, BundleWrite, KillSign, KillExecute, ExecuteRead,
                AlreadyExecuted, ExecuteOwners, ExecuteSend, ExecuteEnd, WriteReceipt, MineSuccess, MineRevert,
                vars, files
  <2>2. r = executing[e].bundle /\ r \in Bundles
    BY <1>2, <2>1 DEF WriteReceipt, Types, Idle
  <2>3. ExecutedAs(r)
    BY <2>1, <2>2 DEF ReturnedTruly, Succeeded
  <2> QED BY <2>2, <2>3, ExecutedStays
<1> QED BY <1>1, <1>2

IInv == Types /\ Waits /\ ReturnedTruly /\ ReceiptsAreTrue

LEMMA InvariantHolds == Spec => []IInv
<1>1. Init => IInv
  BY InitTypes DEF Init, IInv, ReturnedTruly, ReceiptsAreTrue, Idle
<1>2. IInv /\ [Next]_vars => IInv'
  BY NextTypes, ReturnedStays, ReceiptsStay DEF IInv
<1> QED BY <1>1, <1>2, PTL DEF Spec

\* A receipt names a transaction the Safe executed and the signers it
\* executed it for.
THEOREM SafeTxReceiptsAreTrue == Spec => []ReceiptsAreTrue
<1>1. IInv => ReceiptsAreTrue
  BY DEF IInv
<1> QED BY <1>1, InvariantHolds, PTL

\* The files and commands keep their types, and no transaction has two
\* receipts.
THEOREM SafeTxTypes == Spec => []TypeOK
<1>1. IInv => TypeOK
  <2> SUFFICES ASSUME IInv PROVE \A r1, r2 \in receipts : r1.tx = r2.tx => r1 = r2
    BY DEF IInv, Types, TypeOK, Entries
  <2> QED BY DEF IInv, Types, ReceiptsAreTrue, Bundles
<1> QED BY <1>1, InvariantHolds, PTL
-----------------------------------------------------------------------------
LEMMA ExecutedTxStays ==
  ASSUME Types, [Next]_vars, NEW tx \in SafeTransactions, Executed(tx)
  PROVE  Executed(tx)'
<1>1. tx.nonce + 1 \in 1..Len(log)
  BY SafeAssumption DEF Executed, nonce, SafeTransactions, Types
<1>2. log[tx.nonce + 1] \in Entries
  BY <1>1 DEF Types
<1>3. PICK d \in Bundles : d = [tx |-> tx, signers |-> log[tx.nonce + 1].signers]
  BY <1>2 DEF Bundles, Entries
<1>4. ExecutedAs(d)
  BY <1>3 DEF ExecutedAs
<1> QED BY <1>3, <1>4, ExecutedStays DEF ExecutedAs

\* Only AlreadyExecuted makes a command report that.
LEMMA ReportsComeFrom ==
  ASSUME Types, Waits, [Next]_vars, NEW e \in Operators,
         executing'[e] # executing[e], executing'[e].step = "already"
  PROVE  \E b \in bundles : AlreadyExecuted(e, b)
<1>1. CASE UNCHANGED vars
  BY <1>1 DEF vars
<1>2. ASSUME NEW a \in Accounts,
             SignWrite(a) \/ BundleWrite(a) \/ (\E p \in Packages : SignRead(a, p)) \/ KillSign(a)
      PROVE  executing' = executing
  BY <1>2 DEF SignWrite, BundleWrite, SignRead, KillSign
<1>3. ASSUME NEW t \in pool, MineSuccess(t) \/ MineRevert(t)
      PROVE  FALSE
  <2>1. PICK status \in {"success", "reverted"} : Returned(t, status)
    BY <1>3 DEF MineSuccess, MineRevert
  <2>2. executing'[e] = [step |-> status, bundle |-> t.bundle]
    BY <2>1, ReturnedValue
  <2> QED BY <2>2
<1>4. ASSUME NEW f \in Operators, ExecuteStep(f) \/ KillExecute(f)
      PROVE  \E b \in bundles : AlreadyExecuted(e, b)
  <2>1. f = e
    BY <1>4 DEF ExecuteStep, KillExecute, ExecuteRead, AlreadyExecuted, ExecuteOwners, ExecuteSend, ExecuteEnd,
                WriteReceipt, Types
  <2>2. CASE \E p \in Packages, b \in bundles : ExecuteRead(e, p, b)
    BY <2>2 DEF ExecuteRead, Types
  <2>3. CASE ExecuteOwners(e) \/ ExecuteSend(e) \/ ExecuteEnd(e) \/ WriteReceipt(e) \/ KillExecute(e)
    BY <2>3 DEF ExecuteOwners, ExecuteSend, ExecuteEnd, WriteReceipt, KillExecute, Types, Idle
  <2> QED BY <1>4, <2>1, <2>2, <2>3 DEF ExecuteStep
<1> QED BY <1>1, <1>2, <1>3, <1>4 DEF Next, Kill

\* ALREADY_EXECUTED is said of executed transactions only.
THEOREM SafeTxReportsAreTrue == Spec => []ReportsAreTrue
<1>1. Init => ReportsAreTrue
  BY DEF Init, ReportsAreTrue, Idle
<1>2. Types /\ Waits /\ ReportsAreTrue /\ [Next]_vars => ReportsAreTrue'
  <2> SUFFICES ASSUME Types, Waits, ReportsAreTrue, [Next]_vars, NEW e \in Operators,
                      executing'[e].step = "already"
               PROVE  Executed(executing[e].bundle.tx)'
    BY DEF ReportsAreTrue
  <2>1. CASE executing'[e] = executing[e]
    <3>1. executing[e].bundle \in Bundles
      BY <2>1 DEF Types, Idle
    <3>2. PICK tx \in SafeTransactions : tx = executing[e].bundle.tx
      BY <3>1 DEF Bundles
    <3>3. Executed(tx)
      BY <2>1, <3>2 DEF ReportsAreTrue
    <3>4. Executed(tx)'
      BY <3>3, ExecutedTxStays
    <3> QED BY <2>1, <3>2, <3>4 DEF Executed
  <2>2. CASE executing'[e] # executing[e]
    <3>1. PICK c \in bundles : AlreadyExecuted(e, c)
      BY <2>2, ReportsComeFrom
    <3>2. executing'[e].bundle = c /\ c.tx \in SafeTransactions
      BY <3>1 DEF AlreadyExecuted, Types, Bundles
    <3>3. PICK receipt \in ReceiptsOf(c.tx) : Verifies(receipt)
      BY <3>1 DEF AlreadyExecuted
    <3>4. Executed(c.tx)
      BY <3>3 DEF ReceiptsOf, Verifies, NonceProves, Executed
    <3>5. Executed(c.tx)'
      BY <3>2, <3>4, ExecutedTxStays
    <3> QED BY <3>2, <3>5 DEF Executed
  <2> QED BY <2>1, <2>2
<1> QED BY <1>1, <1>2, InitTypes, NextTypes, PTL DEF Spec
-----------------------------------------------------------------------------
\* Who signed an execution still satisfies the Safe, if neither that execution
\* nor a later one changed owners and threshold.
UnchangedSince(m) == \A n \in m..Len(log) : log[n].package # Rotation

StillSatisfied ==
  \A m \in 1..Len(log) :
    UnchangedSince(m) => SignedByOwners(log[m]) /\ SignedByEnough(log[m])

LEMMA SatisfiedStay == Types /\ StillSatisfied /\ [Next]_vars => StillSatisfied'
<1> SUFFICES ASSUME Types, StillSatisfied, [Next]_vars PROVE StillSatisfied'
  OBVIOUS
<1>1. ASSUME NEW t \in pool, MineSuccess(t) PROVE StillSatisfied'
  <2> DEFINE entry == [package |-> t.bundle.tx.package, signers |-> t.bundle.signers]
  <2>1. Len(log') = Len(log) + 1 /\ Len(log) \in Nat
        /\ log'[Len(log) + 1] = entry
        /\ \A n \in 1..Len(log) : log'[n] = log[n]
    BY <1>1 DEF MineSuccess, Types
  <2> SUFFICES ASSUME NEW m \in 1..Len(log'), UnchangedSince(m)'
               PROVE  log'[m].signers \subseteq owners' /\ Cardinality(log'[m].signers) >= threshold'
    BY DEF StillSatisfied, SignedByOwners, SignedByEnough
  <2>2. entry.package # Rotation
    BY <2>1 DEF UnchangedSince
  <2>3. owners' = owners /\ threshold' = threshold
    BY <1>1, <2>2 DEF MineSuccess
  <2>4. CASE m = Len(log) + 1
    <3>1. entry.signers \subseteq owners /\ Cardinality(entry.signers) >= threshold
      BY <1>1 DEF MineSuccess, SafeAccepts, SignedByOwners, SignedByEnough
    <3> QED BY <2>1, <2>3, <2>4, <3>1
  <2>5. CASE m # Len(log) + 1
    <3>1. m \in 1..Len(log)
      BY <2>1, <2>5
    <3>2. UnchangedSince(m)
      BY <2>1, <3>1 DEF UnchangedSince
    <3> QED BY <2>1, <2>3, <3>1, <3>2 DEF StillSatisfied, SignedByOwners, SignedByEnough
  <2> QED BY <2>4, <2>5
<1>2. CASE ~ \E t \in pool : MineSuccess(t)
  <2>1. log' = log /\ owners' = owners /\ threshold' = threshold
    BY <1>2 DEF Next, Kill, ExecuteStep, SignRead, SignWrite, BundleWrite, KillSign, KillExecute, ExecuteRead,
                AlreadyExecuted, ExecuteOwners, ExecuteSend, ExecuteEnd, WriteReceipt, MineRevert,
                vars, chain
  <2> QED BY <2>1 DEF StillSatisfied, UnchangedSince, SignedByOwners, SignedByEnough
<1> QED BY <1>1, <1>2

\* A receipt verifies until owners or threshold are changed: it names an
\* execution, and who signed that satisfied the Safe of then.
THEOREM SafeTxReceiptsVerify == Spec => []ReceiptsVerify
<1>1. Init => StillSatisfied
  BY DEF Init, StillSatisfied
<1>2. IInv /\ StillSatisfied /\ [Next]_vars => StillSatisfied'
  BY SatisfiedStay DEF IInv
<1>3. IInv /\ StillSatisfied => ReceiptsVerify
  <2> SUFFICES ASSUME IInv, StillSatisfied, NEW r \in receipts,
                      \A n \in r.tx.nonce+1 .. nonce : log[n].package # Rotation
               PROVE  Verifies(r)
    BY DEF ReceiptsVerify
  <2>1. Executed(r.tx) /\ log[r.tx.nonce + 1].signers = r.signers
    BY DEF IInv, ReceiptsAreTrue
  <2>2. r.tx.nonce + 1 \in 1..Len(log)
    BY <2>1, SafeAssumption DEF IInv, Types, Bundles, SafeTransactions, Executed, nonce
  <2>3. UnchangedSince(r.tx.nonce + 1)
    BY DEF UnchangedSince, nonce
  <2>4. SignedByOwners(r) /\ SignedByEnough(r)
    BY <2>1, <2>2, <2>3 DEF StillSatisfied, SignedByOwners, SignedByEnough
  <2>5. NonceProves(r.tx)
    BY <2>1, <2>2, SafeAssumption DEF Executed, NonceProves, nonce, IInv, Types, Bundles, SafeTransactions
  <2> QED BY <2>1, <2>4, <2>5 DEF Verifies, Executed
<1> QED BY <1>1, <1>2, <1>3, InvariantHolds, PTL DEF Spec
=============================================================================
