--------------------------- MODULE MigrationClaims ---------------------------
(***************************************************************************)
(* What the migration promises a holder, with no mention of roles, tokens, *)
(* allowances or signatures.  A book of claims is written while it is      *)
(* open, closed once, and from then on each claim is settled at most once, *)
(* by taking the claimed V1 into escrow and paying Scale times as much V2  *)
(* out of the reserve.  Nothing else ever leaves the escrow or the         *)
(* reserve.  BiniMigrationVault implements this specification: module      *)
(* MigrationVault checks it and MigrationVaultProofs proves it.            *)
(***************************************************************************)
EXTENDS Integers, Functions

CONSTANTS
  Claimants,   \* who may hold a claim
  Scale        \* V2 raw units paid for one V1 raw unit

VARIABLES
  claim,       \* V1 amount each claimant may exchange, 0 when there is none
  closed,      \* the book is closed: no claim is added or changed
  settled,     \* claimants whose claim has been exchanged
  escrow,      \* V1 held against settled claims (and stray deposits)
  reserve      \* V2 held for claims not settled yet (and stray deposits)

claimVars == <<claim, closed, settled, escrow, reserve>>

Init ==
  /\ claim = [c \in Claimants |-> 0]
  /\ closed = FALSE
  /\ settled = {}
  /\ escrow = 0
  /\ reserve = 0

\* Claims are only ever added, and only for claimants who have none.
Enter ==
  /\ ~closed
  /\ \E new \in SUBSET Claimants :
       /\ \A c \in new : claim[c] = 0
       /\ claim' \in [Claimants -> Nat]
       /\ \A c \in Claimants : claim'[c] # claim[c] <=> c \in new
  /\ UNCHANGED <<closed, settled, escrow, reserve>>

\* The book is closed over a reserve that covers every claim in it.
Close ==
  /\ ~closed
  /\ reserve >= Scale * SumFunction(claim)
  /\ closed' = TRUE
  /\ UNCHANGED <<claim, settled, escrow, reserve>>

\* One claim, once, at the fixed rate, out of a reserve that covers it.
Settle(c) ==
  /\ closed
  /\ claim[c] # 0
  /\ c \notin settled
  /\ reserve >= Scale * claim[c]
  /\ settled' = settled \union {c}
  /\ escrow' = escrow + claim[c]
  /\ reserve' = reserve - Scale * claim[c]
  /\ UNCHANGED <<claim, closed>>

\* Anybody may send tokens to the vault; nobody gets them back.
Deposit ==
  /\ escrow' >= escrow
  /\ reserve' >= reserve
  /\ UNCHANGED <<claim, closed, settled>>

Next ==
  \/ Enter
  \/ Close
  \/ \E c \in Claimants : Settle(c)
  \/ Deposit

ClaimsSpec == Init /\ [][Next]_claimVars
-----------------------------------------------------------------------------
\* What is still owed to each claimant, in V1.
Owed == [c \in Claimants |-> IF c \in settled THEN 0 ELSE claim[c]]

\* Once the book is closed, the reserve covers all that is owed together: a
\* claimant who comes last finds as much as the one who came first.
EveryClaimIsCovered == closed => reserve >= Scale * SumFunction(Owed)
=============================================================================
