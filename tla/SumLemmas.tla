------------------------------ MODULE SumLemmas ------------------------------
(***************************************************************************)
(* What SumFunctionOnSet does for finite sets of any size.  The operator   *)
(* is a CHOOSE of a recursive function that takes the elements in an order *)
(* of its own, so the rules a proof needs (empty set, one element more,    *)
(* disjoint parts, other names) have to be proved of it, by induction over *)
(* the subsets of the set.  The induction is a statement about a set of    *)
(* sets rather than about a predicate: the library's induction theorems    *)
(* take the predicate as a parameter, this one takes the set of those      *)
(* subsets that satisfy it.                                                *)
(***************************************************************************)
EXTENDS Integers, FiniteSets, Sequences, SequencesExt, FiniteSetTheorems, TLAPS

\* A non-empty set of finite sets has a member that contains no other.
LEMMA MinimalSubset ==
  ASSUME NEW S, IsFiniteSet(S), NEW Z, Z \subseteq SUBSET S, Z # {}
  PROVE  \E T \in Z : \A U \in Z : ~ (U \subseteq T /\ U # T)
  <1>1. IsWellFoundedOn(StrictSubsetOrdering(S), SUBSET S)
    BY FS_StrictSubsetOrderingWellFounded, FS_FiniteSubsetsOfFinite
  <1>2. \E T \in Z : \A U \in Z : ~ (<<U, T>> \in StrictSubsetOrdering(S))
    BY <1>1, WFMin
  <1>3. \A T, U \in Z : U \subseteq T /\ U # T => <<U, T>> \in StrictSubsetOrdering(S)
    BY DEF StrictSubsetOrdering
  <1>4. QED
    BY <1>2, <1>3

\* Induction over the subsets of a finite set, for the set Z of those that
\* have the property.
LEMMA SubsetInduction ==
  ASSUME NEW S, IsFiniteSet(S), NEW Z \in SUBSET (SUBSET S),
         {} \in Z,
         \A T \in Z : \A x \in S \ T : T \union {x} \in Z
  PROVE  Z = SUBSET S
  <1> DEFINE Bad == (SUBSET S) \ Z
  <1>1. SUFFICES ASSUME Bad # {} PROVE FALSE
    OBVIOUS
  <1>2. PICK T \in Bad : \A U \in Bad : ~ (U \subseteq T /\ U # T)
    <2>1. Bad \subseteq SUBSET S
      OBVIOUS
    <2> HIDE DEF Bad
    <2>2. QED
      BY <1>1, <2>1, MinimalSubset
  <1>3. PICK x \in T : TRUE
    OBVIOUS
  <1>4. T \ {x} \in Z
    BY <1>2, <1>3
  <1>5. T = (T \ {x}) \union {x} /\ x \in S \ (T \ {x})
    BY <1>3
  <1>6. QED
    BY <1>4, <1>5

\* An enumeration of S: some element of every non-empty subset.
Picks(S) == {c \in [SUBSET S -> S \union {S}] : \A T \in (SUBSET S) \ {{}} : c[T] \in T}

\* F adds up v over every subset of S, taking the elements in the order c picks them.
FoldsAlong(F, c, v, S) ==
  F = [T \in SUBSET S |-> IF T = {} THEN 0 ELSE v[c[T]] + F[T \ {c[T]}]]

\* A sum along any order exists: there is one up to every size of subset.
LEMMA FoldExists ==
  ASSUME NEW S, IsFiniteSet(S), NEW v \in [S -> Int], NEW c \in Picks(S)
  PROVE  \E F \in [SUBSET S -> Int] : FoldsAlong(F, c, v, S)
  <1> DEFINE Eq(F, T) == F[T] = IF T = {} THEN 0 ELSE v[c[T]] + F[T \ {c[T]}]
             UpTo(F, T) == \A U \in SUBSET S : Cardinality(U) <= Cardinality(T) => Eq(F, U)
             Z == {T \in SUBSET S : \E F \in [SUBSET S -> Int] : UpTo(F, T)}
  <1>1. \A T \in SUBSET S : IsFiniteSet(T) /\ Cardinality(T) \in Nat
    BY FS_Subset, FS_CardinalityType
  <1>2. \A T \in SUBSET S : T # {} => /\ c[T] \in T
                                      /\ Cardinality(T \ {c[T]}) = Cardinality(T) - 1
    <2> TAKE T \in SUBSET S
    <2> HAVE T # {}
    <2>1. c[T] \in T
      BY DEF Picks
    <2>2. QED
      BY <1>1, <2>1, FS_RemoveElement
  <1>3. {} \in Z
    <2> DEFINE F == [T \in SUBSET S |-> 0]
    <2>1. \A U \in SUBSET S : Cardinality(U) <= Cardinality({}) => U = {}
      BY <1>1, FS_EmptySet
    <2>2. F \in [SUBSET S -> Int] /\ UpTo(F, {})
      BY <2>1
    <2>3. QED
      BY <2>2
  <1>4. \A T \in Z : \A x \in S \ T : T \union {x} \in Z
    <2> SUFFICES ASSUME NEW T \in Z, NEW x \in S \ T PROVE T \union {x} \in Z
      OBVIOUS
    <2>1. PICK F \in [SUBSET S -> Int] : UpTo(F, T)
      OBVIOUS
    <2> DEFINE G == [U \in SUBSET S |-> IF U = {} THEN 0 ELSE v[c[U]] + F[U \ {c[U]}]]
    <2>2. Cardinality(T \union {x}) = Cardinality(T) + 1
      BY <1>1, FS_AddElement
    <2>3. G \in [SUBSET S -> Int]
      <3>1. \A U \in SUBSET S : U # {} => c[U] \in S
        BY <1>2
      <3>2. QED
        BY <3>1
    <2>4. ASSUME NEW U \in SUBSET S, Cardinality(U) <= Cardinality(T) + 1 PROVE Eq(G, U)
      <3>1. CASE U = {}
        BY <3>1
      <3>2. CASE U # {}
        <4> DEFINE W == U \ {c[U]}
        <4>1. W \in SUBSET S /\ Cardinality(W) = Cardinality(U) - 1
          BY <1>2, <3>2
        <4>2. Cardinality(W) <= Cardinality(T) /\ Cardinality(W) \in Nat
          BY <1>1, <2>4, <4>1
        <4>3. Eq(F, W)
          BY <2>1, <4>1, <4>2
        <4>4. G[W] = F[W]
          BY <4>1, <4>3
        <4>5. G[U] = v[c[U]] + F[W]
          BY <3>2
        <4>6. QED
          BY <3>2, <4>4, <4>5
      <3>3. QED
        BY <3>1, <3>2
    <2>5. UpTo(G, T \union {x})
      BY <2>2, <2>4
    <2>6. T \union {x} \in SUBSET S
      OBVIOUS
    <2> HIDE DEF G, UpTo
    <2>7. QED
      BY <2>3, <2>5, <2>6
  <1>5. S \in Z
    <2>1. Z \in SUBSET (SUBSET S)
      OBVIOUS
    <2> HIDE DEF Z
    <2>2. Z = SUBSET S
      BY <1>3, <1>4, <2>1, SubsetInduction
    <2>3. QED
      BY <2>2
  <1>6. PICK F \in [SUBSET S -> Int] : UpTo(F, S)
    BY <1>5
  <1>7. \A T \in SUBSET S : Cardinality(T) <= Cardinality(S)
    BY FS_Subset
  <1>8. FoldsAlong(F, c, v, S)
    BY <1>6, <1>7 DEF FoldsAlong
  <1>9. QED
    BY <1>8

\* One function over all subsets holds every sum of v.
Adds(F, v, S) ==
  /\ F \in [SUBSET S -> Int]
  /\ F[{}] = 0
  /\ \A T \in SUBSET S : \A x \in T : F[T] = v[x] + F[T \ {x}]

\* Whatever the order, any element may be taken out first.
LEMMA FoldTakesAny ==
  ASSUME NEW S, IsFiniteSet(S), NEW v \in [S -> Int], NEW c \in Picks(S),
         NEW F \in [SUBSET S -> Int], FoldsAlong(F, c, v, S)
  PROVE  Adds(F, v, S)
  <1> DEFINE Takes(T) == \A x \in T : F[T] = v[x] + F[T \ {x}]
             Bad == {T \in SUBSET S : ~ Takes(T)}
  <1>1. F[{}] = 0
    BY DEF FoldsAlong
  <1>2. SUFFICES ASSUME Bad # {} PROVE FALSE
    BY <1>1 DEF Adds
  <1>3. PICK T \in Bad : \A U \in Bad : ~ (U \subseteq T /\ U # T)
    <2>1. Bad \subseteq SUBSET S
      OBVIOUS
    <2> HIDE DEF Bad
    <2>2. QED
      BY <1>2, <2>1, MinimalSubset
  <1>6. ASSUME NEW U \in SUBSET S, U \subseteq T, U # T PROVE Takes(U)
    BY <1>3, <1>6
  <1>7. PICK x \in T : F[T] # v[x] + F[T \ {x}]
    BY <1>3
  <1> DEFINE y == c[T]
  <1>8. T \in SUBSET S /\ T # {}
    BY <1>7
  <1>9. y \in T /\ F[T] = v[y] + F[T \ {y}]
    BY <1>8 DEF Picks, FoldsAlong
  <1> HIDE DEF y
  <1>10. x # y
    BY <1>7, <1>9
  <1>11. F[T \ {y}] = v[x] + F[(T \ {y}) \ {x}]
    BY <1>6, <1>7, <1>8, <1>9, <1>10
  <1>12. F[T \ {x}] = v[y] + F[(T \ {x}) \ {y}]
    BY <1>6, <1>7, <1>8, <1>9, <1>10
  <1> DEFINE rest == F[(T \ {x}) \ {y}]
  <1>13. F[T \ {y}] = v[x] + rest
    <2>1. (T \ {y}) \ {x} = (T \ {x}) \ {y}
      OBVIOUS
    <2>2. QED
      BY <1>11, <2>1
  <1>14. v[x] \in Int /\ v[y] \in Int /\ rest \in Int
    BY <1>7, <1>8, <1>9
  <1> HIDE DEF rest
  <1>15. F[T] = v[x] + F[T \ {x}]
    <2>1. F[T \ {x}] = v[y] + rest
      BY <1>12 DEF rest
    <2>2. QED
      BY <1>9, <1>13, <1>14, <2>1
  <1>16. QED
    BY <1>7, <1>15

\* Only one function adds up the same values.
LEMMA AddsUnique ==
  ASSUME NEW S, IsFiniteSet(S), NEW v, NEW w, NEW F, NEW G,
         Adds(F, v, S), Adds(G, w, S), \A x \in S : v[x] = w[x]
  PROVE  F = G
  <1> DEFINE Z == {T \in SUBSET S : F[T] = G[T]}
  <1>1. {} \in Z
    BY DEF Adds
  <1>2. \A T \in Z : \A x \in S \ T : T \union {x} \in Z
    <2> TAKE T \in Z
    <2> TAKE x \in S \ T
    <2> DEFINE U == T \union {x}
    <2>1. U \in SUBSET S /\ x \in U /\ U \ {x} = T
      OBVIOUS
    <2> HIDE DEF U
    <2>2. F[U] = v[x] + F[T] /\ G[U] = w[x] + G[T]
      BY <2>1 DEF Adds
    <2>3. QED
      BY <2>1, <2>2 DEF U
  <1>3. Z = SUBSET S
    <2>1. Z \in SUBSET (SUBSET S)
      OBVIOUS
    <2> HIDE DEF Z
    <2>2. QED
      BY <1>1, <1>2, <2>1, SubsetInduction
  <1>4. QED
    BY <1>3 DEF Adds

\* A function that is an integer at a set whenever it is at a smaller one is
\* an integer everywhere.
LEMMA FoldIsInt ==
  ASSUME NEW S, IsFiniteSet(S), NEW c \in Picks(S),
         NEW F, F = [T \in SUBSET S |-> F[T]], F[{}] \in Int,
         \A T \in SUBSET S : T # {} /\ F[T \ {c[T]}] \in Int => F[T] \in Int
  PROVE  F \in [SUBSET S -> Int]
  <1> DEFINE Bad == {T \in SUBSET S : F[T] \notin Int}
  <1>1. SUFFICES ASSUME Bad # {} PROVE FALSE
    OBVIOUS
  <1>2. PICK T \in Bad : \A U \in Bad : ~ (U \subseteq T /\ U # T)
    <2>1. Bad \subseteq SUBSET S
      OBVIOUS
    <2> HIDE DEF Bad
    <2>2. QED
      BY <1>1, <2>1, MinimalSubset
  <1>3. T # {}
    OBVIOUS
  <1>4. c[T] \in T
    BY <1>3 DEF Picks
  <1>5. F[T \ {c[T]}] \in Int
    <2> DEFINE U == T \ {c[T]}
    <2>1. U \in SUBSET S /\ U \subseteq T /\ U # T
      BY <1>4
    <2> HIDE DEF U
    <2>2. F[U] \in Int
      BY <1>2, <2>1
    <2>3. QED
      BY <2>2 DEF U
  <1>6. QED
    BY <1>3, <1>5

\* The element Functions.tla takes first.
SomeOf(T) == CHOOSE x \in T : TRUE

\* SumFunctionOnSet is the value at S of a function that adds up v.
LEMMA SumIsAdded ==
  ASSUME NEW S, IsFiniteSet(S), NEW v, \A x \in S : v[x] \in Int
  PROVE  \E F : Adds(F, v, S) /\ SumFunctionOnSet(v, S) = F[S]
  <1> DEFINE c == [T \in SUBSET S |-> IF T = {} THEN S ELSE SomeOf(T)]
             w == [x \in S |-> v[x]]
             P(f) == f = [T \in SUBSET S |-> IF T = {} THEN 0 ELSE v[SomeOf(T)] + f[T \ {SomeOf(T)}]]
             it == CHOOSE f : P(f)
  <1>1. SumFunctionOnSet(v, S) = it[S]
    BY Zenon DEF SumFunctionOnSet, FoldFunctionOnSet, MapThenFoldSet, SomeOf
  <1>2. \A T \in SUBSET S : T # {} => SomeOf(T) \in T
    BY DEF SomeOf
  <1>3. c \in Picks(S) /\ w \in [S -> Int]
    BY <1>2 DEF Picks
  <1>4. ASSUME NEW f PROVE FoldsAlong(f, c, w, S) <=> P(f)
    <2> DEFINE L == [T \in SUBSET S |-> IF T = {} THEN 0 ELSE w[c[T]] + f[T \ {c[T]}]]
               R == [T \in SUBSET S |-> IF T = {} THEN 0 ELSE v[SomeOf(T)] + f[T \ {SomeOf(T)}]]
    <2>1. L = R
      BY <1>2
    <2>2. (f = L) <=> FoldsAlong(f, c, w, S)
      BY Zenon DEF FoldsAlong
    <2>3. (f = R) <=> P(f)
      BY Zenon
    <2> HIDE DEF P, L, R
    <2>4. QED
      BY <2>1, <2>2, <2>3
  <1>5. P(it)
    <2>1. \E f : P(f)
      <3>1. \E F \in [SUBSET S -> Int] : FoldsAlong(F, c, w, S)
        <4> HIDE DEF c, w
        <4>1. QED
          BY <1>3, FoldExists
      <3> HIDE DEF P, c, w
      <3>2. QED
        BY <1>4, <3>1
    <2> HIDE DEF P
    <2>2. QED
      BY <2>1, Zenon
  <1>6. FoldsAlong(it, c, w, S)
    BY <1>4, <1>5, Zenon
  <1>7. Adds(it, w, S)
    <2> HIDE DEF c, w, P, it
    <2>1. it \in [SUBSET S -> Int]
      <3>1. \A T \in SUBSET S : T # {} => w[c[T]] \in Int
        BY <1>3 DEF Picks
      <3>2. /\ it = [T \in SUBSET S |-> it[T]] /\ it[{}] \in Int
            /\ \A T \in SUBSET S : T # {} /\ it[T \ {c[T]}] \in Int => it[T] \in Int
        <4>1. it = [T \in SUBSET S |-> IF T = {} THEN 0 ELSE w[c[T]] + it[T \ {c[T]}]]
          BY <1>6 DEF FoldsAlong
        <4>2. it[{}] = 0 /\ it = [T \in SUBSET S |-> it[T]]
          BY <4>1
        <4>3. \A T \in SUBSET S : T # {} => it[T] = w[c[T]] + it[T \ {c[T]}]
          BY <4>1
        <4>4. ASSUME NEW T \in SUBSET S, T # {}, it[T \ {c[T]}] \in Int PROVE it[T] \in Int
          <5>1. w[c[T]] \in Int /\ it[T] = w[c[T]] + it[T \ {c[T]}]
            BY <3>1, <4>3, <4>4
          <5>2. QED
            BY <4>4, <5>1
        <4>5. it[{}] \in Int
          BY <4>2
        <4>6. QED
          BY <4>2, <4>4, <4>5, Zenon
      <3>3. QED
        BY <1>3, <3>2, FoldIsInt
    <2>2. QED
      BY <1>3, <1>6, <2>1, FoldTakesAny
  <1>8. Adds(it, v, S)
    <2> HIDE DEF P, it, c
    <2>1. QED
      BY <1>7 DEF Adds
  <1>9. QED
    BY <1>1, <1>8
-----------------------------------------------------------------------------
\* What SumFunctionOnSet does, without the order in which it takes elements.
LEMMA SumRules ==
  ASSUME NEW S, IsFiniteSet(S), NEW v, \A x \in S : v[x] \in Int
  PROVE  /\ SumFunctionOnSet(v, {}) = 0
         /\ \A T \in SUBSET S : SumFunctionOnSet(v, T) \in Int
         /\ \A T \in SUBSET S : \A x \in T :
              SumFunctionOnSet(v, T) = v[x] + SumFunctionOnSet(v, T \ {x})
  <1>1. PICK F : Adds(F, v, S) /\ SumFunctionOnSet(v, S) = F[S]
    BY SumIsAdded
  <1>2. ASSUME NEW T \in SUBSET S PROVE SumFunctionOnSet(v, T) = F[T]
    <2>1. IsFiniteSet(T) /\ \A x \in T : v[x] \in Int
      BY FS_Subset
    <2>2. PICK G : Adds(G, v, T) /\ SumFunctionOnSet(v, T) = G[T]
      BY <2>1, SumIsAdded
    <2> DEFINE H == [U \in SUBSET T |-> F[U]]
    <2>3. Adds(H, v, T)
      BY <1>1 DEF Adds
    <2>4. G = H
      <3> HIDE DEF H
      <3>1. QED
        BY <2>1, <2>2, <2>3, AddsUnique
    <2>5. QED
      BY <2>2, <2>4
  <1>3. \A T \in SUBSET S : \A x \in T : T \ {x} \in SUBSET S
    OBVIOUS
  <1>4. {} \in SUBSET S
    OBVIOUS
  <1>5. /\ F[{}] = 0
        /\ \A T \in SUBSET S : F[T] \in Int
        /\ \A T \in SUBSET S : \A x \in T : F[T] = v[x] + F[T \ {x}]
    BY <1>1 DEF Adds
  <1>6. QED
    BY <1>2, <1>3, <1>4, <1>5

\* One element more.
LEMMA SumAddsElement ==
  ASSUME NEW S, IsFiniteSet(S), NEW v, \A x \in S : v[x] \in Int,
         NEW T \in SUBSET S, NEW x \in S \ T
  PROVE  /\ SumFunctionOnSet(v, T \union {x}) = v[x] + SumFunctionOnSet(v, T)
         /\ SumFunctionOnSet(v, T \union {x}) \in Int /\ SumFunctionOnSet(v, T) \in Int
  <1> DEFINE U == T \union {x}
  <1>1. U \in SUBSET S /\ x \in U /\ U \ {x} = T
    OBVIOUS
  <1> HIDE DEF U
  <1>2. SumFunctionOnSet(v, U) = v[x] + SumFunctionOnSet(v, U \ {x})
    BY <1>1, SumRules
  <1>3. SumFunctionOnSet(v, U) \in Int /\ SumFunctionOnSet(v, T) \in Int
    BY <1>1, SumRules
  <1>4. QED
    BY <1>1, <1>2, <1>3 DEF U

\* A sum of naturals is a natural.
LEMMA SumIsNat ==
  ASSUME NEW S, IsFiniteSet(S), NEW v, \A x \in S : v[x] \in Nat
  PROVE  SumFunctionOnSet(v, S) \in Nat
  <1> DEFINE Z == {T \in SUBSET S : SumFunctionOnSet(v, T) \in Nat}
  <1>1. {} \in Z
    BY SumRules
  <1>2. ASSUME NEW T \in Z, NEW x \in S \ T PROVE T \union {x} \in Z
    <2>1. \A y \in S : v[y] \in Int
      OBVIOUS
    <2>2. SumFunctionOnSet(v, T \union {x}) = v[x] + SumFunctionOnSet(v, T)
      BY <2>1, SumAddsElement
    <2>3. QED
      BY <2>2
  <1>3. Z \in SUBSET (SUBSET S)
    OBVIOUS
  <1>4. Z = SUBSET S
    <2> HIDE DEF Z
    <2>1. QED
      BY <1>1, <1>2, <1>3, SubsetInduction
  <1>5. QED
    BY <1>4

\* A sum of zeros is zero.
LEMMA SumOfZeros ==
  ASSUME NEW S, IsFiniteSet(S), NEW v, \A x \in S : v[x] = 0
  PROVE  SumFunctionOnSet(v, S) = 0
  <1> DEFINE Z == {T \in SUBSET S : SumFunctionOnSet(v, T) = 0}
  <1>1. {} \in Z
    BY SumRules
  <1>2. ASSUME NEW T \in Z, NEW x \in S \ T PROVE T \union {x} \in Z
    <2>1. \A y \in S : v[y] \in Int
      OBVIOUS
    <2>2. SumFunctionOnSet(v, T \union {x}) = v[x] + SumFunctionOnSet(v, T)
      BY <2>1, SumAddsElement
    <2>3. QED
      BY <2>2
  <1>3. Z \in SUBSET (SUBSET S)
    OBVIOUS
  <1>4. Z = SUBSET S
    <2> HIDE DEF Z
    <2>1. QED
      BY <1>1, <1>2, <1>3, SubsetInduction
  <1>5. QED
    BY <1>4

\* A larger value at every element makes a larger sum.
LEMMA SumIsMonotone ==
  ASSUME NEW S, IsFiniteSet(S), NEW v, NEW w,
         \A x \in S : v[x] \in Int /\ w[x] \in Int /\ v[x] <= w[x]
  PROVE  SumFunctionOnSet(v, S) <= SumFunctionOnSet(w, S)
  <1> DEFINE Z == {T \in SUBSET S : SumFunctionOnSet(v, T) <= SumFunctionOnSet(w, T)}
  <1>1. {} \in Z
    BY SumRules
  <1>2. ASSUME NEW T \in Z, NEW x \in S \ T PROVE T \union {x} \in Z
    <2>1. /\ SumFunctionOnSet(v, T \union {x}) = v[x] + SumFunctionOnSet(v, T)
          /\ SumFunctionOnSet(w, T \union {x}) = w[x] + SumFunctionOnSet(w, T)
          /\ SumFunctionOnSet(v, T) \in Int /\ SumFunctionOnSet(w, T) \in Int
      BY SumAddsElement
    <2>2. QED
      BY <2>1
  <1>3. Z \in SUBSET (SUBSET S)
    OBVIOUS
  <1>4. Z = SUBSET S
    <2> HIDE DEF Z
    <2>1. QED
      BY <1>1, <1>2, <1>3, SubsetInduction
  <1>5. QED
    BY <1>4

\* The sum depends on the values at the elements of the set only.
LEMMA SumIsExtensional ==
  ASSUME NEW S, IsFiniteSet(S), NEW v, NEW w,
         \A x \in S : v[x] \in Int /\ v[x] = w[x]
  PROVE  SumFunctionOnSet(v, S) = SumFunctionOnSet(w, S)
  <1>1. /\ SumFunctionOnSet(v, S) \in Int /\ SumFunctionOnSet(w, S) \in Int
    BY SumRules
  <1>2. /\ SumFunctionOnSet(v, S) <= SumFunctionOnSet(w, S)
        /\ SumFunctionOnSet(w, S) <= SumFunctionOnSet(v, S)
    BY SumIsMonotone
  <1>3. QED
    BY <1>1, <1>2

\* A change at one element changes the sum by as much.
LEMMA SumAfterChange ==
  ASSUME NEW S, IsFiniteSet(S), NEW v, NEW w, NEW x \in S, NEW d \in Int,
         \A y \in S : v[y] \in Int /\ w[y] = v[y] + (IF y = x THEN d ELSE 0)
  PROVE  SumFunctionOnSet(w, S) = SumFunctionOnSet(v, S) + d
  <1>1. IsFiniteSet(S \ {x}) /\ \A y \in S : w[y] \in Int
    BY FS_RemoveElement
  <1>2. /\ SumFunctionOnSet(v, S) = v[x] + SumFunctionOnSet(v, S \ {x})
        /\ SumFunctionOnSet(w, S) = w[x] + SumFunctionOnSet(w, S \ {x})
        /\ SumFunctionOnSet(v, S \ {x}) \in Int
    <2>1. S \in SUBSET S /\ S \ {x} \in SUBSET S
      OBVIOUS
    <2>2. SumFunctionOnSet(w, S) = w[x] + SumFunctionOnSet(w, S \ {x})
      BY <1>1, <2>1, SumRules
    <2>3. /\ SumFunctionOnSet(v, S) = v[x] + SumFunctionOnSet(v, S \ {x})
          /\ SumFunctionOnSet(v, S \ {x}) \in Int
      BY <2>1, SumRules
    <2>4. QED
      BY <2>2, <2>3
  <1>3. SumFunctionOnSet(v, S \ {x}) = SumFunctionOnSet(w, S \ {x})
    BY <1>1, SumIsExtensional
  <1>4. QED
    BY <1>2, <1>3

\* What two disjoint parts hold is what they hold together.
LEMMA SumOfParts ==
  ASSUME NEW S, IsFiniteSet(S), NEW v, \A x \in S : v[x] \in Int, NEW P \in SUBSET S
  PROVE  SumFunctionOnSet(v, S) = SumFunctionOnSet(v, P) + SumFunctionOnSet(v, S \ P)
  <1> DEFINE R == S \ P
             Z == {T \in SUBSET R : SumFunctionOnSet(v, P \union T) =
                                    SumFunctionOnSet(v, P) + SumFunctionOnSet(v, T)}
  <1>1. IsFiniteSet(R)
    BY FS_Subset
  <1>2. {} \in Z
    <2>1. P \union {} = P
      OBVIOUS
    <2>2. SumFunctionOnSet(v, P) \in Int /\ SumFunctionOnSet(v, {}) = 0
      BY SumRules
    <2>3. QED
      BY <2>1, <2>2
  <1>3. ASSUME NEW T \in Z, NEW x \in R \ T PROVE T \union {x} \in Z
    <2>1. /\ SumFunctionOnSet(v, T \union {x}) = v[x] + SumFunctionOnSet(v, T)
          /\ SumFunctionOnSet(v, T) \in Int
      BY SumAddsElement
    <2> DEFINE U == P \union T
    <2>2. U \in SUBSET S /\ x \in S \ U
      OBVIOUS
    <2> HIDE DEF U
    <2>3. SumFunctionOnSet(v, U \union {x}) = v[x] + SumFunctionOnSet(v, U)
      BY <2>2, SumAddsElement
    <2>4. U \union {x} = P \union (T \union {x})
      BY DEF U
    <2>5. SumFunctionOnSet(v, P) \in Int
      BY SumRules
    <2>6. SumFunctionOnSet(v, U) = SumFunctionOnSet(v, P) + SumFunctionOnSet(v, T)
      BY DEF U
    <2>7. SumFunctionOnSet(v, P \union (T \union {x})) =
            SumFunctionOnSet(v, P) + SumFunctionOnSet(v, T \union {x})
      <3> DEFINE p == SumFunctionOnSet(v, P)
                 t == SumFunctionOnSet(v, T)
      <3>1. v[x] \in Int /\ p \in Int /\ t \in Int
        BY <2>1, <2>5
      <3>2. /\ SumFunctionOnSet(v, P \union (T \union {x})) = v[x] + (p + t)
            /\ SumFunctionOnSet(v, T \union {x}) = v[x] + t
        BY <2>1, <2>3, <2>4, <2>6
      <3> HIDE DEF p, t
      <3>3. v[x] + (p + t) = p + (v[x] + t)
        BY <3>1
      <3>4. QED
        BY <3>2, <3>3 DEF p
    <2>8. QED
      BY <2>7
  <1>4. Z \in SUBSET (SUBSET R)
    OBVIOUS
  <1>5. Z = SUBSET R
    <2> HIDE DEF Z, R
    <2>1. QED
      BY <1>1, <1>2, <1>3, <1>4, SubsetInduction
  <1>6. P \union R = S
    OBVIOUS
  <1>7. QED
    BY <1>5, <1>6

\* Values carried over to other names, no two of them the same, add up to the same.
LEMMA SumIsReindexed ==
  ASSUME NEW S, IsFiniteSet(S), NEW I, IsFiniteSet(I), NEW h \in [I -> S],
         \A i, j \in I : h[i] = h[j] => i = j,
         NEW v, \A x \in S : v[x] \in Int, NEW w, \A i \in I : w[i] = v[h[i]]
  PROVE  SumFunctionOnSet(v, {h[i] : i \in I}) = SumFunctionOnSet(w, I)
  <1> DEFINE Image(J) == {h[i] : i \in J}
             Z == {J \in SUBSET I : SumFunctionOnSet(v, Image(J)) = SumFunctionOnSet(w, J)}
  <1>1. \A i \in I : w[i] \in Int
    OBVIOUS
  <1>2. {} \in Z
    <2>1. Image({}) = {}
      OBVIOUS
    <2>2. SumFunctionOnSet(v, {}) = 0 /\ SumFunctionOnSet(w, {}) = 0
      BY <1>1, SumRules
    <2>3. QED
      BY <2>1, <2>2
  <1>3. ASSUME NEW J \in Z, NEW j \in I \ J PROVE J \union {j} \in Z
    <2>1. /\ Image(J \union {j}) = Image(J) \union {h[j]}
          /\ Image(J) \in SUBSET S /\ h[j] \in S \ Image(J)
      OBVIOUS
    <2>2. SumFunctionOnSet(w, J \union {j}) = w[j] + SumFunctionOnSet(w, J)
      BY <1>1, SumAddsElement
    <2>3. SumFunctionOnSet(v, Image(J) \union {h[j]}) = v[h[j]] + SumFunctionOnSet(v, Image(J))
      <3> HIDE DEF Image
      <3>1. QED
        BY <2>1, SumAddsElement
    <2>4. SumFunctionOnSet(v, Image(J \union {j})) = SumFunctionOnSet(w, J \union {j})
      BY <2>1, <2>2, <2>3
    <2>5. QED
      BY <2>4
  <1>4. Z \in SUBSET (SUBSET I)
    OBVIOUS
  <1>5. Z = SUBSET I
    <2> HIDE DEF Z
    <2>1. QED
      BY <1>2, <1>3, <1>4, SubsetInduction
  <1>6. QED
    BY <1>5

\* A finite set of integers that is not empty has a largest element.
LEMMA MaxIsIn ==
  ASSUME NEW S, IsFiniteSet(S), S \subseteq Int, NEW T \in SUBSET S, T # {}
  PROVE  Max(T) \in T
  <1> DEFINE Z == {U \in SUBSET S : U # {} => \E x \in U : \A y \in U : x >= y}
  <1>1. {} \in Z
    OBVIOUS
  <1>2. ASSUME NEW U \in Z, NEW x \in S \ U PROVE U \union {x} \in Z
    <2>1. CASE U = {}
      BY <2>1
    <2>2. CASE U # {}
      <3>1. PICK m \in U : \A y \in U : m >= y
        BY <2>2
      <3>2. m \in Int /\ x \in Int /\ \A y \in U : y \in Int
        OBVIOUS
      <3>3. CASE m >= x
        BY <3>1, <3>2, <3>3
      <3>4. CASE x >= m
        BY <3>1, <3>2, <3>4
      <3>5. QED
        BY <3>2, <3>3, <3>4
    <2>3. QED
      BY <2>1, <2>2
  <1>3. Z \in SUBSET (SUBSET S)
    OBVIOUS
  <1>4. Z = SUBSET S
    <2> HIDE DEF Z
    <2>1. QED
      BY <1>1, <1>2, <1>3, SubsetInduction
  <1>5. \E x \in T : \A y \in T : x >= y
    BY <1>4
  <1>6. QED
    BY <1>5 DEF Max

\* Sums add up element by element.
LEMMA SumIsAdditive ==
  ASSUME NEW S, IsFiniteSet(S), NEW u, NEW v, NEW w,
         \A x \in S : u[x] \in Int, \A x \in S : v[x] \in Int,
         \A x \in S : w[x] = u[x] + v[x]
  PROVE  SumFunctionOnSet(w, S) = SumFunctionOnSet(u, S) + SumFunctionOnSet(v, S)
  <1> DEFINE Z == {T \in SUBSET S : SumFunctionOnSet(w, T) =
                                    SumFunctionOnSet(u, T) + SumFunctionOnSet(v, T)}
  <1>1. \A x \in S : w[x] \in Int
    OBVIOUS
  <1>2. {} \in Z
    BY <1>1, SumRules
  <1>3. ASSUME NEW T \in Z, NEW x \in S \ T PROVE T \union {x} \in Z
    <2>1. T \in SUBSET S
      OBVIOUS
    <2> HIDE DEF Z
    <2>2. SumFunctionOnSet(u, T \union {x}) = u[x] + SumFunctionOnSet(u, T)
      BY <2>1, SumAddsElement
    <2>3. SumFunctionOnSet(v, T \union {x}) = v[x] + SumFunctionOnSet(v, T)
      BY <2>1, SumAddsElement
    <2>4. SumFunctionOnSet(w, T \union {x}) = w[x] + SumFunctionOnSet(w, T)
      BY <1>1, <2>1, SumAddsElement
    <2>5. SumFunctionOnSet(u, T) \in Int /\ SumFunctionOnSet(v, T) \in Int
      BY <2>1, SumRules
    <2>6. QED
      BY <2>2, <2>3, <2>4, <2>5 DEF Z
  <1>4. Z \in SUBSET (SUBSET S)
    OBVIOUS
  <1>5. Z = SUBSET S
    <2> HIDE DEF Z
    <2>1. QED
      BY <1>2, <1>3, <1>4, SubsetInduction
  <1>6. QED
    BY <1>5

\* No part of a sum of naturals is larger than the sum.
LEMMA SumBoundsElement ==
  ASSUME NEW S, IsFiniteSet(S), NEW v, \A x \in S : v[x] \in Nat, NEW x \in S
  PROVE  v[x] <= SumFunctionOnSet(v, S)
  <1>1. SumFunctionOnSet(v, S \ {x}) \in Nat
    BY FS_RemoveElement, SumIsNat
  <1>2. \A y \in S : v[y] \in Int
    OBVIOUS
  <1>3. SumFunctionOnSet(v, S) = v[x] + SumFunctionOnSet(v, S \ {x})
    BY <1>2, SumRules
  <1>4. QED
    BY <1>1, <1>3

\* A sum changes by as much as the one element that changes.
LEMMA SumAfterUpdate ==
  ASSUME NEW S, IsFiniteSet(S), NEW v, NEW w, NEW x \in S,
         \A y \in S : v[y] \in Int, \A y \in S : w[y] \in Int,
         \A y \in S \ {x} : w[y] = v[y]
  PROVE  SumFunctionOnSet(w, S) + v[x] = SumFunctionOnSet(v, S) + w[x]
  <1> DEFINE R == S \ {x}
  <1>1. S \in SUBSET S /\ R \in SUBSET S
    OBVIOUS
  <1>2. SumFunctionOnSet(v, S) = v[x] + SumFunctionOnSet(v, R)
    BY <1>1, SumRules
  <1>3. SumFunctionOnSet(w, S) = w[x] + SumFunctionOnSet(w, R)
    BY <1>1, SumRules
  <1>4. SumFunctionOnSet(w, R) = SumFunctionOnSet(v, R) /\ SumFunctionOnSet(v, R) \in Int
    <2>1. IsFiniteSet(R) /\ \A y \in R : v[y] \in Int /\ v[y] = w[y]
      BY <1>1, FS_Subset
    <2>2. SumFunctionOnSet(v, R) \in Int
      BY <1>1, SumRules
    <2> HIDE DEF R
    <2>3. QED
      BY <2>1, <2>2, SumIsExtensional
  <1>5. v[x] \in Int /\ w[x] \in Int
    OBVIOUS
  <1>6. QED
    BY <1>2, <1>3, <1>4, <1>5

\* What goes from one element to another stays in the sum.
LEMMA SumAfterMove ==
  ASSUME NEW S, IsFiniteSet(S), NEW v, NEW w, NEW a \in S, NEW b \in S, a # b,
         \A x \in S : v[x] \in Int, \A x \in S : w[x] \in Int,
         w[a] + w[b] = v[a] + v[b], \A x \in S \ {a, b} : w[x] = v[x]
  PROVE  SumFunctionOnSet(w, S) = SumFunctionOnSet(v, S)
  <1> DEFINE R == S \ {a}
             Q == R \ {b}
  <1>1. S \in SUBSET S /\ R \in SUBSET S /\ Q \in SUBSET S /\ a \in S /\ b \in R
    OBVIOUS
  <1>2. SumFunctionOnSet(v, S) = v[a] + SumFunctionOnSet(v, R)
    BY <1>1, SumRules
  <1>3. SumFunctionOnSet(v, R) = v[b] + SumFunctionOnSet(v, Q)
    BY <1>1, SumRules
  <1>4. SumFunctionOnSet(w, S) = w[a] + SumFunctionOnSet(w, R)
    BY <1>1, SumRules
  <1>5. SumFunctionOnSet(w, R) = w[b] + SumFunctionOnSet(w, Q)
    BY <1>1, SumRules
  <1>6. SumFunctionOnSet(w, Q) = SumFunctionOnSet(v, Q) /\ SumFunctionOnSet(v, Q) \in Int
    <2>1. IsFiniteSet(Q) /\ \A x \in Q : v[x] \in Int /\ v[x] = w[x]
      BY <1>1, FS_Subset
    <2>2. SumFunctionOnSet(v, Q) \in Int
      BY <1>1, SumRules
    <2> HIDE DEF Q
    <2>3. QED
      BY <2>1, <2>2, SumIsExtensional
  <1>7. v[a] \in Int /\ v[b] \in Int /\ w[a] \in Int /\ w[b] \in Int
    OBVIOUS
  <1>8. QED
    BY <1>2, <1>3, <1>4, <1>5, <1>6, <1>7

\* What is zero outside a part adds up within it.
LEMMA SumOverSupport ==
  ASSUME NEW S, IsFiniteSet(S), NEW v, \A x \in S : v[x] \in Int, NEW P \in SUBSET S,
         \A x \in S \ P : v[x] = 0
  PROVE  SumFunctionOnSet(v, S) = SumFunctionOnSet(v, P)
  <1> DEFINE R == S \ P
  <1>1. IsFiniteSet(R) /\ \A x \in R : v[x] = 0
    BY FS_Subset
  <1>2. SumFunctionOnSet(v, S) = SumFunctionOnSet(v, P) + SumFunctionOnSet(v, R)
    BY SumOfParts
  <1>3. SumFunctionOnSet(v, P) \in Int
    BY SumRules
  <1> HIDE DEF R
  <1>4. SumFunctionOnSet(v, R) = 0
    BY <1>1, SumOfZeros
  <1>5. QED
    BY <1>2, <1>3, <1>4
=============================================================================
