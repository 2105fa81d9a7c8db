----------------------------- MODULE FoldFacts -------------------------------
(***************************************************************************)
(* What a fold over a finite set keeps.  The step, the order in which the  *)
(* elements are taken and what is kept are the constants of this module,   *)
(* so a proof about a particular fold takes an instance of it.             *)
(***************************************************************************)
EXTENDS Naturals, FiniteSets, Folds, FiniteSetTheorems, WellFoundedInduction, TLAPS

CONSTANTS Step(_, _),    \* what an element does to the result so far
          Pick(_, _),    \* the element of a set that is taken last, as a given value orders them
          Good(_, _, _)  \* what is to be kept, of a given value, the elements taken and the result

Fold(ref, base, I) == MapThenFoldSet(LAMBDA i, t : Step(t, i), base, LAMBDA i : i, LAMBDA J : Pick(ref, J), I)

\* A set of naturals has a least element.
LEMMA Least == ASSUME NEW S, S \subseteq Nat, S # {} PROVE \E m \in S : \A k \in S : m <= k
<1>1. PICK m \in S : \A k \in S : ~(<<k, m>> \in OpToRel(<, Nat))
      BY NatLessThanWellFounded, WFMin
<1>2. \A k \in S : ~(k < m)
      BY <1>1 DEF OpToRel
<1> QED BY <1>2

Small(I, n) == {J \in SUBSET I : Cardinality(J) <= n}
Picks(ref, I) == \A J \in SUBSET I : J # {} => Pick(ref, J) \in J

\* A function that agrees with the fold on the sets D.
Folds(ref, base, f, D) == f = [J \in D |-> IF J = {} THEN base ELSE Step(f[J \ {Pick(ref, J)}], Pick(ref, J))]

LEMMA Smaller ==
    ASSUME NEW ref, NEW I, IsFiniteSet(I), Picks(ref, I), NEW J \in SUBSET I, J # {}
    PROVE  /\ J \ {Pick(ref, J)} \in SUBSET I /\ IsFiniteSet(J) /\ Cardinality(J) \in Nat
           /\ Cardinality(J) # 0 /\ Cardinality(J \ {Pick(ref, J)}) = Cardinality(J) - 1
           /\ Cardinality(J) <= Cardinality(I) /\ Cardinality(I) \in Nat
<1>1. IsFiniteSet(J) /\ Cardinality(J) <= Cardinality(I) /\ Cardinality(I) \in Nat
      BY FS_Subset, FS_CardinalityType
<1>2. Pick(ref, J) \in J
      BY DEF Picks
<1>3. Cardinality(J) \in Nat /\ Cardinality(J) # 0
      BY <1>1, FS_CardinalityType, FS_EmptySet
<1>4. Cardinality(J \ {Pick(ref, J)}) = Cardinality(J) - 1
      BY <1>1, <1>2, FS_RemoveElement
<1> QED BY <1>1, <1>3, <1>4

LEMMA Begins == ASSUME NEW ref, NEW base, NEW I, IsFiniteSet(I) PROVE \E f : Folds(ref, base, f, Small(I, 0))
<1> DEFINE f == [J \in Small(I, 0) |-> base]
<1>1. \A J \in Small(I, 0) : J = {}
      <2> SUFFICES ASSUME NEW J \in Small(I, 0) PROVE J = {}
          OBVIOUS
      <2>1. IsFiniteSet(J)
            BY FS_Subset DEF Small
      <2>2. Cardinality(J) \in Nat /\ Cardinality(J) <= 0
            BY <2>1, FS_CardinalityType DEF Small
      <2> QED BY <2>1, <2>2, FS_EmptySet
<1>2. Folds(ref, base, f, Small(I, 0))
      BY <1>1 DEF Folds
<1> QED BY <1>2

LEMMA Grows ==
    ASSUME NEW ref, NEW base, NEW I, IsFiniteSet(I), Picks(ref, I), NEW n \in Nat, NEW g, Folds(ref, base, g, Small(I, n))
    PROVE  \E f : Folds(ref, base, f, Small(I, n + 1))
<1> DEFINE D == Small(I, n + 1)
           f == [J \in D |-> IF J = {} THEN base ELSE Step(g[J \ {Pick(ref, J)}], Pick(ref, J))]
           F == [J \in D |-> IF J = {} THEN base ELSE Step(f[J \ {Pick(ref, J)}], Pick(ref, J))]
<1>1. ASSUME NEW J \in D, J # {} PROVE f[J \ {Pick(ref, J)}] = g[J \ {Pick(ref, J)}]
  <2> DEFINE K == J \ {Pick(ref, J)}
  <2>1. J \in SUBSET I /\ Cardinality(J) <= n + 1
        BY DEF Small
  <2>2. K \in SUBSET I /\ Cardinality(K) <= n /\ Cardinality(K) \in Nat
        BY <1>1, <2>1, Smaller
  <2>3. K \in Small(I, n) /\ K \in D
        BY <2>2 DEF Small
  <2>4. g[K] = IF K = {} THEN base ELSE Step(g[K \ {Pick(ref, K)}], Pick(ref, K))
        BY <2>3 DEF Folds
  <2>5. f[K] = IF K = {} THEN base ELSE Step(g[K \ {Pick(ref, K)}], Pick(ref, K))
        BY <2>3
  <2> QED BY <2>4, <2>5
<1>2. \A J \in D : f[J] = F[J]
      BY <1>1
<1>3. f = F
      BY <1>2
<1>4. Folds(ref, base, f, D)
      BY <1>3 DEF Folds
<1> QED BY <1>4

LEMMA Exists ==
    ASSUME NEW ref, NEW base, NEW I, IsFiniteSet(I), Picks(ref, I)
    PROVE  \A n \in Nat : \E f : Folds(ref, base, f, Small(I, n))
<1> DEFINE Bad == {n \in Nat : ~ \E f : Folds(ref, base, f, Small(I, n))}
<1> SUFFICES ASSUME Bad # {} PROVE FALSE
    OBVIOUS
<1>1. PICK n \in Bad : \A k \in Bad : n <= k
  <2>1. Bad \subseteq Nat /\ Bad # {}
        OBVIOUS
  <2> HIDE DEF Bad
  <2> QED BY <2>1, Least
<1>2. n # 0
      BY Begins
<1>3. n - 1 \in Nat /\ n = (n - 1) + 1
      BY <1>2
<1>4. n - 1 \notin Bad
  <2>1. n - 1 < n
        BY <1>3
  <2> HIDE DEF Bad
  <2> QED BY <1>1, <1>3, <2>1
<1>5. PICK g : Folds(ref, base, g, Small(I, n - 1))
      BY <1>3, <1>4
<1>6. \E f : Folds(ref, base, f, Small(I, (n - 1) + 1))
      BY <1>3, <1>5, Grows
<1> QED BY <1>3, <1>6

\* What holds before the first element, and is kept by each, holds in the end.
THEOREM FoldKeeps ==
    ASSUME NEW ref, NEW base, NEW I, IsFiniteSet(I), Picks(ref, I), Good(ref, {}, base),
           \A J \in SUBSET I : \A t :
              J # {} /\ Good(ref, J \ {Pick(ref, J)}, t) => Good(ref, J, Step(t, Pick(ref, J)))
    PROVE  Good(ref, I, Fold(ref, base, I))
<1> DEFINE g   == CHOOSE f : Folds(ref, base, f, SUBSET I)
           Bad == {n \in Nat : \E J \in SUBSET I : Cardinality(J) = n /\ ~Good(ref, J, g[J])}
<1>1. SUBSET I = Small(I, Cardinality(I))
      BY FS_Subset DEF Small
<1>2. Folds(ref, base, g, SUBSET I)
  <2>1. Cardinality(I) \in Nat
        BY FS_CardinalityType
  <2>2. \E f : Folds(ref, base, f, Small(I, Cardinality(I)))
        BY <2>1, Exists
  <2>3. \E f : Folds(ref, base, f, SUBSET I)
        BY <1>1, <2>2
  <2> QED BY <2>3
<1>3. Fold(ref, base, I) = g[I]
      BY DEF Fold, MapThenFoldSet, Folds
<1> HIDE DEF g
<1>4. ASSUME Bad # {} PROVE FALSE
  <2>1. PICK n \in Bad : \A k \in Bad : n <= k
    <3>1. Bad \subseteq Nat /\ Bad # {}
          BY <1>4
    <3> HIDE DEF Bad
    <3> QED BY <3>1, Least
  <2>2. PICK J \in SUBSET I : Cardinality(J) = n /\ ~Good(ref, J, g[J])
        OBVIOUS
  <2>3. g[J] = IF J = {} THEN base ELSE Step(g[J \ {Pick(ref, J)}], Pick(ref, J))
        BY <1>2 DEF Folds
  <2>4. J # {}
        BY <2>2, <2>3
  <2>5. /\ J \ {Pick(ref, J)} \in SUBSET I /\ n \in Nat /\ n # 0
        /\ Cardinality(J \ {Pick(ref, J)}) = n - 1
        BY <2>2, <2>4, Smaller
  <2>6. n - 1 \notin Bad
    <3>1. n - 1 < n /\ n - 1 \in Nat
          BY <2>5
    <3> HIDE DEF Bad
    <3> QED BY <2>1, <2>5, <3>1
  <2>7. Good(ref, J \ {Pick(ref, J)}, g[J \ {Pick(ref, J)}])
        BY <2>5, <2>6
  <2>8. Good(ref, J, Step(g[J \ {Pick(ref, J)}], Pick(ref, J)))
        BY <2>4, <2>7
  <2> QED BY <2>2, <2>3, <2>4, <2>8
<1>5. Good(ref, I, g[I])
  <2>1. Cardinality(I) \in Nat /\ I \in SUBSET I
        BY FS_CardinalityType
  <2> QED BY <1>4, <2>1
<1> QED BY <1>3, <1>5
=============================================================================
