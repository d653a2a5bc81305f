-------------------------- MODULE NumberingProofs --------------------------
(***************************************************************************)
(* Numbering by first use is a numbering: what Enter adds to a table gets  *)
(* the indices that follow, each once.  Lists are given by their domain,   *)
(* 1 .. n, so that the facts hold for sequences over any set.              *)
(***************************************************************************)
EXTENDS Numbering, FiniteSetTheorems, TLAPS

\* A set of numbers that has an element has a least one.
LEMMA LeastNat ==
  ASSUME NEW T \in SUBSET Nat, T # {}
  PROVE  \E x \in T : \A y \in T : x <= y
<1>1. \E x \in T : \A y \in T : <<y, x>> \notin OpToRel(<, Nat)
  BY NatLessThanWellFounded, WFMin
<1>2. ASSUME NEW x \in T, NEW y \in T, <<y, x>> \notin OpToRel(<, Nat)
      PROVE  x <= y
  BY <1>2 DEF OpToRel
<1> QED
  BY <1>1, <1>2

\* An element of a list is met first somewhere, and nowhere earlier.
LEMMA FirstAtSpec ==
  ASSUME NEW s, NEW n \in Nat, DOMAIN s = 1 .. n, NEW x \in Range(s)
  PROVE  /\ FirstAt(s, x) \in 1 .. n
         /\ s[FirstAt(s, x)] = x
<1> DEFINE T == {i \in 1 .. n : s[i] = x}
<1>1. T \in SUBSET Nat /\ T # {}
  BY DEF Range
<1>2. PICK i \in T : \A j \in T : i <= j
  BY <1>1, LeastNat
<1>3. \E k \in DOMAIN s : s[k] = x /\ \A j \in DOMAIN s : s[j] = x => k <= j
  BY <1>2
<1> QED
  BY <1>3 DEF FirstAt

\* A list has finitely many elements.
LEMMA FreshFinite ==
  ASSUME NEW known, NEW s, NEW n \in Nat, DOMAIN s = 1 .. n
  PROVE  IsFiniteSet(Range(s)) /\ IsFiniteSet(Fresh(known, s))
<1> DEFINE f == [i \in 1 .. n |-> s[i]]
<1>1. f \in Surjection(1 .. n, Range(s))
  BY DEF Surjection, Range
<1>2. IsFiniteSet(1 .. n)
  BY FS_Interval
<1>3. IsFiniteSet(Range(s))
  BY <1>1, <1>2, FS_Surjection
<1> QED
  BY <1>3, FS_Subset DEF Fresh

\* Ranks are below the number of new elements and grow with the place.
LEMMA RankBelow ==
  ASSUME NEW known, NEW s, NEW n \in Nat, DOMAIN s = 1 .. n, NEW x \in Fresh(known, s)
  PROVE  /\ Cardinality(Fresh(known, s)) \in Nat
         /\ Rank(known, s, x) \in 0 .. Cardinality(Fresh(known, s)) - 1
<1> DEFINE F == Fresh(known, s)
           B == {y \in F : FirstAt(s, y) < FirstAt(s, x)}
<1>1. IsFiniteSet(F) /\ B \in SUBSET F
  BY FreshFinite
<1>2. FirstAt(s, x) \in Nat
  BY FirstAtSpec DEF Fresh
<1>3. x \in F /\ x \notin B
  BY <1>2
<1> HIDE DEF F, B
<1>4. IsFiniteSet(B) /\ Cardinality(B) <= Cardinality(F) /\ Cardinality(B) # Cardinality(F)
  BY <1>1, <1>3, FS_Subset
<1>5. Cardinality(B) \in Nat /\ Cardinality(F) \in Nat
  BY <1>1, <1>4, FS_CardinalityType
<1>6. Cardinality(B) \in 0 .. Cardinality(F) - 1
  BY <1>4, <1>5
<1> QED
  BY <1>5, <1>6 DEF Rank, F, B

\* Of two new elements, the one met first has the lower rank.
LEMMA RankGrows ==
  ASSUME NEW known, NEW s, NEW n \in Nat, DOMAIN s = 1 .. n,
         NEW x \in Fresh(known, s), NEW y \in Fresh(known, s),
         FirstAt(s, x) < FirstAt(s, y)
  PROVE  Rank(known, s, x) < Rank(known, s, y)
<1> DEFINE F == Fresh(known, s)
           A == {z \in F : FirstAt(s, z) < FirstAt(s, x)}
           B == {z \in F : FirstAt(s, z) < FirstAt(s, y)}
<1>1. \A z \in F : FirstAt(s, z) \in Nat
  BY FirstAtSpec DEF Fresh
<1>2. A \in SUBSET B /\ x \in B /\ x \notin A /\ B \in SUBSET F
  BY <1>1
<1>3. IsFiniteSet(F)
  BY FreshFinite
<1> HIDE DEF F, A, B
<1>4. IsFiniteSet(B)
  BY <1>2, <1>3, FS_Subset
<1>5. IsFiniteSet(A) /\ Cardinality(A) <= Cardinality(B) /\ Cardinality(A) # Cardinality(B)
  BY <1>2, <1>4, FS_Subset
<1>6. Cardinality(A) \in Nat /\ Cardinality(B) \in Nat
  BY <1>4, <1>5, FS_CardinalityType
<1>7. Cardinality(A) < Cardinality(B)
  BY <1>5, <1>6
<1> QED
  BY <1>7 DEF Rank, F, A, B

\* Numbering by rank is one to one, and leaves no number out.
LEMMA RankBijective ==
  ASSUME NEW known, NEW s, NEW n \in Nat, DOMAIN s = 1 .. n
  PROVE  /\ \A x, y \in Fresh(known, s) : Rank(known, s, x) = Rank(known, s, y) => x = y
         /\ \A k \in 0 .. Cardinality(Fresh(known, s)) - 1 :
               \E x \in Fresh(known, s) : Rank(known, s, x) = k
<1> DEFINE F == Fresh(known, s)
           c == Cardinality(F)
           K == 0 .. c - 1
           f == [x \in F |-> Rank(known, s, x)]
<1>1. ASSUME NEW x \in F, NEW y \in F, Rank(known, s, x) = Rank(known, s, y)
      PROVE  x = y
  <2>1. /\ FirstAt(s, x) \in Nat /\ s[FirstAt(s, x)] = x
        /\ FirstAt(s, y) \in Nat /\ s[FirstAt(s, y)] = y
    BY FirstAtSpec DEF Fresh
  <2>2. Rank(known, s, x) \in Nat /\ Rank(known, s, y) \in Nat
    BY RankBelow
  <2>3. ~(FirstAt(s, x) < FirstAt(s, y)) /\ ~(FirstAt(s, y) < FirstAt(s, x))
    BY <1>1, <2>2, RankGrows
  <2> QED
    BY <2>1, <2>3
<1>2. c \in Nat
  BY FreshFinite, FS_CardinalityType
<1>3. \A x \in F : Rank(known, s, x) \in K
  BY RankBelow
<1>4. f \in Injection(F, K)
  BY <1>1, <1>3 DEF Injection, IsInjective
<1> HIDE DEF c
<1>5. IsFiniteSet(K) /\ Cardinality(K) = c
  BY <1>2, FS_Interval
<1> HIDE DEF K, f, F
<1>6. f \in Surjection(F, K)
  BY <1>4, <1>5, FS_Injection DEF c
<1>7. \A k \in K : \E x \in F : f[x] = k
  BY <1>6 DEF Surjection
<1> QED
  BY <1>1, <1>7 DEF F, K, c, f

\* The list of new elements is a list of them.
LEMMA FirstUsesList ==
  ASSUME NEW known, NEW s, NEW n \in Nat, DOMAIN s = 1 .. n
  PROVE  FirstUses(known, s) \in Seq(Fresh(known, s))
<1> DEFINE F == Fresh(known, s)
           c == Cardinality(F)
<1>1. c \in Nat
  BY FreshFinite, FS_CardinalityType
<1>2. ASSUME NEW r \in 1 .. c
      PROVE  (CHOOSE x \in F : Rank(known, s, x) = r - 1) \in F
  <2>1. r - 1 \in 0 .. c - 1
    BY <1>1
  <2>2. \E x \in F : Rank(known, s, x) = r - 1
    BY <2>1, RankBijective
  <2> QED
    BY <2>2
<1>3. FirstUses(known, s) = [r \in 1 .. c |-> CHOOSE x \in F : Rank(known, s, x) = r - 1]
  BY DEF FirstUses
<1> HIDE DEF F, c
<1>4. FirstUses(known, s) \in [1 .. c -> F]
  BY <1>2, <1>3, Zenon
<1>5. FirstUses(known, s) \in Seq(F)
  BY <1>1, <1>4
<1> QED
  BY <1>5 DEF F

\* Dense, for a table whose entries and their number are known.
LEMMA DenseBySize ==
  ASSUME NEW f, NEW E, NEW c, DOMAIN f = E, Cardinality(E) = c,
         \A x \in E : f[x] \in 0 .. c - 1,
         \A x, y \in E : f[x] = f[y] => x = y,
         \A k \in 0 .. c - 1 : \E x \in E : f[x] = k
  PROVE  Dense(f)
<1>1. Cardinality(DOMAIN f) = c
  OBVIOUS
<1> QED
  BY <1>1 DEF Dense

\* Entering a list into a dense table, from its size on, leaves it dense.
LEMMA EnterDense ==
  ASSUME NEW ids, IsFiniteSet(DOMAIN ids), Dense(ids),
         NEW s, NEW n \in Nat, DOMAIN s = 1 .. n
  PROVE  LET new == Enter(ids, s, Cardinality(DOMAIN ids))
         IN  IsFiniteSet(DOMAIN new) /\ Dense(new)
<1> DEFINE D == DOMAIN ids
           F == Fresh(D, s)
           c == Cardinality(D)
           m == Cardinality(F)
           new == Enter(ids, s, c)
<1>1. IsFiniteSet(F) /\ c \in Nat /\ m \in Nat
  BY FreshFinite, FS_CardinalityType
<1>2. DOMAIN new = D \cup F
  BY DEF Enter, Fresh
<1>3. D \cap F = {}
  BY DEF Fresh
<1>4. IsFiniteSet(D \cup F) /\ Cardinality(D \cup F) = c + m
  <2>1. Cardinality(D \cap F) = 0
    BY <1>3, FS_EmptySet
  <2>2. /\ IsFiniteSet(D \cup F)
        /\ Cardinality(D \cup F) = c + m - Cardinality(D \cap F)
    BY <1>1, FS_Union
  <2> HIDE DEF D, F, c, m
  <2> QED
    BY <1>1, <2>1, <2>2
<1>5. \A x \in D : new[x] = ids[x]
  BY DEF Enter
<1>6. \A x \in F : new[x] = c + Rank(D, s, x)
  BY DEF Enter, Fresh
<1>7. \A x \in D : ids[x] \in 0 .. c - 1
  BY DEF Dense
<1>8. \A x \in F : Rank(D, s, x) \in 0 .. m - 1
  BY RankBelow
<1>9. \A x, y \in F : Rank(D, s, x) = Rank(D, s, y) => x = y
  BY RankBijective
<1>10. \A k \in 0 .. m - 1 : \E x \in F : Rank(D, s, x) = k
  BY RankBijective
<1>11. \A x, y \in D : ids[x] = ids[y] => x = y
  BY DEF Dense
<1>12. \A k \in 0 .. c - 1 : \E x \in D : ids[x] = k
  BY DEF Dense
<1> HIDE DEF D, F, c, m, new
<1>13. \A x \in D \cup F : new[x] \in 0 .. (c + m) - 1
  BY <1>1, <1>5, <1>6, <1>7, <1>8
<1>14. ASSUME NEW x \in D \cup F, NEW y \in D \cup F, new[x] = new[y]
       PROVE  x = y
  <2>1. CASE x \in D /\ y \in D
    BY <1>5, <1>11, <1>14, <2>1
  <2>2. CASE x \in F /\ y \in F
    <3>1. c + Rank(D, s, x) = c + Rank(D, s, y)
      BY <1>6, <1>14, <2>2
    <3>2. Rank(D, s, x) = Rank(D, s, y)
      BY <1>1, <1>8, <2>2, <3>1
    <3> QED
      BY <1>9, <2>2, <3>2
  <2>3. CASE x \in D /\ y \in F
    BY <1>1, <1>5, <1>6, <1>7, <1>8, <1>14, <2>3
  <2>4. CASE x \in F /\ y \in D
    BY <1>1, <1>5, <1>6, <1>7, <1>8, <1>14, <2>4
  <2> QED
    BY <2>1, <2>2, <2>3, <2>4
<1>15. ASSUME NEW k \in 0 .. (c + m) - 1
       PROVE  \E x \in D \cup F : new[x] = k
  <2>1. CASE k < c
    <3>1. k \in 0 .. c - 1
      BY <1>1, <2>1
    <3> QED
      BY <1>5, <1>12, <3>1
  <2>2. CASE k >= c
    <3>1. k - c \in 0 .. m - 1 /\ c + (k - c) = k
      BY <1>1, <2>2
    <3> QED
      BY <1>6, <1>10, <3>1
  <2> QED
    BY <1>1, <2>1, <2>2
<1>16. IsFiniteSet(DOMAIN new)
  BY <1>2, <1>4
<1>17. Dense(new)
  <2>1. \A x, y \in D \cup F : new[x] = new[y] => x = y
    BY <1>14
  <2>2. \A k \in 0 .. (c + m) - 1 : \E x \in D \cup F : new[x] = k
    BY <1>15
  <2> QED
    BY <1>2, <1>4, <1>13, <2>1, <2>2, DenseBySize
<1> QED
  BY <1>16, <1>17 DEF new, c, D

----------------------------------------------------------------------------
\* A function on 1 .. n with values in S is a list of n elements of S.
LEMMA ListSeq ==
  ASSUME NEW S, NEW n \in Nat, NEW f, f = [i \in 1 .. n |-> f[i]], \A i \in 1 .. n : f[i] \in S
  PROVE  f \in Seq(S) /\ Len(f) = n /\ DOMAIN f = 1 .. n
OBVIOUS
=============================================================================
