--------------------------- MODULE OrderedProofs ---------------------------
(***************************************************************************)
(* Lemmas about numbers in order, for the proofs about what is read page   *)
(* by page.                                                                *)
(***************************************************************************)
EXTENDS Ordered, Sequences, FiniteSetTheorems, WellFoundedInduction, TLAPS

(* A set of numbers that is not empty has a least element.                 *)
LEMMA LeastOf ==
  ASSUME NEW T \in SUBSET Nat, T # {}
  PROVE  \E y \in T : \A z \in T : z >= y
<1>1. T \subseteq Nat
  OBVIOUS
<1>2. PICK y \in T : \A z \in T : ~(<< z, y >> \in OpToRel(<, Nat))
  BY <1>1, NatLessThanWellFounded, WFMin, Zenon
<1>3. \A z \in T : ~(z < y)
  BY <1>1, <1>2 DEF OpToRel
<1> QED BY <1>1, <1>3

-----------------------------------------------------------------------------
(* Numbers in order. *)

(* s lists the numbers in the set S in ascending order.                    *)
Sorted(S, s) ==
  /\ s \in [1..Cardinality(S) -> S]
  /\ \A i, j \in 1..Cardinality(S) : i < j => s[i] < s[j]

(* The first k of them.                                                    *)
FirstOf(S, k) == {InOrder(S)[i] : i \in 1..k}

(* The least number and the others in order are all in order.              *)
LEMMA SortedMore ==
  ASSUME NEW S \in SUBSET Nat, IsFiniteSet(S), NEW m \in S, \A z \in S : z >= m,
         NEW t, Sorted(S \ {m}, t)
  PROVE  \E s : Sorted(S, s)
<1> DEFINE n == Cardinality(S)
           s == [i \in 1..n |-> IF i = 1 THEN m ELSE t[i - 1]]
<1>1. n \in Nat /\ n # 0 /\ Cardinality(S \ {m}) = n - 1
  BY FS_CardinalityType, FS_EmptySet, FS_RemoveElement
<1> HIDE DEF n
<1>2. t \in [1..n - 1 -> S \ {m}] /\ \A i, j \in 1..n - 1 : i < j => t[i] < t[j]
  BY <1>1 DEF Sorted
<1>3. ASSUME NEW i \in 1..n PROVE s[i] \in S /\ (i # 1 => s[i] = t[i - 1] /\ i - 1 \in 1..n - 1)
  BY <1>1, <1>2
<1>4. ASSUME NEW i \in 1..n, NEW j \in 1..n, i < j PROVE s[i] < s[j]
  <2>1. j # 1 /\ s[j] = t[j - 1] /\ j - 1 \in 1..n - 1 /\ t[j - 1] \in S \ {m}
    BY <1>1, <1>2, <1>3, <1>4
  <2>2. CASE i = 1
    <3>1. s[i] = m /\ t[j - 1] >= m /\ t[j - 1] # m /\ t[j - 1] \in Nat /\ m \in Nat
      BY <2>1, <2>2
    <3> QED BY <2>1, <3>1
  <2>3. CASE i # 1
    <3>1. s[i] = t[i - 1] /\ i - 1 \in 1..n - 1 /\ i - 1 < j - 1
      BY <1>3, <1>4, <2>3
    <3> QED BY <1>2, <2>1, <3>1
  <2> QED BY <2>2, <2>3
<1>5. s \in [1..n -> S]
  BY <1>3
<1> QED BY <1>4, <1>5 DEF Sorted, n

(* Every finite set can be put in order.                                   *)
LEMMA SortedExists ==
  ASSUME NEW S \in SUBSET Nat, IsFiniteSet(S)
  PROVE  \E s : Sorted(S, s)
<1> DEFINE Bad(n, T) == T \in SUBSET Nat /\ IsFiniteSet(T) /\ Cardinality(T) = n /\ ~ \E s : Sorted(T, s)
           B == {n \in Nat : \E T : Bad(n, T)}
<1>1. B = {}
  <2> SUFFICES ASSUME B # {} PROVE FALSE
    OBVIOUS
  <2>1. PICK n \in B : \A k \in B : k >= n
    BY LeastOf
  <2>2. PICK T : Bad(n, T)
    OBVIOUS
  <2>3. n # 0
    <3> SUFFICES ASSUME n = 0 PROVE FALSE
      OBVIOUS
    <3>1. Cardinality(T) = 0 /\ T = {}
      BY <2>2, FS_EmptySet
    <3>2. Sorted(T, [i \in 1..0 |-> 0])
      BY <3>1 DEF Sorted
    <3> QED BY <2>2, <3>2
  <2>4. PICK m \in T : \A z \in T : z >= m
    <3>1. T \in SUBSET Nat /\ T # {}
      BY <2>2, <2>3, FS_EmptySet
    <3> QED BY <3>1, LeastOf
  <2>5. IsFiniteSet(T \ {m}) /\ Cardinality(T \ {m}) = n - 1 /\ n - 1 \in Nat
    BY <2>2, <2>3, FS_RemoveElement
  <2>6. ~(n - 1 \in B)
    BY <2>1, <2>5
  <2>7. T \ {m} \in SUBSET Nat
    BY <2>2
  <2>8. PICK t : Sorted(T \ {m}, t)
    BY <2>5, <2>6, <2>7
  <2>9. \E s : Sorted(T, s)
    BY <2>2, <2>4, <2>8, SortedMore
  <2> QED BY <2>2, <2>9
<1>2. Cardinality(S) \in Nat
  BY FS_CardinalityType
<1> QED BY <1>1, <1>2

(* What InOrder returns: all of them, each once.                           *)
LEMMA InOrderIs ==
  ASSUME NEW S \in SUBSET Nat, IsFiniteSet(S)
  PROVE  /\ Cardinality(S) \in Nat
         /\ InOrder(S) \in Seq(S) /\ Len(InOrder(S)) = Cardinality(S)
         /\ \A i \in 1..Cardinality(S) : InOrder(S)[i] \in S
         /\ \A i, j \in 1..Cardinality(S) : i < j => InOrder(S)[i] < InOrder(S)[j]
         /\ \A x \in S : \E i \in 1..Cardinality(S) : InOrder(S)[i] = x
<1> DEFINE n == Cardinality(S)
           f == InOrder(S)
<1>1. n \in Nat
  BY FS_CardinalityType
<1>2. Sorted(S, f)
  <2>1. \E s \in [1..n -> S] : \A i, j \in 1..n : i < j => s[i] < s[j]
    BY SortedExists DEF Sorted
  <2> QED BY <2>1 DEF Sorted, InOrder
<1> HIDE DEF f
<1>3. f \in [1..n -> S] /\ \A i, j \in 1..n : i < j => f[i] < f[j]
  BY <1>2 DEF Sorted
<1> HIDE DEF n
<1>4. ASSUME NEW i \in 1..n, NEW j \in 1..n, f[i] = f[j] PROVE i = j
  <2>1. f[i] \in Nat /\ f[j] \in Nat
    BY <1>3
  <2> QED BY <1>1, <1>3, <1>4, <2>1
<1>5. f \in Injection(1..n, S)
  BY <1>3, <1>4 DEF Injection, IsInjective
<1>6. Cardinality(1..n) = n
  BY <1>1, FS_Interval
<1>7. f \in Surjection(1..n, S)
  BY <1>5, <1>6, FS_Injection DEF n
<1>8. \A x \in S : \E i \in 1..n : f[i] = x
  BY <1>3, <1>7 DEF Surjection
<1>9. f \in Seq(S) /\ Len(f) = n
  BY <1>1, <1>3
<1> QED BY <1>1, <1>3, <1>8, <1>9 DEF n, f

(* The first k of a set are k, and the least.                              *)
LEMMA FirstIs ==
  ASSUME NEW S \in SUBSET Nat, IsFiniteSet(S), NEW k \in 0..Cardinality(S)
  PROVE  /\ FirstOf(S, k) \subseteq S
         /\ IsFiniteSet(FirstOf(S, k)) /\ Cardinality(FirstOf(S, k)) = k
         /\ \A x \in S, y \in FirstOf(S, k) : x <= y => x \in FirstOf(S, k)
         /\ k = Cardinality(S) => FirstOf(S, k) = S
<1> DEFINE n == Cardinality(S)
           f == InOrder(S)
           F == FirstOf(S, k)
           g == [i \in 1..k |-> f[i]]
<1>1. /\ n \in Nat /\ k \in Nat /\ k <= n
      /\ \A i \in 1..n : f[i] \in S
      /\ \A i, j \in 1..n : i < j => f[i] < f[j]
      /\ \A x \in S : \E i \in 1..n : f[i] = x
  <2>1. n \in Nat
    BY FS_CardinalityType
  <2> QED BY <2>1, InOrderIs
<1>2. \A x : x \in F <=> \E i \in 1..k : f[i] = x
  BY DEF FirstOf
<1> HIDE DEF n, f, F
<1>3. F \subseteq S
  BY <1>1, <1>2
<1>4. g \in Surjection(1..k, F)
  BY <1>2 DEF Surjection
<1>5. ASSUME NEW i \in 1..k, NEW j \in 1..k, g[i] = g[j] PROVE i = j
  <2>1. f[i] = f[j] /\ i \in 1..n /\ j \in 1..n
    BY <1>1, <1>5
  <2>2. f[i] \in Nat /\ f[j] \in Nat
    BY <1>1, <2>1
  <2> QED BY <1>1, <2>1, <2>2
<1>6. g \in Injection(1..k, F)
  BY <1>2, <1>5 DEF Injection, IsInjective
<1>7. IsFiniteSet(1..k) /\ Cardinality(1..k) = k
  BY <1>1, FS_Interval
<1>8. IsFiniteSet(F) /\ Cardinality(F) = k
  BY <1>4, <1>6, <1>7, FS_Surjection
<1>9. ASSUME NEW x \in S, NEW y \in F, x <= y PROVE x \in F
  <2>1. PICK i \in 1..k : f[i] = y
    BY <1>2
  <2>2. PICK j \in 1..n : f[j] = x
    BY <1>1
  <2>3. x \in Nat /\ y \in Nat /\ ~(y < x)
    BY <1>3, <1>9
  <2>4. ~(i < j)
    BY <1>1, <2>1, <2>2, <2>3
  <2>5. j \in 1..k
    BY <1>1, <2>4
  <2> QED BY <1>2, <2>2, <2>5
<1>10. k = n => F = S
  BY <1>1, <1>2, <1>3
<1> QED BY <1>3, <1>8, <1>9, <1>10 DEF n, F

(* Where none of the first k goes, whatever else goes or comes, the        *)
(* first k then are new or were among them.                                *)
LEMMA FirstStays ==
  ASSUME NEW S \in SUBSET Nat, IsFiniteSet(S), NEW T \in SUBSET Nat, IsFiniteSet(T),
         NEW k \in 0..Cardinality(S), FirstOf(S, k) \subseteq T
  PROVE  k \in 0..Cardinality(T) /\ FirstOf(T, k) \cap S \subseteq FirstOf(S, k)
<1> DEFINE F == FirstOf(S, k)
           G == FirstOf(T, k)
<1>1. /\ F \subseteq S /\ IsFiniteSet(F) /\ Cardinality(F) = k
      /\ \A x \in S, y \in F : x <= y => x \in F
  BY FirstIs
<1>2. k \in 0..Cardinality(T)
  <2>1. k \in Nat /\ Cardinality(T) \in Nat
    BY FS_CardinalityType
  <2>2. Cardinality(F) <= Cardinality(T)
    BY FS_Subset
  <2> QED BY <1>1, <2>1, <2>2
<1>3. /\ G \subseteq T /\ IsFiniteSet(G) /\ Cardinality(G) = k
      /\ \A x \in T, y \in G : x <= y => x \in G
  BY <1>2, FirstIs
<1> HIDE DEF F, G
<1>4. ASSUME NEW x \in G, x \in S, x \notin F PROVE FALSE
  <2>1. ASSUME NEW y \in F PROVE y \in G
    <3>1. x \in Nat /\ y \in Nat /\ ~(x <= y)
      BY <1>1, <1>4
    <3>2. y \in T /\ y <= x
      BY <3>1 DEF F
    <3> QED BY <1>3, <3>2
  <2>2. F \cup {x} \in SUBSET G
    BY <2>1
  <2>3. Cardinality(F \cup {x}) = k + 1
    BY <1>1, <1>4, FS_AddElement
  <2>4. Cardinality(F \cup {x}) <= Cardinality(G)
    BY <1>3, <2>2, FS_Subset
  <2> QED BY <1>3, <2>3, <2>4
<1> QED BY <1>2, <1>4 DEF F, G

=============================================================================
