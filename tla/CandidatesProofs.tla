---------------------------- MODULE CandidatesProofs ----------------------------
(***************************************************************************)
(* What the planner gives, for every snapshot: Ascending enumerates a set, *)
(* and each candidate is a pair of two different copies of one item.       *)
(***************************************************************************)
EXTENDS Candidates, FiniteSetTheorems, SequenceTheorems, TLAPS

Distinguishes(w, S) ==
    w \in [S -> Nat] /\ \A x, y \in S : w[x] = w[y] => x = y

\* The number of elements before x is a position, and two elements have
\* different ones: it is larger for the element with the larger weight.
LEMMA RankIsPosition ==
    ASSUME NEW S, IsFiniteSet(S), NEW w, Distinguishes(w, S), NEW x \in S
    PROVE  /\ IsFiniteSet(Before(S, w, x))
           /\ Cardinality(Before(S, w, x)) \in 0..(Cardinality(S) - 1)
<1> DEFINE B == Before(S, w, x)
<1>1. B \subseteq S \ {x}
  BY DEF Before, Distinguishes
<1>2. /\ IsFiniteSet(S \ {x})
      /\ Cardinality(S \ {x}) = Cardinality(S) - 1
  BY FS_RemoveElement
<1>3. IsFiniteSet(B) /\ Cardinality(B) <= Cardinality(S) - 1
  BY <1>1, <1>2, FS_Subset
<1>4. Cardinality(B) \in Nat /\ Cardinality(S) \in Nat
  BY <1>3, FS_CardinalityType
<1> QED BY <1>3, <1>4

LEMMA RankGrows ==
    ASSUME NEW S, IsFiniteSet(S), NEW w, Distinguishes(w, S),
           NEW x \in S, NEW y \in S, w[x] < w[y]
    PROVE  Cardinality(Before(S, w, x)) < Cardinality(Before(S, w, y))
<1>1. Before(S, w, x) \subseteq Before(S, w, y)
  BY DEF Before, Distinguishes
<1>2. x \in Before(S, w, y) /\ x \notin Before(S, w, x)
  BY DEF Before, Distinguishes
<1>3. IsFiniteSet(Before(S, w, x)) /\ IsFiniteSet(Before(S, w, y))
  BY RankIsPosition
<1>4. /\ Cardinality(Before(S, w, x)) <= Cardinality(Before(S, w, y))
      /\ Cardinality(Before(S, w, x)) # Cardinality(Before(S, w, y))
  BY <1>1, <1>2, <1>3, FS_Subset
<1>5. /\ Cardinality(Before(S, w, x)) \in Nat
      /\ Cardinality(Before(S, w, y)) \in Nat
  BY <1>3, FS_CardinalityType
<1> QED BY <1>4, <1>5

\* Every position is taken, because there are as many as elements.
LEMMA RankIsOnto ==
    ASSUME NEW S, IsFiniteSet(S), NEW w, Distinguishes(w, S),
           NEW n \in 1..Cardinality(S)
    PROVE  \E x \in S : Cardinality(Before(S, w, x)) = n - 1
<1> DEFINE T == 0..(Cardinality(S) - 1)
           rank == [x \in S |-> Cardinality(Before(S, w, x))]
<1>1. Cardinality(S) \in Nat
  BY FS_CardinalityType
<1>2. IsFiniteSet(T) /\ Cardinality(T) = Cardinality(S)
  <2>1. 0 \in Int /\ Cardinality(S) - 1 \in Int
    BY <1>1
  <2>2. /\ IsFiniteSet(T)
        /\ Cardinality(T) = IF 0 > Cardinality(S) - 1 THEN 0
                            ELSE (Cardinality(S) - 1) - 0 + 1
    BY <2>1, FS_Interval
  <2> QED BY <1>1, <2>2
<1>3. rank \in [S -> T]
  BY RankIsPosition
<1>4. ASSUME NEW x \in S, NEW y \in S, rank[x] = rank[y]
      PROVE  x = y
  <2>1. rank[x] \in Nat /\ rank[y] \in Nat
    BY <1>1, <1>3
  <2>2. ~(w[x] < w[y]) /\ ~(w[y] < w[x])
    BY <1>4, <2>1, RankGrows
  <2>3. w[x] \in Nat /\ w[y] \in Nat
    BY DEF Distinguishes
  <2> QED BY <2>2, <2>3 DEF Distinguishes
<1>5. rank \in Injection(S, T)
  BY <1>3, <1>4, Z3 DEF Injection, IsInjective
<1>6. rank \in Surjection(S, T)
  BY <1>2, <1>5, FS_Injection
<1>7. n - 1 \in T
  BY <1>1
<1>8. \E x \in S : rank[x] = n - 1
  BY <1>6, <1>7 DEF Surjection
<1> QED BY <1>8

\* No element of s occurs twice.
Distinct(s) == \A m, n \in 1..Len(s) : m # n => s[m] # s[n]

\* Ascending(S, w) lists the elements of S, each of them once.
LEMMA AscendingEnumerates ==
    ASSUME NEW S, IsFiniteSet(S), NEW w, Distinguishes(w, S)
    PROVE  /\ Ascending(S, w) \in Seq(S)
           /\ Len(Ascending(S, w)) = Cardinality(S)
           /\ Distinct(Ascending(S, w))
           /\ \A x \in S : \E n \in 1..Cardinality(S) :
                 Ascending(S, w)[n] = x
<1> DEFINE A == Ascending(S, w)
<1>1. Cardinality(S) \in Nat
  BY FS_CardinalityType
<1>2. ASSUME NEW n \in 1..Cardinality(S)
      PROVE  A[n] \in S /\ Cardinality(Before(S, w, A[n])) = n - 1
  BY RankIsOnto DEF Ascending
<1>3. A \in [1..Cardinality(S) -> S]
  BY <1>2 DEF Ascending
<1>4. A \in Seq(S) /\ Len(A) = Cardinality(S)
  BY <1>1, <1>3
<1>5. ASSUME NEW m \in 1..Cardinality(S), NEW n \in 1..Cardinality(S),
             m # n
      PROVE  A[m] # A[n]
  BY <1>1, <1>2, <1>5
<1>6. \A x \in S : \E n \in 1..Cardinality(S) : A[n] = x
  <2> HIDE DEF A
  <2> DEFINE D == 1..Cardinality(S)
  <2>1. IsFiniteSet(D) /\ Cardinality(D) = Cardinality(S)
    <3>1. 1 \in Int /\ Cardinality(S) \in Int
      BY <1>1
    <3>2. /\ IsFiniteSet(D)
          /\ Cardinality(D) = IF 1 > Cardinality(S) THEN 0
                              ELSE Cardinality(S) - 1 + 1
      BY <3>1, FS_Interval
    <3> QED BY <1>1, <3>2
  <2>2. A \in Injection(D, S)
    BY <1>3, <1>5, Z3 DEF Injection, IsInjective
  <2>3. A \in Surjection(D, S)
    <3> HIDE DEF D
    <3> QED BY <2>1, <2>2, FS_Injection
  <2> QED BY <2>3 DEF Surjection
<1>7. Distinct(A)
  <2> HIDE DEF A
  <2> QED BY <1>4, <1>5 DEF Distinct
<1> QED BY <1>4, <1>6, <1>7
-----------------------------------------------------------------------------
\* A snapshot without duplicate keys holds each instance under its own key.
LEMMA KeysDistinguish ==
    ASSUME NEW snapshot \in Snapshot,
           ~HasDuplicateStableKeys(snapshot.furniture),
           NEW S, S \subseteq Range(snapshot.furniture)
    PROVE  /\ IsFiniteSet(S)
           /\ Distinguishes([i \in S |-> i.stable_key], S)
<1> DEFINE F == snapshot.furniture
           w == [i \in S |-> i.stable_key]
<1>1. F \in Seq(FurnitureInstance)
  BY DEF Snapshot
<1>2. IsFiniteSet(S)
  <2>1. Len(F) \in Nat /\ DOMAIN F = 1..Len(F)
    BY <1>1
  <2>2. IsFiniteSet(DOMAIN F)
    <3>1. 1 \in Int /\ Len(F) \in Int
      BY <2>1
    <3>2. IsFiniteSet(1..Len(F))
      BY <3>1, FS_Interval
    <3> QED BY <2>1, <3>2
  <2>3. F \in Surjection(DOMAIN F, Range(F))
    BY <1>1 DEF Surjection, Range
  <2>4. IsFiniteSet(Range(F))
    BY <2>2, <2>3, FS_Surjection
  <2> QED BY <2>4, FS_Subset
<1>3. \A i \in Range(F) : i \in FurnitureInstance
  BY <1>1 DEF Range
<1>4. w \in [S -> Nat]
  <2>1. \A i \in S : i.stable_key \in Keys \cup {0}
    BY <1>3 DEF FurnitureInstance
  <2>2. Keys \cup {0} \subseteq Nat
    BY KeysAssumption
  <2>3. \A i \in S : i.stable_key \in Nat
    BY <2>1, <2>2
  <2> QED BY <2>3
<1>5. \A x, y \in S : x.stable_key = y.stable_key => x = y
  BY DEF HasDuplicateStableKeys, Range
<1> QED BY <1>2, <1>4, <1>5 DEF Distinguishes

LEMMA ByKeyEnumerates ==
    ASSUME NEW snapshot \in Snapshot,
           ~HasDuplicateStableKeys(snapshot.furniture),
           NEW S, S \subseteq Range(snapshot.furniture)
    PROVE  /\ ByKey(S) \in Seq(S)
           /\ Len(ByKey(S)) = Cardinality(S)
           /\ Distinct(ByKey(S))
BY KeysDistinguish, AscendingEnumerates DEF ByKey

PairsOf(G) == {p \in G \X G : p[1] # p[2]}

LEMMA PairIsPair ==
    ASSUME NEW G, NEW p, NEW x \in G, NEW y \in G, x # y, p = <<x, y>>
    PROVE  p \in PairsOf(G) /\ p[1] = x /\ p[2] = y
BY DEF PairsOf

\* No two pairs of s share a copy, and all copies of s are in T.
Disjoint(s) ==
    \A m, n \in 1..Len(s) :
        m # n => {s[m][1], s[m][2]} \cap {s[n][1], s[n][2]} = {}
Within(s, T) == \A n \in 1..Len(s) : s[n][1] \in T /\ s[n][2] \in T

\* s is a list of k disjoint pairs of members of G, all of them in T.
Pairing(s, G, T, k) ==
    s \in Seq(PairsOf(G)) /\ Len(s) = k /\ Disjoint(s) /\ Within(s, T)

\* The elements of s at the positions from a to b.
Slice(s, a, b) == {s[n] : n \in a..b}

LEMMA SlicesAreDisjoint ==
    ASSUME NEW s, Distinct(s), Len(s) \in Nat,
           NEW a \in Nat, NEW b \in Nat, NEW c \in Nat, NEW d \in Nat,
           1 <= a, b < c, d <= Len(s)
    PROVE  Slice(s, a, b) \cap Slice(s, c, d) = {}
<1>1. ASSUME NEW m \in a..b, NEW n \in c..d
      PROVE  s[m] # s[n]
  <2>1. m \in 1..Len(s) /\ n \in 1..Len(s) /\ m # n
    OBVIOUS
  <2> QED BY <2>1 DEF Distinct
<1> QED BY <1>1 DEF Slice

LEMMA DistinctConcat ==
    ASSUME NEW U, NEW L, U \cap L = {},
           NEW s \in Seq(U), NEW t \in Seq(L), Distinct(s), Distinct(t)
    PROVE  Distinct(s \o t)
<1> DEFINE G == U \cup L
<1>1. s \in Seq(G) /\ t \in Seq(G) /\ Len(s) \in Nat /\ Len(t) \in Nat
  OBVIOUS
<1>2. /\ s \o t \in Seq(G) /\ Len(s \o t) = Len(s) + Len(t)
      /\ \A n \in 1..Len(s) : (s \o t)[n] = s[n]
      /\ \A n \in 1..Len(t) : (s \o t)[Len(s) + n] = t[n]
  BY <1>1
<1>3. ASSUME NEW m \in 1..(Len(s) + Len(t)), NEW n \in 1..(Len(s) + Len(t)),
             m < n
      PROVE  (s \o t)[m] # (s \o t)[n]
  <2>1. CASE n <= Len(s)
    BY <1>1, <1>2, <1>3, <2>1 DEF Distinct
  <2>2. CASE m <= Len(s) /\ Len(s) < n
    <3>1. (s \o t)[m] \in U
      BY <1>2, <2>2
    <3>2. n - Len(s) \in 1..Len(t) /\ n = Len(s) + (n - Len(s))
      BY <1>1, <2>2
    <3>3. (s \o t)[n] \in L
      BY <1>2, <3>2
    <3> QED BY <3>1, <3>3
  <2>3. CASE Len(s) < m
    <3>1. /\ n - Len(s) \in 1..Len(t) /\ n = Len(s) + (n - Len(s))
          /\ m - Len(s) \in 1..Len(t) /\ m = Len(s) + (m - Len(s))
          /\ m - Len(s) # n - Len(s)
      BY <1>1, <1>3, <2>3
    <3>2. /\ (s \o t)[m] = t[m - Len(s)]
          /\ (s \o t)[n] = t[n - Len(s)]
      BY <1>2, <3>1
    <3> QED BY <3>1, <3>2 DEF Distinct
  <2> QED BY <1>1, <2>1, <2>2, <2>3
<1>4. Distinct(s \o t)
  <2> SUFFICES ASSUME NEW m \in 1..Len(s \o t), NEW n \in 1..Len(s \o t),
                      m # n
               PROVE  (s \o t)[m] # (s \o t)[n]
    BY DEF Distinct
  <2>1. m \in Int /\ n \in Int /\ (m < n \/ n < m)
    OBVIOUS
  <2> QED BY <1>2, <1>3, <2>1
<1> QED BY <1>4

\* Two lists of disjoint pairs over different copies make one such list.
LEMMA DisjointConcat ==
    ASSUME NEW G, NEW s, NEW t, NEW A, NEW B, NEW j, NEW k,
           Pairing(s, G, A, j), Pairing(t, G, B, k), A \cap B = {}
    PROVE  Pairing(s \o t, G, A \cup B, j + k)
<1>0. /\ s \in Seq(PairsOf(G)) /\ t \in Seq(PairsOf(G))
      /\ Disjoint(s) /\ Disjoint(t) /\ Within(s, A) /\ Within(t, B)
      /\ Len(s) = j /\ Len(t) = k
  BY DEF Pairing
<1>1. Len(s) \in Nat /\ Len(t) \in Nat
  BY <1>0
<1>2. /\ s \o t \in Seq(PairsOf(G)) /\ Len(s \o t) = Len(s) + Len(t)
      /\ \A n \in 1..Len(s) : (s \o t)[n] = s[n]
      /\ \A n \in 1..Len(t) : (s \o t)[Len(s) + n] = t[n]
  BY <1>0, <1>1
<1>3. ASSUME NEW n \in 1..(Len(s) + Len(t))
      PROVE  \/ n \in 1..Len(s) /\ (s \o t)[n] = s[n]
             \/ n - Len(s) \in 1..Len(t) /\ (s \o t)[n] = t[n - Len(s)]
  <2>1. CASE n <= Len(s)
    BY <1>1, <1>2, <2>1
  <2>2. CASE Len(s) < n
    <3>1. n - Len(s) \in 1..Len(t) /\ n = Len(s) + (n - Len(s))
      BY <1>1, <2>2
    <3> QED BY <1>2, <3>1
  <2> QED BY <1>1, <2>1, <2>2
<1>4. Within(s \o t, A \cup B)
  BY <1>0, <1>2, <1>3 DEF Within
<1>5. Disjoint(s \o t)
  <2> SUFFICES ASSUME NEW m \in 1..Len(s \o t), NEW n \in 1..Len(s \o t),
                      m # n
               PROVE  {(s \o t)[m][1], (s \o t)[m][2]}
                         \cap {(s \o t)[n][1], (s \o t)[n][2]} = {}
    BY DEF Disjoint
  <2>1. \/ m \in 1..Len(s) /\ (s \o t)[m] = s[m]
        \/ m - Len(s) \in 1..Len(t) /\ (s \o t)[m] = t[m - Len(s)]
    BY <1>2, <1>3
  <2>2. \/ n \in 1..Len(s) /\ (s \o t)[n] = s[n]
        \/ n - Len(s) \in 1..Len(t) /\ (s \o t)[n] = t[n - Len(s)]
    BY <1>2, <1>3
  <2>3. m - Len(s) # n - Len(s)
    BY <1>1
  <2> QED BY <1>0, <2>1, <2>2, <2>3 DEF Within, Disjoint
<1> QED BY <1>0, <1>2, <1>4, <1>5 DEF Pairing

\* The loops over one vector pair its remaining elements two by two.
LEMMA TwoByTwoPairs ==
    ASSUME NEW G, NEW s \in Seq(G), NEW from \in 0..Len(s), Distinct(s)
    PROVE  Pairing(TwoByTwo(s, from), G, Slice(s, from + 1, Len(s)),
                   (Len(s) - from) \div 2)
<1> DEFINE count == (Len(s) - from) \div 2
           t == TwoByTwo(s, from)
<1>1. Len(s) \in Nat /\ count \in Nat /\ from + 2 * count <= Len(s)
  OBVIOUS
<1>2. ASSUME NEW n \in 1..count
      PROVE  /\ t[n] = <<s[from + 2 * n - 1], s[from + 2 * n]>>
             /\ from + 2 * n - 1 \in (from + 1)..Len(s)
             /\ from + 2 * n \in (from + 1)..Len(s)
             /\ from + 2 * n - 1 \in 1..Len(s)
             /\ from + 2 * n \in 1..Len(s)
  BY <1>1 DEF TwoByTwo
<1>3. ASSUME NEW n \in 1..count
      PROVE  /\ t[n] \in PairsOf(G)
             /\ t[n][1] \in Slice(s, from + 1, Len(s))
             /\ t[n][2] \in Slice(s, from + 1, Len(s))
  <2>1. from + 2 * n - 1 # from + 2 * n
    BY <1>1
  <2>2. s[from + 2 * n - 1] # s[from + 2 * n]
    BY <1>2, <2>1 DEF Distinct
  <2>3. s[from + 2 * n - 1] \in G /\ s[from + 2 * n] \in G
    BY <1>2
  <2>4. /\ t[n] \in PairsOf(G)
        /\ t[n][1] = s[from + 2 * n - 1] /\ t[n][2] = s[from + 2 * n]
    <3> HIDE DEF t, count
    <3>1. t[n] = <<s[from + 2 * n - 1], s[from + 2 * n]>>
      BY <1>2
    <3> QED BY <2>2, <2>3, <3>1, PairIsPair, SMT
  <2> QED BY <1>2, <2>4 DEF Slice
<1>4. t \in [1..count -> PairsOf(G)]
  BY <1>3 DEF TwoByTwo
<1>5. t \in Seq(PairsOf(G)) /\ Len(t) = count
  <2> HIDE DEF t, count
  <2> QED BY <1>1, <1>4
<1>6. Disjoint(t)
  <2> SUFFICES ASSUME NEW m \in 1..count, NEW n \in 1..count, m # n
               PROVE  {t[m][1], t[m][2]} \cap {t[n][1], t[n][2]} = {}
    BY <1>5 DEF Disjoint
  <2>1. /\ from + 2 * m - 1 # from + 2 * n - 1
        /\ from + 2 * m - 1 # from + 2 * n
        /\ from + 2 * m # from + 2 * n - 1
        /\ from + 2 * m # from + 2 * n
    BY <1>1
  <2>2. /\ s[from + 2 * m - 1] # s[from + 2 * n - 1]
        /\ s[from + 2 * m - 1] # s[from + 2 * n]
        /\ s[from + 2 * m] # s[from + 2 * n - 1]
        /\ s[from + 2 * m] # s[from + 2 * n]
    BY <1>2, <2>1 DEF Distinct
  <2>3. /\ t[m] = <<s[from + 2 * m - 1], s[from + 2 * m]>>
        /\ t[n] = <<s[from + 2 * n - 1], s[from + 2 * n]>>
    BY <1>2
  <2> QED BY <2>2, <2>3
<1>7. Within(t, Slice(s, from + 1, Len(s)))
  BY <1>3, <1>5 DEF Within
<1> QED BY <1>5, <1>6, <1>7 DEF Pairing

\* The loops over two vectors pair elements at the same distance.
LEMMA ZipPairs ==
    ASSUME NEW G, NEW L, NEW R, L \subseteq G, R \subseteq G,
           L \cap R = {}, NEW left \in Seq(L), NEW right \in Seq(R),
           Distinct(left), Distinct(right),
           NEW i \in Nat, NEW j \in Nat, NEW count \in Nat,
           i + count <= Len(left), j + count <= Len(right)
    PROVE  Pairing(Zip(left, i, right, j, count), G,
                   Slice(left, i + 1, i + count)
                      \cup Slice(right, j + 1, j + count), count)
<1> DEFINE t == Zip(left, i, right, j, count)
<1>1. ASSUME NEW n \in 1..count
      PROVE  /\ t[n] = <<left[i + n], right[j + n]>>
             /\ i + n \in (i + 1)..(i + count) /\ i + n \in 1..Len(left)
             /\ j + n \in (j + 1)..(j + count) /\ j + n \in 1..Len(right)
             /\ left[i + n] \in L /\ right[j + n] \in R
  <2>1. i + n \in 1..Len(left) /\ j + n \in 1..Len(right)
    OBVIOUS
  <2>2. left[i + n] \in L /\ right[j + n] \in R
    BY <2>1
  <2> QED BY <2>1, <2>2 DEF Zip
<1>2. ASSUME NEW n \in 1..count
      PROVE  /\ t[n] \in PairsOf(G) /\ t[n][2] \in R
             /\ t[n][1] \in Slice(left, i + 1, i + count)
             /\ t[n][2] \in Slice(right, j + 1, j + count)
  <2> HIDE DEF t
  <2>1. t[n] = <<left[i + n], right[j + n]>>
    BY <1>1
  <2>2. /\ left[i + n] \in G /\ right[j + n] \in G
        /\ left[i + n] # right[j + n]
    BY <1>1
  <2>3. /\ t[n] \in PairsOf(G)
        /\ t[n][1] = left[i + n] /\ t[n][2] = right[j + n]
    BY <2>1, <2>2, PairIsPair, SMT
  <2> QED BY <1>1, <2>3 DEF Slice
<1>3. t \in [1..count -> PairsOf(G)]
  BY <1>2 DEF Zip
<1>4. t \in Seq(PairsOf(G)) /\ Len(t) = count
  <2> HIDE DEF t
  <2> QED BY <1>3
<1>5. Disjoint(t)
  <2> SUFFICES ASSUME NEW m \in 1..count, NEW n \in 1..count, m # n
               PROVE  {t[m][1], t[m][2]} \cap {t[n][1], t[n][2]} = {}
    BY <1>4 DEF Disjoint
  <2>1. i + m # i + n /\ j + m # j + n
    OBVIOUS
  <2>2. left[i + m] # left[i + n] /\ right[j + m] # right[j + n]
    BY <1>1, <2>1 DEF Distinct
  <2>3. /\ t[m] = <<left[i + m], right[j + m]>>
        /\ t[n] = <<left[i + n], right[j + n]>>
        /\ left[i + m] \in L /\ left[i + n] \in L
        /\ right[j + m] \in R /\ right[j + n] \in R
    BY <1>1
  <2> QED BY <2>2, <2>3
<1>6. Within(t, Slice(left, i + 1, i + count)
                   \cup Slice(right, j + 1, j + count))
  BY <1>2, <1>4 DEF Within
<1> QED BY <1>4, <1>5, <1>6 DEF Pairing

LEMMA ZipConsumes ==
    ASSUME NEW R, NEW left, NEW right \in Seq(R), NEW i, NEW j \in Nat,
           NEW count \in Nat, j + count <= Len(right)
    PROVE  \A n \in 1..count : Zip(left, i, right, j, count)[n][2] \in R
<1>1. ASSUME NEW n \in 1..count
      PROVE  right[j + n] \in R
  <2>1. j + n \in 1..Len(right)
    OBVIOUS
  <2> QED BY <2>1
<1> QED BY <1>1 DEF Zip

StoredOf(G) == {i \in G : ~i.placed}
LiveOf(G) == {i \in G : i.placed /\ i.runtime_match_count = 1}
UnavailableOf(G) == {i \in G : i.placed /\ i.runtime_match_count # 1}

\* How many pairs a group gives: one for each copy that may go, while there
\* is another copy for it; the pairs that consume a stored copy come first.
PairCount(G) ==
    Smaller(Cardinality(StoredOf(G)) + Cardinality(LiveOf(G)),
            (Cardinality(StoredOf(G)) + Cardinality(LiveOf(G))
               + Cardinality(UnavailableOf(G))) \div 2)
StoredPairCount(G) == Smaller(Cardinality(StoredOf(G)), PairCount(G))

\* The four loops together make as many pairs as the copies allow, and as
\* few of these as they allow consume a placed copy.
LEMMA PairCounts ==
    ASSUME NEW s \in Nat, NEW u \in Nat, NEW l \in Nat,
           NEW mixed, NEW unavailable_used, NEW live_used,
           NEW unavailable_live, NEW stored_pairs, NEW live_pairs,
           mixed = Smaller(u + l, s),
           unavailable_used = Smaller(mixed, u),
           live_used = mixed - unavailable_used,
           unavailable_live = Smaller(u - unavailable_used, l - live_used),
           stored_pairs = mixed + (s - mixed) \div 2,
           live_pairs = (l - (live_used + unavailable_live)) \div 2
    PROVE  /\ stored_pairs \in Nat /\ live_pairs \in Nat
           /\ stored_pairs + unavailable_live + live_pairs
                 = Smaller(s + l, (s + l + u) \div 2)
           /\ stored_pairs
                 = Smaller(s, stored_pairs + unavailable_live + live_pairs)
<1>1. CASE u + l <= s
  BY <1>1 DEF Smaller
<1>2. CASE s < u + l /\ s >= u
  BY <1>2 DEF Smaller
<1>3. CASE s < u /\ u - s >= l
  BY <1>3 DEF Smaller
<1>4. CASE s < u /\ u - s < l
  BY <1>4 DEF Smaller
<1> QED BY <1>1, <1>2, <1>3, <1>4

\* The pairs of a group are disjoint pairs of two different members of it,
\* each consuming a copy that can be taken away; PairCount(G) of them.
LEMMA GroupPairsAreMembers ==
    ASSUME NEW snapshot \in Snapshot,
           ~HasDuplicateStableKeys(snapshot.furniture),
           NEW G, G \subseteq Range(snapshot.furniture)
    PROVE  /\ Pairing(GroupPairs(G), G, G, PairCount(G))
           /\ PairCount(G) \in Nat /\ StoredPairCount(G) \in Nat
           /\ \A n \in 1..PairCount(G) :
                 GroupPairs(G)[n][2]
                    \in IF n <= StoredPairCount(G) THEN StoredOf(G)
                                                   ELSE LiveOf(G)
<1> DEFINE S == StoredOf(G)
           L == LiveOf(G)
           U == UnavailableOf(G)
           stored == Stored(G)
           live == PlacedLive(G)
           unavailable == PlacedUnavailable(G)
           placed_keeps == unavailable \o live
           mixed == Smaller(Len(placed_keeps), Len(stored))
           unavailable_used == Smaller(mixed, Len(unavailable))
           live_used == mixed - unavailable_used
           unavailable_live == Smaller(Len(unavailable) - unavailable_used,
                                       Len(live) - live_used)
           stored_pairs == mixed + (Len(stored) - mixed) \div 2
           live_pairs == (Len(live) - (live_used + unavailable_live)) \div 2
           first == Zip(placed_keeps, 0, stored, 0, mixed)
           second == TwoByTwo(stored, mixed)
           third == Zip(unavailable, unavailable_used, live, live_used,
                        unavailable_live)
           fourth == TwoByTwo(live, live_used + unavailable_live)
<1>0. /\ S \subseteq G /\ L \subseteq G /\ U \subseteq G
      /\ S \cap L = {} /\ S \cap U = {} /\ U \cap L = {}
  BY DEF StoredOf, LiveOf, UnavailableOf
<1>1. /\ stored \in Seq(S) /\ Distinct(stored)
      /\ Len(stored) = Cardinality(S) /\ Len(stored) \in Nat
  BY ByKeyEnumerates DEF Stored, StoredOf
<1>2. /\ live \in Seq(L) /\ Distinct(live)
      /\ Len(live) = Cardinality(L) /\ Len(live) \in Nat
  BY ByKeyEnumerates DEF PlacedLive, LiveOf
<1>3. /\ unavailable \in Seq(U) /\ Distinct(unavailable)
      /\ Len(unavailable) = Cardinality(U) /\ Len(unavailable) \in Nat
  BY ByKeyEnumerates DEF PlacedUnavailable, UnavailableOf
<1>4. GroupPairs(G) = first \o second \o third \o fourth
  BY DEF GroupPairs
<1> HIDE DEF S, L, U, stored, live, unavailable
<1>5. /\ placed_keeps \in Seq(U \cup L)
      /\ Len(placed_keeps) = Len(unavailable) + Len(live)
      /\ Distinct(placed_keeps)
      /\ \A n \in 1..Len(unavailable) : placed_keeps[n] = unavailable[n]
      /\ \A n \in 1..Len(live) : placed_keeps[Len(unavailable) + n] = live[n]
  <2>1. U \cap L = {}
    BY <1>0
  <2>2. Distinct(placed_keeps)
    BY <1>2, <1>3, <2>1, DistinctConcat
  <2>3. unavailable \in Seq(U \cup L) /\ live \in Seq(U \cup L)
    BY <1>2, <1>3
  <2>4. /\ placed_keeps \in Seq(U \cup L)
        /\ Len(placed_keeps) = Len(unavailable) + Len(live)
    BY <2>3
  <2>5. /\ \A n \in 1..Len(unavailable) : placed_keeps[n] = unavailable[n]
        /\ \A n \in 1..Len(live) :
              placed_keeps[Len(unavailable) + n] = live[n]
    BY <1>2, <1>3, <2>3
  <2> QED BY <2>2, <2>4, <2>5
<1>6. /\ mixed = Smaller(Len(unavailable) + Len(live), Len(stored))
      /\ unavailable_used = Smaller(mixed, Len(unavailable))
      /\ live_used = mixed - unavailable_used
      /\ unavailable_live = Smaller(Len(unavailable) - unavailable_used,
                                    Len(live) - live_used)
      /\ stored_pairs = mixed + (Len(stored) - mixed) \div 2
      /\ live_pairs = (Len(live) - (live_used + unavailable_live)) \div 2
  BY <1>5
<1> HIDE DEF placed_keeps, mixed, unavailable_used, live_used,
             unavailable_live, stored_pairs, live_pairs
<1>7. /\ mixed \in Nat /\ mixed <= Len(stored)
      /\ mixed <= Len(unavailable) + Len(live)
      /\ unavailable_used \in Nat /\ live_used \in Nat
      /\ unavailable_live \in Nat
      /\ unavailable_used + live_used = mixed
      /\ unavailable_used + unavailable_live <= Len(unavailable)
      /\ live_used + unavailable_live <= Len(live)
      /\ unavailable_used = mixed \/ unavailable_used = Len(unavailable)
  <2>1. Len(stored) \in Nat /\ Len(live) \in Nat /\ Len(unavailable) \in Nat
    BY <1>1, <1>2, <1>3
  <2>2. /\ mixed \in Nat /\ mixed <= Len(stored)
        /\ mixed <= Len(unavailable) + Len(live)
    BY <1>6, <2>1 DEF Smaller
  <2>3. /\ unavailable_used \in Nat /\ unavailable_used <= mixed
        /\ unavailable_used <= Len(unavailable)
        /\ unavailable_used = mixed \/ unavailable_used = Len(unavailable)
    BY <1>6, <2>1, <2>2 DEF Smaller
  <2>4. /\ live_used \in Nat /\ unavailable_used + live_used = mixed
        /\ live_used <= Len(live)
    <3>1. live_used = mixed - unavailable_used
      BY <1>6
    <3> QED BY <2>1, <2>2, <2>3, <3>1
  <2>5. /\ unavailable_live \in Nat
        /\ unavailable_live <= Len(unavailable) - unavailable_used
        /\ unavailable_live <= Len(live) - live_used
    <3>1. unavailable_live = Smaller(Len(unavailable) - unavailable_used,
                                     Len(live) - live_used)
      BY <1>6
    <3> QED BY <2>1, <2>3, <2>4, <3>1 DEF Smaller
  <2> QED BY <2>1, <2>2, <2>3, <2>4, <2>5
<1>8. /\ PairCount(G) = stored_pairs + unavailable_live + live_pairs
      /\ StoredPairCount(G) = stored_pairs
      /\ stored_pairs \in Nat /\ live_pairs \in Nat
  <2>1. /\ stored_pairs \in Nat /\ live_pairs \in Nat
        /\ stored_pairs + unavailable_live + live_pairs
              = Smaller(Len(stored) + Len(live),
                        (Len(stored) + Len(live) + Len(unavailable)) \div 2)
        /\ stored_pairs = Smaller(Len(stored),
                                  stored_pairs + unavailable_live + live_pairs)
    <3>1. /\ Len(stored) \in Nat /\ Len(live) \in Nat
          /\ Len(unavailable) \in Nat
      BY <1>1, <1>2, <1>3
    <3> QED BY <1>6, <3>1, PairCounts
  <2> QED BY <1>1, <1>2, <1>3, <2>1
          DEF PairCount, StoredPairCount, S, L, U
<1> DEFINE A == Slice(placed_keeps, 1, mixed) \cup Slice(stored, 1, mixed)
           B == Slice(stored, mixed + 1, Len(stored))
           C == Slice(unavailable, unavailable_used + 1,
                      unavailable_used + unavailable_live)
                  \cup Slice(live, live_used + 1, live_used + unavailable_live)
           D == Slice(live, live_used + unavailable_live + 1, Len(live))
<1>9. Pairing(first, G, A, mixed) /\ \A n \in 1..mixed : first[n][2] \in S
  <2>1. U \cup L \subseteq G /\ (U \cup L) \cap S = {}
    BY <1>0
  <2>2. 0 + mixed <= Len(placed_keeps) /\ 0 + mixed <= Len(stored)
    BY <1>1, <1>2, <1>3, <1>5, <1>7
  <2>3. Pairing(first, G, Slice(placed_keeps, 0 + 1, 0 + mixed)
                             \cup Slice(stored, 0 + 1, 0 + mixed), mixed)
    BY <1>0, <1>1, <1>5, <1>7, <2>1, <2>2, ZipPairs
  <2>4. 0 + 1 = 1 /\ 0 + mixed = mixed
    BY <1>7
  <2>5. \A n \in 1..mixed : first[n][2] \in S
    BY <1>1, <1>7, <2>2, ZipConsumes
  <2> QED BY <2>3, <2>4, <2>5
<1>10. /\ Pairing(second, G, B, (Len(stored) - mixed) \div 2)
       /\ \A n \in 1..Len(second) : second[n][2] \in S
  <2>1. stored \in Seq(G) /\ mixed \in 0..Len(stored)
    BY <1>0, <1>1, <1>7
  <2>2. Pairing(second, G, B, (Len(stored) - mixed) \div 2)
    BY <1>1, <2>1, TwoByTwoPairs
  <2>3. B \subseteq S
    <3>1. \A n \in (mixed + 1)..Len(stored) : stored[n] \in S
      BY <1>1, <1>7
    <3> QED BY <3>1 DEF Slice
  <2> QED BY <2>2, <2>3 DEF Within, Pairing
<1>11. /\ Pairing(third, G, C, unavailable_live)
       /\ \A n \in 1..unavailable_live : third[n][2] \in L
  <2>1. Pairing(third, G, C, unavailable_live)
    BY <1>0, <1>2, <1>3, <1>7, ZipPairs
  <2>2. \A n \in 1..unavailable_live : third[n][2] \in L
    BY <1>2, <1>7, ZipConsumes
  <2> QED BY <2>1, <2>2
<1>12. /\ Pairing(fourth, G, D, live_pairs)
       /\ \A n \in 1..Len(fourth) : fourth[n][2] \in L
  <2>1. live \in Seq(G) /\ live_used + unavailable_live \in 0..Len(live)
    BY <1>0, <1>2, <1>7
  <2>2. Pairing(fourth, G, D, live_pairs)
    BY <1>2, <1>6, <2>1, TwoByTwoPairs
  <2>3. D \subseteq L
    <3>1. \A n \in (live_used + unavailable_live + 1)..Len(live) :
             live[n] \in L
      BY <1>2, <1>7
    <3> QED BY <3>1 DEF Slice
  <2> QED BY <2>2, <2>3 DEF Within, Pairing
<1>13. A \cap B = {} /\ (A \cup B) \cap C = {} /\ (A \cup B \cup C) \cap D = {}
  <2>1. Slice(stored, 1, mixed) \cap B = {}
    <3>1. mixed + 1 \in Nat /\ mixed < mixed + 1
      BY <1>7
    <3> QED BY <1>1, <1>7, <3>1, SlicesAreDisjoint
  <2>2. Slice(live, 1, live_used)
           \cap Slice(live, live_used + 1, live_used + unavailable_live) = {}
    <3>1. live_used + unavailable_live \in Nat /\ live_used + 1 \in Nat
      BY <1>7
    <3> QED BY <1>2, <1>7, <3>1, SlicesAreDisjoint
  <2>3. Slice(unavailable, 1, unavailable_used)
           \cap Slice(unavailable, unavailable_used + 1,
                      unavailable_used + unavailable_live) = {}
    <3>1. /\ unavailable_used + unavailable_live \in Nat
          /\ unavailable_used + 1 \in Nat
      BY <1>7
    <3> QED BY <1>3, <1>7, <3>1, SlicesAreDisjoint
  <2>4. /\ Slice(live, 1, live_used) \cap D = {}
        /\ Slice(live, live_used + 1, live_used + unavailable_live) \cap D
              = {}
    <3> DEFINE a == live_used + unavailable_live
    <3>1. /\ a \in Nat /\ a + 1 \in Nat /\ a < a + 1 /\ live_used < a + 1
          /\ live_used + 1 \in Nat /\ 1 <= live_used + 1
      BY <1>7
    <3> HIDE DEF a
    <3>2. Slice(live, 1, live_used) \cap Slice(live, a + 1, Len(live)) = {}
      BY <1>2, <1>7, <3>1, SlicesAreDisjoint
    <3>3. Slice(live, live_used + 1, a) \cap Slice(live, a + 1, Len(live))
             = {}
      BY <1>2, <3>1, SlicesAreDisjoint
    <3> QED BY <3>2, <3>3 DEF a
  <2>5. Slice(placed_keeps, 1, mixed)
           \subseteq Slice(unavailable, 1, unavailable_used)
                        \cup Slice(live, 1, live_used)
    <3>1. ASSUME NEW n \in 1..mixed
          PROVE  \/ n \in 1..unavailable_used
                    /\ placed_keeps[n] = unavailable[n]
                 \/ n - Len(unavailable) \in 1..live_used
                    /\ placed_keeps[n] = live[n - Len(unavailable)]
      <4>1. CASE n <= Len(unavailable)
        BY <1>3, <1>5, <1>7, <4>1
      <4>2. CASE n > Len(unavailable)
        <5>1. /\ n - Len(unavailable) \in 1..live_used
              /\ n - Len(unavailable) \in 1..Len(live)
              /\ n = Len(unavailable) + (n - Len(unavailable))
          BY <1>2, <1>3, <1>7, <4>2
        <5> QED BY <1>5, <5>1
      <4> QED BY <1>3, <4>1, <4>2
    <3> QED BY <1>7, <3>1 DEF Slice
  <2>6. /\ Slice(stored, 1, mixed) \subseteq S /\ B \subseteq S
        /\ Slice(live, 1, live_used) \subseteq L
        /\ Slice(live, live_used + 1, live_used + unavailable_live)
              \subseteq L
        /\ D \subseteq L
        /\ Slice(unavailable, 1, unavailable_used) \subseteq U
        /\ Slice(unavailable, unavailable_used + 1,
                 unavailable_used + unavailable_live) \subseteq U
    <3>1. /\ \A n \in 1..mixed : stored[n] \in S
          /\ \A n \in (mixed + 1)..Len(stored) : stored[n] \in S
      BY <1>1, <1>7
    <3>2. /\ \A n \in 1..live_used : live[n] \in L
          /\ \A n \in (live_used + 1)..(live_used + unavailable_live) :
                live[n] \in L
          /\ \A n \in (live_used + unavailable_live + 1)..Len(live) :
                live[n] \in L
      BY <1>2, <1>7
    <3>3. /\ \A n \in 1..unavailable_used : unavailable[n] \in U
          /\ \A n \in (unavailable_used + 1)
                        ..(unavailable_used + unavailable_live) :
                unavailable[n] \in U
      BY <1>3, <1>7
    <3> QED BY <3>1, <3>2, <3>3 DEF Slice
  <2> HIDE DEF B, D
  <2> QED BY <1>0, <2>1, <2>2, <2>3, <2>4, <2>5, <2>6
<1> HIDE DEF first, second, third, fourth, A, B, C, D
<1> DEFINE two == first \o second
           three == two \o third
           all == three \o fourth
           k == stored_pairs + unavailable_live
<1>14. /\ Pairing(two, G, A \cup B, stored_pairs)
       /\ Pairing(three, G, (A \cup B) \cup C, k)
       /\ Pairing(all, G, ((A \cup B) \cup C) \cup D, k + live_pairs)
  <2>1. Pairing(two, G, A \cup B, stored_pairs)
    BY <1>6, <1>9, <1>10, <1>13, DisjointConcat
  <2> HIDE DEF two
  <2>2. Pairing(three, G, (A \cup B) \cup C, k)
    BY <1>11, <1>13, <2>1, DisjointConcat
  <2> HIDE DEF three, k
  <2>3. Pairing(all, G, ((A \cup B) \cup C) \cup D, k + live_pairs)
    BY <1>12, <1>13, <2>2, DisjointConcat
  <2> QED BY <2>1, <2>2, <2>3
<1>15. ASSUME NEW n \in 1..(k + live_pairs)
       PROVE  all[n][2] \in IF n <= stored_pairs THEN S ELSE L
  <2>1. /\ Len(first) = mixed /\ Len(two) = stored_pairs /\ Len(three) = k
        /\ Len(third) = unavailable_live /\ Len(fourth) = live_pairs
        /\ stored_pairs = Len(first) + Len(second)
        /\ first \in Seq(PairsOf(G)) /\ second \in Seq(PairsOf(G))
        /\ third \in Seq(PairsOf(G)) /\ fourth \in Seq(PairsOf(G))
    BY <1>6, <1>9, <1>10, <1>11, <1>12, <1>14 DEF Pairing
  <2>2. ASSUME NEW x \in Seq(PairsOf(G)), NEW y \in Seq(PairsOf(G))
        PROVE  /\ \A m \in 1..Len(x) : (x \o y)[m] = x[m]
               /\ \A m \in 1..Len(y) : (x \o y)[Len(x) + m] = y[m]
    OBVIOUS
  <2>3. two \in Seq(PairsOf(G)) /\ three \in Seq(PairsOf(G))
    BY <1>14 DEF Pairing
  <2>4. /\ \A m \in 1..mixed : two[m] = first[m]
        /\ \A m \in 1..Len(second) : two[mixed + m] = second[m]
    <3> HIDE DEF three, all, k
    <3> QED BY <2>1, <2>2, Zenon
  <2>5. /\ \A m \in 1..stored_pairs : three[m] = two[m]
        /\ \A m \in 1..unavailable_live : three[stored_pairs + m] = third[m]
        /\ \A m \in 1..k : all[m] = three[m]
        /\ \A m \in 1..live_pairs : all[k + m] = fourth[m]
    <3> HIDE DEF two, k
    <3>1. /\ \A m \in 1..stored_pairs : three[m] = two[m]
          /\ \A m \in 1..unavailable_live :
                three[stored_pairs + m] = third[m]
      <4>1. /\ two \in Seq(PairsOf(G)) /\ third \in Seq(PairsOf(G))
            /\ Len(two) = stored_pairs /\ Len(third) = unavailable_live
        BY <2>1, <2>3
      <4>2. \A m \in 1..stored_pairs : three[m] = two[m]
        BY <2>2, <4>1, Zenon
      <4>3. \A m \in 1..unavailable_live :
               three[stored_pairs + m] = third[m]
        BY <2>2, <4>1, Zenon
      <4> QED BY <4>2, <4>3
    <3> HIDE DEF three
    <3>2. /\ \A m \in 1..k : all[m] = three[m]
          /\ \A m \in 1..live_pairs : all[k + m] = fourth[m]
      <4>1. /\ three \in Seq(PairsOf(G)) /\ fourth \in Seq(PairsOf(G))
            /\ Len(three) = k /\ Len(fourth) = live_pairs
        BY <2>1, <2>3
      <4>2. \A m \in 1..k : all[m] = three[m]
        BY <2>2, <4>1, Zenon
      <4>3. \A m \in 1..live_pairs : all[k + m] = fourth[m]
        BY <2>2, <4>1, Zenon
      <4> QED BY <4>2, <4>3
    <3> QED BY <3>1, <3>2
  <2> HIDE DEF two, three
  <2>6. mixed <= stored_pairs /\ Len(second) \in Nat
    BY <1>7, <2>1
  <2> HIDE DEF all
  <2>7. CASE n <= mixed
    <3>1. /\ n \in 1..mixed /\ n \in 1..stored_pairs /\ n \in 1..k
      BY <1>7, <1>8, <2>6, <2>7
    <3> QED BY <1>9, <2>4, <2>5, <3>1
  <2>8. CASE mixed < n /\ n <= stored_pairs
    <3>1. /\ n - mixed \in 1..Len(second) /\ n = mixed + (n - mixed)
          /\ n \in 1..stored_pairs /\ n \in 1..k
      BY <1>7, <1>8, <2>1, <2>8
    <3>2. two[n] = second[n - mixed]
      BY <2>4, <3>1
    <3> QED BY <1>10, <2>5, <3>1, <3>2
  <2>9. CASE stored_pairs < n /\ n <= k
    <3>1. /\ n - stored_pairs \in 1..unavailable_live
          /\ n = stored_pairs + (n - stored_pairs)
          /\ n \in 1..k /\ ~(n <= stored_pairs)
      BY <1>7, <1>8, <2>9
    <3>2. three[n] = third[n - stored_pairs]
      BY <2>5, <3>1
    <3> QED BY <1>11, <2>5, <3>1, <3>2
  <2>10. CASE k < n
    <3>1. /\ n - k \in 1..live_pairs /\ n = k + (n - k)
          /\ ~(n <= stored_pairs)
      BY <1>7, <1>8, <2>10
    <3>2. all[n] = fourth[n - k]
      BY <2>5, <3>1
    <3> QED BY <1>12, <2>1, <3>1, <3>2
  <2> QED BY <1>7, <1>8, <2>7, <2>8, <2>9, <2>10
<1>16. k + live_pairs \in Nat
  BY <1>7, <1>8
<1>17. GroupPairs(G) = all
  BY <1>4 DEF first, second, third, fourth
<1> HIDE DEF all, k
<1>18. Pairing(all, G, G, k + live_pairs)
  <2>1. Within(all, G)
    <3>1. /\ all \in Seq(PairsOf(G))
          /\ \A p \in PairsOf(G) : p[1] \in G /\ p[2] \in G
      BY <1>14 DEF Pairing, PairsOf
    <3>2. \A n \in 1..Len(all) : all[n] \in PairsOf(G)
      BY <3>1
    <3> QED BY <3>1, <3>2 DEF Within
  <2> QED BY <1>14, <2>1 DEF Pairing
<1> QED BY <1>8, <1>15, <1>16, <1>17, <1>18 DEF S, L, k
-----------------------------------------------------------------------------
Merges == {c \in CombineCandidate : PairIsMerge(c)}

LEMMA CandidateIsMerge ==
    ASSUME NEW snapshot \in Snapshot,
           ~HasDuplicateStableKeys(snapshot.furniture),
           NEW item \in Items, NEW rare \in BOOLEAN, NEW size \in Nat,
           NEW pair \in PairsOf(Members(snapshot, item, rare))
    PROVE  CandidateOf(pair, rare, size) \in Merges
<1> DEFINE F == snapshot.furniture
           c == CandidateOf(pair, rare, size)
<1>1. F \in Seq(FurnitureInstance)
  BY DEF Snapshot
<1>2. \A i \in Range(F) : i \in FurnitureInstance
  BY <1>1 DEF Range
<1>3. /\ pair[1] \in Members(snapshot, item, rare)
      /\ pair[2] \in Members(snapshot, item, rare)
      /\ pair[1] # pair[2]
  BY DEF PairsOf
<1>4. ASSUME NEW i \in Members(snapshot, item, rare)
      PROVE  /\ i \in Range(F)
             /\ i.item_id = item /\ CanBeRare(item)
             /\ i.stable_key \in Keys
             /\ i.placed \in BOOLEAN
             /\ i.placement_flags \in PairFlags
             /\ i.placement_flags = IF rare THEN {"rare"} ELSE {}
  <2>1. i \in Range(F) /\ Eligible(i) /\ i.item_id = item /\ IsRare(i) = rare
    BY DEF Members
  <2>2. i \in FurnitureInstance
    BY <1>2, <2>1
  <2>3. i.placement_flags \subseteq {"rare", "enhanced"}
    BY <2>1 DEF Eligible, HasOnlyKnownFlags, KnownFurnitureFlags
  <2>4. "enhanced" \notin i.placement_flags
    BY <2>1 DEF Eligible, IsEnhanced
  <2>5. i.placement_flags = IF rare THEN {"rare"} ELSE {}
    BY <2>1, <2>3, <2>4 DEF IsRare
  <2>6. i.stable_key \in Keys
    BY <2>1, <2>2 DEF FurnitureInstance, Eligible
  <2> QED
    BY <2>1, <2>2, <2>5, <2>6 DEF FurnitureInstance, Eligible, PairFlags
<1>5. pair[1].stable_key # pair[2].stable_key
  BY <1>3, <1>4 DEF HasDuplicateStableKeys, Range
<1>6. c \in CombineCandidate
  BY <1>3, <1>4 DEF CandidateOf, CombineCandidate
<1>7. PairIsMerge(c)
  BY <1>3, <1>4, <1>5 DEF CandidateOf, PairIsMerge
<1> QED BY <1>6, <1>7 DEF Merges

\* Places in different groups, or with different indices, have different
\* positions in the plan.
LEMMA PositionsDiffer ==
    ASSUME NEW k \in Nat, NEW a \in Nat, NEW b \in Nat,
           NEW m \in 1..k, NEW n \in 1..k,
           a * (k + 1) + m = b * (k + 1) + n
    PROVE  a = b /\ m = n
<1>1. ASSUME NEW c \in Nat, NEW d \in Nat, NEW i \in 1..k, NEW j \in 1..k,
             c < d
      PROVE  c * (k + 1) + i < d * (k + 1) + j
  <2>1. PICK e \in Nat : d = c + 1 + e
    <3>1. d - c - 1 \in Nat /\ d = c + 1 + (d - c - 1)
      BY <1>1
    <3> QED BY <3>1
  <2>2. d * (k + 1) = c * (k + 1) + (k + 1) + e * (k + 1)
    BY <2>1
  <2>3. c * (k + 1) \in Nat /\ e * (k + 1) \in Nat
    OBVIOUS
  <2> QED BY <2>2, <2>3
<1>2. ~(a < b) /\ ~(b < a)
  BY <1>1
<1> QED BY <1>2

LEMMA BooleanIsFinite == IsFiniteSet(BOOLEAN)
<1>1. IsFiniteSet({TRUE}) /\ IsFiniteSet({FALSE})
  BY FS_Singleton, Zenon
<1>2. IsFiniteSet({TRUE} \cup {FALSE})
  BY <1>1, FS_Union, Zenon
<1>3. BOOLEAN = {TRUE} \cup {FALSE}
  OBVIOUS
<1> QED BY <1>2, <1>3, Zenon

-----------------------------------------------------------------------------
(***************************************************************************)
(* The pairs of the group g of a snapshot, the places of all groups, and   *)
(* the pair at a place.                                                    *)
(***************************************************************************)
Groups == Items \X BOOLEAN
GroupAt(snapshot, g) == Members(snapshot, g[1], g[2])
Places(snapshot) ==
    {p \in Groups \X (1..Len(snapshot.furniture)) :
        p[2] <= Len(GroupPairs(GroupAt(snapshot, p[1])))}
PairAt(snapshot, p) == GroupPairs(GroupAt(snapshot, p[1]))[p[2]]

\* order lists every place once, and plan has the candidate of each, in order.
ListsPlaces(snapshot, order, plan) ==
    LET count == Cardinality(Places(snapshot))
    IN  /\ order \in [1..count -> Places(snapshot)]
        /\ \A m, n \in 1..count : m # n => order[m] # order[n]
        /\ \A p \in Places(snapshot) : \E n \in 1..count : order[n] = p
        /\ plan = [n \in 1..count |->
                      CandidateOf(PairAt(snapshot, order[n]), order[n][1][2],
                                  Len(snapshot.furniture))]

LEMMA PlaceIsPair ==
    ASSUME NEW snapshot, NEW p \in Places(snapshot)
    PROVE  /\ p[1] \in Groups /\ p[1][1] \in Items /\ p[1][1] \in Nat
           /\ p[1][2] \in BOOLEAN /\ p[2] \in 1..Len(snapshot.furniture)
           /\ p = <<p[1], p[2]>> /\ p = << <<p[1][1], p[1][2]>>, p[2]>>
           /\ p[2] <= Len(GroupPairs(GroupAt(snapshot, p[1])))
<1>1. /\ p[1] \in Groups /\ p[2] \in 1..Len(snapshot.furniture)
      /\ p = <<p[1], p[2]>>
      /\ p[2] <= Len(GroupPairs(GroupAt(snapshot, p[1])))
  BY DEF Places
<1>2. /\ p[1][1] \in Items /\ p[1][2] \in BOOLEAN
      /\ p[1] = <<p[1][1], p[1][2]>>
  BY <1>1 DEF Groups
<1> QED BY <1>1, <1>2, ItemsAssumption

LEMMA PlacesAreFinite ==
    ASSUME NEW snapshot \in Snapshot
    PROVE  /\ IsFiniteSet(Places(snapshot))
           /\ Cardinality(Places(snapshot)) \in Nat
<1> DEFINE size == Len(snapshot.furniture)
<1>1. IsFiniteSet(1..size)
  <2>1. 1 \in Int /\ size \in Int
    BY DEF Snapshot
  <2> QED BY <2>1, FS_Interval
<1>2. IsFiniteSet(Groups)
  BY BooleanIsFinite, ItemsAssumption, FS_Product DEF Groups
<1>3. IsFiniteSet(Groups \X (1..size))
  BY <1>1, <1>2, FS_Product
<1>4. Places(snapshot) \subseteq Groups \X (1..size)
  BY DEF Places
<1> QED BY <1>3, <1>4, FS_Subset, FS_CardinalityType

(***************************************************************************)
(* The plan of a readable snapshot is the pairs of its groups, each once.  *)
(***************************************************************************)
LEMMA PlanListsPlaces ==
    ASSUME NEW snapshot \in Snapshot, snapshot.complete,
           ~HasDuplicateStableKeys(snapshot.furniture)
    PROVE  \E order : ListsPlaces(snapshot, order, FindCandidates(snapshot))
<1> DEFINE size == Len(snapshot.furniture)
           groups == Items \X BOOLEAN
           pairs == [g \in groups |-> GroupPairs(Members(snapshot, g[1], g[2]))]
           places == {p \in groups \X (1..size) : p[2] <= Len(pairs[p[1]])}
           number(p) == 2 * p[1][1] + (IF p[1][2] THEN 1 ELSE 0)
           rank == [p \in places |->
                       (2 * p[1][1] + (IF p[1][2] THEN 1 ELSE 0)) * (size + 1)
                          + p[2]]
           order == Ascending(places, rank)
           plan == [n \in 1..Cardinality(places) |->
                       LET p == order[n]
                       IN  CandidateOf(pairs[p[1]][p[2]], p[1][2], size)]
           unusable == ~snapshot.complete
                          \/ HasDuplicateStableKeys(snapshot.furniture)
<1>1. FindCandidates(snapshot) = IF unusable THEN <<>> ELSE plan
  BY DEF FindCandidates
<1>2. FindCandidates(snapshot) = plan
  <2> HIDE DEF plan
  <2> QED BY <1>1
<1>3. size \in Nat
  BY DEF Snapshot
<1>4. \A g \in groups : pairs[g] = GroupPairs(GroupAt(snapshot, g))
  BY DEF GroupAt
<1>5. places = Places(snapshot)
  <2> HIDE DEF pairs
  <2> QED BY <1>4 DEF Places, Groups
<1>6. IsFiniteSet(places) /\ Cardinality(places) \in Nat
  <2> HIDE DEF places
  <2> QED BY <1>5, PlacesAreFinite
<1>7. \A p \in places : /\ p[1][1] \in Nat /\ p[1][2] \in BOOLEAN
                        /\ p[2] \in 1..size /\ p[1] \in groups
                        /\ p = << <<p[1][1], p[1][2]>>, p[2]>>
  <2> HIDE DEF places, size
  <2> QED BY <1>5, PlaceIsPair DEF size, Groups
<1>8. \A p \in places : number(p) \in Nat /\ rank[p] = number(p) * (size + 1) + p[2]
  <2> HIDE DEF places, size
  <2> QED BY <1>7
<1> HIDE DEF pairs, places, rank, size
<1>9. Distinguishes(rank, places)
  <2>1. ASSUME NEW a \in Nat, NEW m \in 1..size
        PROVE  a * (size + 1) + m \in Nat
    BY <1>3
  <2>2. ASSUME NEW p \in places
        PROVE  number(p) * (size + 1) + p[2] \in Nat
    <3> HIDE DEF number
    <3> QED BY <1>7, <1>8, <2>1
  <2>3. rank \in [places -> Nat]
    BY <2>2 DEF rank
  <2>4. ASSUME NEW p \in places, NEW q \in places, rank[p] = rank[q]
        PROVE  p = q
    <3>1. number(p) = number(q) /\ p[2] = q[2]
      <4> HIDE DEF number
      <4>1. /\ number(p) \in Nat /\ p[2] \in 1..size
            /\ number(q) \in Nat /\ q[2] \in 1..size
        BY <1>7, <1>8
      <4>2. number(p) * (size + 1) + p[2] = number(q) * (size + 1) + q[2]
        BY <1>8, <2>4
      <4>3. ASSUME NEW a \in Nat, NEW b \in Nat,
                   NEW m \in 1..size, NEW n \in 1..size,
                   a = number(p), b = number(q), m = p[2], n = q[2]
            PROVE  a = b /\ m = n
        <5>1. a * (size + 1) + m = b * (size + 1) + n
          BY <4>2, <4>3, Zenon
        <5> QED BY <1>3, <5>1, PositionsDiffer
      <4> QED BY <4>1, <4>3
    <3>2. p[1][1] = q[1][1] /\ p[1][2] = q[1][2]
      <4>1. /\ p[1][1] \in Nat /\ p[1][2] \in BOOLEAN
            /\ q[1][1] \in Nat /\ q[1][2] \in BOOLEAN
        BY <1>7
      <4>2. 2 * p[1][1] + (IF p[1][2] THEN 1 ELSE 0)
              = 2 * q[1][1] + (IF q[1][2] THEN 1 ELSE 0)
        BY <3>1
      <4> QED BY <4>1, <4>2
    <3> QED BY <1>7, <3>1, <3>2
  <2> QED BY <2>3, <2>4 DEF Distinguishes
<1>10. /\ order \in Seq(places) /\ Len(order) = Cardinality(places)
       /\ Distinct(order)
       /\ \A p \in places : \E n \in 1..Cardinality(places) : order[n] = p
  BY <1>6, <1>9, AscendingEnumerates
<1> HIDE DEF order
<1>11. /\ order \in [1..Cardinality(places) -> places]
       /\ \A m, n \in 1..Cardinality(places) : m # n => order[m] # order[n]
  BY <1>6, <1>10 DEF Distinct
<1>12. plan = [n \in 1..Cardinality(places) |->
                  CandidateOf(PairAt(snapshot, order[n]), order[n][1][2],
                              size)]
  <2>1. ASSUME NEW n \in 1..Cardinality(places)
        PROVE  pairs[order[n][1]][order[n][2]] = PairAt(snapshot, order[n])
    <3>1. order[n] \in places
      BY <1>11
    <3>2. order[n][1] \in groups
      BY <1>7, <3>1
    <3>3. pairs[order[n][1]] = GroupPairs(GroupAt(snapshot, order[n][1]))
      BY <1>4, <3>2
    <3> QED BY <3>3 DEF PairAt
  <2> QED BY <2>1
<1> HIDE DEF plan
<1>13. ListsPlaces(snapshot, order, plan)
  <2>1. /\ order \in [1..Cardinality(Places(snapshot)) -> Places(snapshot)]
        /\ \A m, n \in 1..Cardinality(Places(snapshot)) :
              m # n => order[m] # order[n]
        /\ \A p \in Places(snapshot) :
              \E n \in 1..Cardinality(Places(snapshot)) : order[n] = p
    BY <1>5, <1>10, <1>11
  <2> QED BY <1>5, <1>12, <2>1 DEF ListsPlaces, size
<1> QED BY <1>2, <1>13

\* What the pair at a place is: two members of the place's group.
LEMMA PairAtIsPair ==
    ASSUME NEW snapshot \in Snapshot,
           ~HasDuplicateStableKeys(snapshot.furniture),
           NEW p \in Places(snapshot)
    PROVE  PairAt(snapshot, p) \in PairsOf(GroupAt(snapshot, p[1]))
<1> DEFINE G == GroupAt(snapshot, p[1])
<1>1. G \subseteq Range(snapshot.furniture)
  BY DEF GroupAt, Members
<1>2. p[2] \in 1..Len(GroupPairs(G)) /\ GroupPairs(G) \in Seq(PairsOf(G))
  <2> HIDE DEF G
  <2>1. Pairing(GroupPairs(G), G, G, PairCount(G))
    BY <1>1, GroupPairsAreMembers
  <2>2. GroupPairs(G) \in Seq(PairsOf(G))
    BY <2>1 DEF Pairing
  <2>3. p[2] <= Len(GroupPairs(G)) /\ p[2] \in Nat /\ 1 <= p[2]
    BY PlaceIsPair DEF Snapshot, G
  <2> QED BY <2>2, <2>3
<1>3. GroupPairs(G)[p[2]] \in PairsOf(G)
  <2> HIDE DEF G
  <2> QED BY <1>2
<1> QED BY <1>3 DEF PairAt

(***************************************************************************)
(* Whatever is scanned, every pair of the plan is two different copies of  *)
(* one item, with equal flags, and is promoted by exactly one step.        *)
(***************************************************************************)
THEOREM FindCandidatesAreMerges ==
    ASSUME NEW snapshot \in Snapshot
    PROVE  FindCandidates(snapshot) \in Seq(Merges)
<1>1. CASE ~snapshot.complete \/ HasDuplicateStableKeys(snapshot.furniture)
  <2>1. FindCandidates(snapshot) = <<>>
    BY <1>1 DEF FindCandidates
  <2>2. <<>> \in Seq(Merges)
    OBVIOUS
  <2> QED BY <2>1, <2>2
<1>2. CASE ~(~snapshot.complete \/ HasDuplicateStableKeys(snapshot.furniture))
  <2> DEFINE size == Len(snapshot.furniture)
             count == Cardinality(Places(snapshot))
             plan == FindCandidates(snapshot)
  <2>1. PICK order : ListsPlaces(snapshot, order, plan)
    BY <1>2, PlanListsPlaces
  <2>2. size \in Nat /\ count \in Nat
    BY PlacesAreFinite DEF Snapshot
  <2>3. ASSUME NEW p \in Places(snapshot)
        PROVE  CandidateOf(PairAt(snapshot, p), p[1][2], size) \in Merges
    <3>1. PairAt(snapshot, p) \in PairsOf(Members(snapshot, p[1][1], p[1][2]))
      BY <1>2, PairAtIsPair DEF GroupAt
    <3> QED BY <1>2, <2>2, <3>1, PlaceIsPair, CandidateIsMerge
  <2>4. \A n \in 1..count : order[n] \in Places(snapshot)
    BY <2>1 DEF ListsPlaces
  <2>5. plan = [n \in 1..count |->
                   CandidateOf(PairAt(snapshot, order[n]), order[n][1][2],
                               size)]
    BY <2>1 DEF ListsPlaces
  <2> HIDE DEF plan, size, count
  <2>6. plan \in [1..count -> Merges]
    BY <2>3, <2>4, <2>5
  <2> QED BY <2>2, <2>6 DEF plan
<1> QED BY <1>1, <1>2

\* The pairs at two places share no copy.
LEMMA PlacePairsAreDisjoint ==
    ASSUME NEW snapshot \in Snapshot,
           ~HasDuplicateStableKeys(snapshot.furniture),
           NEW p \in Places(snapshot), NEW q \in Places(snapshot), p # q
    PROVE  /\ PairAt(snapshot, p) \in PairsOf(Range(snapshot.furniture))
           /\ {PairAt(snapshot, p)[1], PairAt(snapshot, p)[2]}
                 \cap {PairAt(snapshot, q)[1], PairAt(snapshot, q)[2]}
                 = {}
<1> DEFINE G == GroupAt(snapshot, p[1])
           H == GroupAt(snapshot, q[1])
<1>1. /\ PairAt(snapshot, p) \in PairsOf(G)
      /\ PairAt(snapshot, q) \in PairsOf(H)
  BY PairAtIsPair
<1>2. G \subseteq Range(snapshot.furniture)
  BY DEF GroupAt, Members
<1>3. PairAt(snapshot, p) \in PairsOf(Range(snapshot.furniture))
  <2> HIDE DEF G
  <2> QED BY <1>1, <1>2 DEF PairsOf
<1>4. CASE p[1] # q[1]
  <2>1. G \cap H = {}
    <3>1. p[1][1] # q[1][1] \/ p[1][2] # q[1][2]
      BY <1>4, PlaceIsPair DEF Groups
    <3> QED BY <3>1 DEF GroupAt, Members
  <2> HIDE DEF G, H
  <2> QED BY <1>1, <1>3, <2>1 DEF PairsOf
<1>5. CASE p[1] = q[1]
  <2>1. p[2] # q[2]
    BY <1>5, PlaceIsPair
  <2>2. Pairing(GroupPairs(G), G, G, PairCount(G))
    BY <1>2, GroupPairsAreMembers
  <2>3. /\ p[2] \in 1..Len(GroupPairs(G))
        /\ q[2] \in 1..Len(GroupPairs(G))
    <3>1. Len(GroupPairs(G)) \in Nat
      BY <2>2 DEF Pairing
    <3>2. /\ p[2] \in Nat /\ q[2] \in Nat /\ 1 <= p[2] /\ 1 <= q[2]
          /\ p[2] <= Len(GroupPairs(G)) /\ q[2] <= Len(GroupPairs(G))
      BY <1>5, PlaceIsPair DEF Snapshot
    <3> QED BY <3>1, <3>2
  <2>4. {GroupPairs(G)[p[2]][1], GroupPairs(G)[p[2]][2]}
           \cap {GroupPairs(G)[q[2]][1], GroupPairs(G)[q[2]][2]} = {}
    <3> HIDE DEF G
    <3> QED BY <2>1, <2>2, <2>3 DEF Pairing, Disjoint
  <2> QED BY <1>3, <1>5, <2>4 DEF PairAt
<1> QED BY <1>4, <1>5

KeysOf(c) == {c.keep_key, c.consume_key}

(***************************************************************************)
(* Whatever is scanned, no furniture is in two pairs of the plan: its key  *)
(* is named by one candidate only, so that a pair that was combined cannot *)
(* have changed another one of its plan (FindCandidates, domain.cpp).      *)
(***************************************************************************)
THEOREM FindCandidatesAreDisjoint ==
    ASSUME NEW snapshot \in Snapshot
    PROVE  LET plan == FindCandidates(snapshot)
           IN  \A m, n \in DOMAIN plan :
                  m # n => KeysOf(plan[m]) \cap KeysOf(plan[n]) = {}
<1> DEFINE size == Len(snapshot.furniture)
           count == Cardinality(Places(snapshot))
           plan == FindCandidates(snapshot)
<1>1. CASE ~snapshot.complete \/ HasDuplicateStableKeys(snapshot.furniture)
  <2>1. FindCandidates(snapshot) = <<>>
    BY <1>1 DEF FindCandidates
  <2> QED BY <2>1
<1>2. CASE ~(~snapshot.complete \/ HasDuplicateStableKeys(snapshot.furniture))
  <2>1. PICK order : ListsPlaces(snapshot, order, plan)
    BY <1>2, PlanListsPlaces
  <2>2. /\ order \in [1..count -> Places(snapshot)]
        /\ \A m, n \in 1..count : m # n => order[m] # order[n]
        /\ plan = [n \in 1..count |->
                      CandidateOf(PairAt(snapshot, order[n]), order[n][1][2],
                                  size)]
    BY <2>1 DEF ListsPlaces
  <2> HIDE DEF plan
  <2>3. ASSUME NEW m \in 1..count, NEW n \in 1..count, m # n
        PROVE  KeysOf(plan[m]) \cap KeysOf(plan[n]) = {}
    <3> DEFINE x == PairAt(snapshot, order[m])
               y == PairAt(snapshot, order[n])
    <3>1. /\ order[m] \in Places(snapshot) /\ order[n] \in Places(snapshot)
          /\ order[m] # order[n]
      BY <2>2, <2>3
    <3>2. /\ x \in PairsOf(Range(snapshot.furniture))
          /\ y \in PairsOf(Range(snapshot.furniture))
          /\ {x[1], x[2]} \cap {y[1], y[2]} = {}
      BY <1>2, <3>1, PlacePairsAreDisjoint
    <3>3. /\ KeysOf(plan[m]) = {x[1].stable_key, x[2].stable_key}
          /\ KeysOf(plan[n]) = {y[1].stable_key, y[2].stable_key}
      BY <2>2 DEF KeysOf, CandidateOf
    <3>4. \A i, j \in Range(snapshot.furniture) :
             i.stable_key = j.stable_key => i = j
      BY <1>2 DEF HasDuplicateStableKeys, Range
    <3> HIDE DEF x, y
    <3> QED BY <3>2, <3>3, <3>4 DEF PairsOf
  <2>4. DOMAIN plan = 1..count
    BY <2>2
  <2> QED BY <2>3, <2>4 DEF plan
<1> QED BY <1>1, <1>2

\* The copies that c is about, and what it says of them.
Names(c, keep, consume) ==
    /\ keep.stable_key = c.keep_key /\ consume.stable_key = c.consume_key
    /\ keep.item_id = c.item_id /\ consume.item_id = c.item_id
    /\ keep.placement_flags = c.keep_flags
    /\ consume.placement_flags = c.consume_flags
    /\ consume.placed = c.consume_placed
    /\ c.keep_flags \subseteq KnownFurnitureFlags

\* A plan comes from a complete snapshot without doubtful keys, and each of
\* its pairs is about two of the furniture in it.
LEMMA FindCandidatesNameCopies ==
    ASSUME NEW snapshot \in Snapshot, NEW n \in DOMAIN FindCandidates(snapshot)
    PROVE  /\ snapshot.complete
           /\ ~HasDuplicateStableKeys(snapshot.furniture)
           /\ \E keep, consume \in Range(snapshot.furniture) :
                 Names(FindCandidates(snapshot)[n], keep, consume)
<1> DEFINE size == Len(snapshot.furniture)
           count == Cardinality(Places(snapshot))
           plan == FindCandidates(snapshot)
<1>1. snapshot.complete /\ ~HasDuplicateStableKeys(snapshot.furniture)
  <2> SUFFICES ASSUME ~snapshot.complete
                         \/ HasDuplicateStableKeys(snapshot.furniture)
               PROVE  FALSE
    OBVIOUS
  <2>1. FindCandidates(snapshot) = <<>>
    BY DEF FindCandidates
  <2> QED BY <2>1
<1>2. PICK order : ListsPlaces(snapshot, order, plan)
  BY <1>1, PlanListsPlaces
<1>3. /\ order \in [1..count -> Places(snapshot)]
      /\ plan = [m \in 1..count |->
                    CandidateOf(PairAt(snapshot, order[m]), order[m][1][2],
                                size)]
  BY <1>2 DEF ListsPlaces
<1>4. n \in DOMAIN plan
  OBVIOUS
<1> HIDE DEF plan
<1> DEFINE p == order[n]
           x == PairAt(snapshot, p)
<1>5. p \in Places(snapshot)
  BY <1>3, <1>4
<1>6. plan[n] = CandidateOf(x, p[1][2], size)
  BY <1>3, <1>4
<1>7. /\ x[1] \in GroupAt(snapshot, p[1])
      /\ x[2] \in GroupAt(snapshot, p[1])
  <2> HIDE DEF p
  <2> QED BY <1>1, <1>5, PairAtIsPair DEF PairsOf
<1>8. /\ x[1] \in Range(snapshot.furniture)
      /\ x[2] \in Range(snapshot.furniture)
      /\ x[1].item_id = x[2].item_id
      /\ x[1].placement_flags \subseteq KnownFurnitureFlags
  BY <1>7 DEF GroupAt, Members, Eligible, HasOnlyKnownFlags
<1> HIDE DEF x
<1>9. Names(plan[n], x[1], x[2])
  BY <1>6, <1>8 DEF Names, CandidateOf
<1> QED BY <1>1, <1>8, <1>9 DEF plan
=============================================================================
