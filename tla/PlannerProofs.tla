------------------------------ MODULE PlannerProofs ------------------------------
(***************************************************************************)
(* The plan of every snapshot is sound and disjoint, has as many pairs as  *)
(* any choice of disjoint pairs, and takes no more copies out of rooms     *)
(* than any other choice of that many pairs.                               *)
(***************************************************************************)
EXTENDS Planner, CandidatesProofs, FunctionTheorems

\* No two elements of N share an element.
ArePartitioned(N) == \A d, e \in N : d # e => d \cap e = {}

\* A choice of one element of A from each of some disjoint sets.
LEMMA OneOfEach ==
    ASSUME NEW N, ArePartitioned(N), NEW A, IsFiniteSet(A),
           \A e \in N : \E i \in e : i \in A
    PROVE  IsFiniteSet(N) /\ Cardinality(N) <= Cardinality(A)
<1> DEFINE f == [e \in N |-> CHOOSE i \in A : i \in e]
<1>1. ASSUME NEW e \in N
      PROVE  f[e] \in A /\ f[e] \in e
  <2>1. PICK i \in A : i \in e
    OBVIOUS
  <2> QED BY <2>1
<1>2. \A d, e \in N : f[d] = f[e] => d = e
  <2> HIDE DEF f
  <2> QED BY <1>1 DEF ArePartitioned
<1>3. f \in [N -> A]
  BY <1>1
<1> HIDE DEF f
<1>4. f \in Injection(N, A)
  BY <1>2, <1>3, Fun_IsInj
<1> QED BY <1>4, FS_Injection

\* A choice of two different elements of A from each of some disjoint sets.
LEMMA TwoOfEach ==
    ASSUME NEW N, ArePartitioned(N), NEW A, IsFiniteSet(A),
           \A e \in N : \E i, j \in e : i # j /\ i \in A /\ j \in A
    PROVE  IsFiniteSet(N) /\ 2 * Cardinality(N) <= Cardinality(A)
<1> DEFINE one(e) == CHOOSE i \in A : i \in e
           two(e) == CHOOSE i \in A : i \in e /\ i # one(e)
           f == [q \in N \X {1, 2} |->
                    IF q[2] = 1 THEN one(q[1]) ELSE two(q[1])]
<1>1. IsFiniteSet(N)
  BY OneOfEach
<1>2. ASSUME NEW e \in N
      PROVE  /\ one(e) \in A /\ one(e) \in e
             /\ two(e) \in A /\ two(e) \in e /\ two(e) # one(e)
  <2>1. PICK i \in e, j \in e : i # j /\ i \in A /\ j \in A
    OBVIOUS
  <2>2. one(e) \in A /\ one(e) \in e
    BY <2>1
  <2> HIDE DEF one
  <2>3. \E k \in A : k \in e /\ k # one(e)
    BY <2>1
  <2> QED BY <2>2, <2>3
<1> HIDE DEF one, two
<1>3. ASSUME NEW q \in N \X {1, 2}
      PROVE  /\ q[1] \in N /\ q[2] \in {1, 2} /\ q = <<q[1], q[2]>>
             /\ f[q] = IF q[2] = 1 THEN one(q[1]) ELSE two(q[1])
             /\ f[q] \in A /\ f[q] \in q[1]
  BY <1>2
<1>4. f \in [N \X {1, 2} -> A]
  BY <1>3
<1> HIDE DEF f
<1>5. ASSUME NEW p \in N \X {1, 2}, NEW q \in N \X {1, 2}, f[p] = f[q]
      PROVE  p = q
  <2>1. p[1] = q[1]
    BY <1>3, <1>5 DEF ArePartitioned
  <2>2. p[2] = q[2]
    BY <1>2, <1>3, <1>5, <2>1
  <2>3. p = <<p[1], p[2]>> /\ q = <<q[1], q[2]>>
    BY <1>3
  <2> QED BY <2>1, <2>2, <2>3
<1>6. f \in Injection(N \X {1, 2}, A)
  BY <1>4, <1>5, Fun_IsInj
<1>7. Cardinality(N \X {1, 2}) <= Cardinality(A)
  BY <1>6, FS_Injection
<1>8. IsFiniteSet({1, 2}) /\ Cardinality({1, 2}) = 2
  <2>1. IsFiniteSet({1}) /\ Cardinality({1}) = 1
    BY FS_Singleton
  <2>2. /\ IsFiniteSet({1} \cup {2})
        /\ Cardinality({1} \cup {2})
              = IF 2 \in {1} THEN Cardinality({1}) ELSE Cardinality({1}) + 1
    BY <2>1, FS_AddElement
  <2>3. {1} \cup {2} = {1, 2}
    OBVIOUS
  <2> QED BY <2>1, <2>2, <2>3
<1>9. Cardinality(N \X {1, 2}) = Cardinality(N) * 2
  BY <1>1, <1>8, FS_Product
<1>10. Cardinality(N) \in Nat
  BY <1>1, FS_CardinalityType
<1> QED BY <1>1, <1>7, <1>9, <1>10

\* Sets that fit group by group fit together.
LEMMA FitByGroup ==
    ASSUME NEW N, NEW K, NEW group \in [N -> K], NEW c \in [K -> Nat],
           NEW T, IsFiniteSet(T),
           \A g \in K : \A n \in 1..c[g] : <<g, n>> \in T,
           \A g \in K : /\ IsFiniteSet({e \in N : group[e] = g})
                        /\ Cardinality({e \in N : group[e] = g}) <= c[g]
    PROVE  IsFiniteSet(N) /\ Cardinality(N) <= Cardinality(T)
<1> DEFINE in(g) == {e \in N : group[e] = g}
           h(g) == CHOOSE f : f \in Injection(in(g), 1..c[g])
           F == [e \in N |-> <<group[e], h(group[e])[e]>>]
<1>1. ASSUME NEW g \in K
      PROVE  h(g) \in Injection(in(g), 1..c[g])
  <2> DEFINE k == Cardinality(in(g))
  <2>1. IsFiniteSet(in(g)) /\ k \in Nat /\ k <= c[g]
    BY FS_CardinalityType
  <2>2. ExistsBijection(1..k, in(g))
    BY <2>1, FS_CardinalityType
  <2>3. ExistsBijection(in(g), 1..k)
    BY <2>2, Fun_ExistsBijSymmetric
  <2>4. PICK f : f \in Bijection(in(g), 1..k)
    BY <2>3 DEF ExistsBijection
  <2>6. 1..k \subseteq 1..c[g]
    BY <2>1
  <2> HIDE DEF in, k
  <2>5. /\ f \in [in(g) -> 1..k]
        /\ \A a, b \in in(g) : f[a] = f[b] => a = b
    <3>1. f \in Injection(in(g), 1..k)
      BY <2>4 DEF Bijection
    <3>2. f \in [in(g) -> 1..k]
      BY <3>1, Fun_InjectionProperties
    <3>3. \A a, b \in in(g) : f[a] = f[b] => a = b
      BY <3>1, Fun_InjectionProperties
    <3> QED BY <3>2, <3>3
  <2>7. f \in [in(g) -> 1..c[g]]
    BY <2>5, <2>6
  <2>8. f \in Injection(in(g), 1..c[g])
    BY <2>5, <2>7, Fun_IsInj
  <2> QED BY <2>8, Zenon
<1>2. ASSUME NEW e \in N
      PROVE  /\ group[e] \in K /\ e \in in(group[e])
             /\ h(group[e])[e] \in 1..c[group[e]]
  <2>1. group[e] \in K /\ e \in in(group[e])
    OBVIOUS
  <2> HIDE DEF in, h
  <2>2. h(group[e]) \in Injection(in(group[e]), 1..c[group[e]])
    BY <1>1, <2>1
  <2>3. h(group[e]) \in [in(group[e]) -> 1..c[group[e]]]
    BY <2>2, Fun_InjectionProperties
  <2> QED BY <2>1, <2>3
<1>3. F \in [N -> T]
  <2> HIDE DEF in, h
  <2> QED BY <1>2
<1>4. ASSUME NEW d \in N, NEW e \in N, F[d] = F[e]
      PROVE  d = e
  <2>1. group[d] = group[e] /\ h(group[d])[d] = h(group[e])[e]
    <3> HIDE DEF in, h
    <3>1. <<group[d], h(group[d])[d]>> = <<group[e], h(group[e])[e]>>
      BY <1>4
    <3> QED BY <3>1
  <2>2. d \in in(group[d]) /\ e \in in(group[d]) /\ group[d] \in K
    BY <1>2, <2>1
  <2>3. h(group[d]) \in Injection(in(group[d]), 1..c[group[d]])
    <3> HIDE DEF in, h
    <3> QED BY <1>1, <2>2
  <2> HIDE DEF in, h
  <2>4. \A a, b \in in(group[d]) :
           h(group[d])[a] = h(group[d])[b] => a = b
    BY <2>3, Fun_InjectionProperties
  <2>5. h(group[d])[d] = h(group[d])[e]
    BY <2>1
  <2> QED BY <2>2, <2>4, <2>5
<1> HIDE DEF F
<1>5. F \in Injection(N, T)
  BY <1>3, <1>4, Fun_IsInj
<1> QED BY <1>5, FS_Injection
-----------------------------------------------------------------------------
(***************************************************************************)
(* The copies of a group, and the edges of a choice of pairs within it.    *)
(***************************************************************************)
LEMMA InstancesAreFinite ==
    ASSUME snapshot \in Snapshot
    PROVE  /\ IsFiniteSet(Range(snapshot.furniture))
           /\ Cardinality(Range(snapshot.furniture))
                 <= Len(snapshot.furniture)
<1> DEFINE F == snapshot.furniture
           D == 1..Len(F)
<1>1. F \in Seq(FurnitureInstance) /\ Len(F) \in Nat
  BY DEF Snapshot
<1>2. IsFiniteSet(D) /\ Cardinality(D) = Len(F)
  <2>1. 1 \in Int /\ Len(F) \in Int
    BY <1>1
  <2>2. /\ IsFiniteSet(D)
        /\ Cardinality(D) = IF 1 > Len(F) THEN 0 ELSE Len(F) - 1 + 1
    BY <2>1, FS_Interval
  <2> QED BY <1>1, <2>2
<1>3. F \in Surjection(D, Range(F))
  BY <1>1 DEF Surjection, Range
<1> HIDE DEF D, F
<1>4. IsFiniteSet(Range(F)) /\ Cardinality(Range(F)) <= Cardinality(D)
  BY <1>2, <1>3, FS_Surjection
<1> QED BY <1>2, <1>4 DEF F

\* What the copies of a group have in common.
LEMMA GroupMember ==
    ASSUME snapshot \in Snapshot, NEW g \in Groups,
           NEW i \in GroupAt(snapshot, g)
    PROVE  /\ i \in Range(snapshot.furniture) /\ i \in FurnitureInstance
           /\ Eligible(i) /\ i \in Instances
           /\ i.item_id = g[1] /\ IsRare(i) = g[2]
           /\ i.placement_flags = IF g[2] THEN {"rare"} ELSE {}
           /\ i.placed \in BOOLEAN
           /\ i.runtime_match_count \in {0, 1}
<1>1. /\ i \in Range(snapshot.furniture) /\ Eligible(i)
      /\ i.item_id = g[1] /\ IsRare(i) = g[2]
  BY DEF GroupAt, Members
<1>2. i \in FurnitureInstance
  BY <1>1 DEF Snapshot, Range
<1>3. i.placement_flags \subseteq {"rare", "enhanced"}
  BY <1>1 DEF Eligible, HasOnlyKnownFlags, KnownFurnitureFlags
<1>4. "enhanced" \notin i.placement_flags
  BY <1>1 DEF Eligible, IsEnhanced
<1>5. i.placement_flags = IF g[2] THEN {"rare"} ELSE {}
  <2>1. g[2] \in BOOLEAN
    BY DEF Groups
  <2> QED BY <1>1, <1>3, <1>4, <2>1 DEF IsRare
<1>6. i.runtime_match_count \in {0, 1} /\ i.placed \in BOOLEAN
  BY <1>1, <1>2 DEF Eligible, FurnitureInstance
<1> QED BY <1>1, <1>2, <1>5, <1>6 DEF Instances

\* A group has as many copies as its three vectors together; each pair takes
\* one that may go, and two in all.
LEMMA GroupCounts ==
    ASSUME snapshot \in Snapshot, NEW g \in Groups
    PROVE  LET G == GroupAt(snapshot, g)
               s == Cardinality(StoredOf(G))
               l == Cardinality(LiveOf(G))
               u == Cardinality(UnavailableOf(G))
           IN  /\ IsFiniteSet(G)
               /\ IsFiniteSet(StoredOf(G)) /\ IsFiniteSet(StoredOf(G) \cup LiveOf(G))
               /\ s \in Nat /\ l \in Nat /\ u \in Nat
               /\ Cardinality(StoredOf(G) \cup LiveOf(G)) = s + l
               /\ Cardinality(G) = s + l + u
               /\ Cardinality(G) <= Len(snapshot.furniture)
<1> DEFINE G == GroupAt(snapshot, g)
           S == StoredOf(G)
           L == LiveOf(G)
           U == UnavailableOf(G)
<1>1. IsFiniteSet(G) /\ Cardinality(G) <= Len(snapshot.furniture)
  <2>1. G \subseteq Range(snapshot.furniture)
    BY DEF GroupAt, Members
  <2>2. /\ IsFiniteSet(G)
        /\ Cardinality(G) <= Cardinality(Range(snapshot.furniture))
    BY <2>1, InstancesAreFinite, FS_Subset
  <2>3. /\ Cardinality(G) \in Nat
        /\ Cardinality(Range(snapshot.furniture)) \in Nat
    BY <2>2, InstancesAreFinite, FS_CardinalityType
  <2>4. Len(snapshot.furniture) \in Nat
    BY DEF Snapshot
  <2> QED BY <2>2, <2>3, <2>4, InstancesAreFinite
<1>2. /\ S \subseteq G /\ L \subseteq G /\ U \subseteq G
      /\ S \cap L = {} /\ (S \cup L) \cap U = {} /\ (S \cup L) \cup U = G
  BY DEF StoredOf, LiveOf, UnavailableOf
<1> HIDE DEF G, S, L, U
<1>3. IsFiniteSet(S) /\ IsFiniteSet(L) /\ IsFiniteSet(U)
  BY <1>1, <1>2, FS_Subset
<1>4. /\ Cardinality(S) \in Nat /\ Cardinality(L) \in Nat
      /\ Cardinality(U) \in Nat
  BY <1>3, FS_CardinalityType
<1>5. /\ IsFiniteSet(S \cup L)
      /\ Cardinality(S \cup L) = Cardinality(S) + Cardinality(L)
  <2>1. /\ IsFiniteSet(S \cup L)
        /\ Cardinality(S \cup L)
              = Cardinality(S) + Cardinality(L) - Cardinality({})
    BY <1>2, <1>3, FS_Union
  <2> QED BY <1>4, <2>1, FS_EmptySet
<1>6. Cardinality(G) = Cardinality(S) + Cardinality(L) + Cardinality(U)
  <2>1. Cardinality(G)
           = Cardinality(S \cup L) + Cardinality(U) - Cardinality({})
    BY <1>2, <1>3, <1>5, FS_Union
  <2> QED BY <1>4, <1>5, <2>1, FS_EmptySet
<1> QED BY <1>1, <1>3, <1>4, <1>5, <1>6 DEF G, S, L, U

\* The group of the copies of an edge.
EdgeGroup(e) == LET i == CHOOSE i \in e : TRUE IN <<i.item_id, IsRare(i)>>

LEMMA EdgeIsInGroup ==
    ASSUME snapshot \in Snapshot, NEW e \in Edges
    PROVE  LET G == GroupAt(snapshot, EdgeGroup(e))
           IN  /\ EdgeGroup(e) \in Groups
               /\ e \subseteq G
               /\ \E i, j \in e : i # j /\ i \in G /\ j \in G
               /\ \E i \in e : i \in StoredOf(G) \cup LiveOf(G)
<1>1. PICK i \in e, j \in e : e = {i, j} /\ Combinable(i, j)
  BY DEF Edges
<1>2. e \subseteq Instances
  BY DEF Edges
<1> DEFINE k == CHOOSE k \in e : TRUE
           g == <<k.item_id, IsRare(k)>>
<1>3. k \in e
  OBVIOUS
<1>4. k \in FurnitureInstance
  BY <1>2, <1>3 DEF Instances, Snapshot, Range
<1>5. g \in Groups
  <2>1. k.item_id \in Items
    BY <1>4 DEF FurnitureInstance
  <2>2. IsRare(k) \in BOOLEAN
    BY DEF IsRare
  <2> QED BY <2>1, <2>2 DEF Groups
<1> HIDE DEF k
<1>6. \A x \in e : x.item_id = k.item_id /\ IsRare(x) = IsRare(k)
  BY <1>1, <1>3 DEF Combinable, IsRare
<1>7. \A x \in e : x \in Range(snapshot.furniture) /\ Eligible(x)
  BY <1>2 DEF Instances
<1>8. e \subseteq GroupAt(snapshot, g)
  BY <1>6, <1>7 DEF GroupAt, Members
<1>9. \A x \in e : x.runtime_match_count \in {0, 1}
  <2>1. \A x \in e : x \in FurnitureInstance
    BY <1>7 DEF Snapshot, Range
  <2> QED BY <1>7, <2>1 DEF Eligible, FurnitureInstance
<1>10. \E x \in e : x \in StoredOf(GroupAt(snapshot, g))
                         \cup LiveOf(GroupAt(snapshot, g))
  BY <1>1, <1>8, <1>9 DEF Combinable, Unavailable, StoredOf, LiveOf
<1>11. i # j /\ i \in GroupAt(snapshot, g) /\ j \in GroupAt(snapshot, g)
  BY <1>1, <1>8 DEF Combinable
<1>12. EdgeGroup(e) = g
  BY DEF EdgeGroup, k
<1> HIDE DEF g
<1> QED BY <1>5, <1>8, <1>10, <1>11, <1>12

(***************************************************************************)
(* What a choice N of disjoint pairs can take from a group: as many pairs  *)
(* as the planner makes of it, and among them those with a stored copy.    *)
(***************************************************************************)
InGroup(N, g) == {e \in N : EdgeGroup(e) = g}
WithStored(N) == {e \in N : \E i \in e : ~i.placed}

LEMMA PairsOfGroup ==
    ASSUME snapshot \in Snapshot, NEW N \in Matchings, NEW g \in Groups
    PROVE  /\ IsFiniteSet(InGroup(N, g))
           /\ IsFiniteSet(InGroup(WithStored(N), g))
           /\ Cardinality(InGroup(N, g)) <= PairCount(GroupAt(snapshot, g))
           /\ Cardinality(InGroup(WithStored(N), g))
                 <= StoredPairCount(GroupAt(snapshot, g))
<1> DEFINE G == GroupAt(snapshot, g)
           P == InGroup(N, g)
           Q == InGroup(WithStored(N), g)
           s == Cardinality(StoredOf(G))
           l == Cardinality(LiveOf(G))
           u == Cardinality(UnavailableOf(G))
<1>1. ArePartitioned(P) /\ ArePartitioned(Q) /\ Q \subseteq P
  BY DEF Matchings, ArePartitioned, InGroup, WithStored
<1>2. ASSUME NEW e \in P
      PROVE  /\ e \subseteq G
             /\ \E i, j \in e : i # j /\ i \in G /\ j \in G
             /\ \E i \in e : i \in StoredOf(G) \cup LiveOf(G)
  <2>1. e \in Edges /\ EdgeGroup(e) = g
    BY DEF Matchings, InGroup
  <2> QED BY <2>1, EdgeIsInGroup
<1>3. \A e \in Q : \E i \in e : i \in StoredOf(G)
  <2> SUFFICES ASSUME NEW e \in Q
               PROVE  \E i \in e : i \in StoredOf(G)
    OBVIOUS
  <2>1. PICK i \in e : ~i.placed
    BY DEF InGroup, WithStored
  <2>2. i \in G
    BY <1>1, <1>2
  <2> QED BY <2>1, <2>2 DEF StoredOf
<1>4. /\ IsFiniteSet(G) /\ IsFiniteSet(StoredOf(G))
      /\ IsFiniteSet(StoredOf(G) \cup LiveOf(G))
      /\ s \in Nat /\ l \in Nat /\ u \in Nat
      /\ Cardinality(StoredOf(G) \cup LiveOf(G)) = s + l
      /\ Cardinality(G) = s + l + u
  BY GroupCounts
<1> HIDE DEF G, P, Q
<1>5. IsFiniteSet(P) /\ Cardinality(P) <= s + l
  BY <1>1, <1>2, <1>4, OneOfEach
<1>6. 2 * Cardinality(P) <= s + l + u
  BY <1>1, <1>2, <1>4, TwoOfEach
<1>7. IsFiniteSet(Q) /\ Cardinality(Q) <= s
  BY <1>1, <1>3, <1>4, OneOfEach
<1>8. Cardinality(Q) <= Cardinality(P)
  BY <1>1, <1>5, FS_Subset
<1>9. Cardinality(P) \in Nat /\ Cardinality(Q) \in Nat
  BY <1>5, <1>7, FS_CardinalityType
<1> HIDE DEF s, l, u
<1>10. Cardinality(P) <= Smaller(s + l, (s + l + u) \div 2)
  BY <1>4, <1>5, <1>6, <1>9 DEF Smaller
<1>11. Cardinality(Q)
          <= Smaller(s, Smaller(s + l, (s + l + u) \div 2))
  BY <1>4, <1>7, <1>8, <1>9, <1>10 DEF Smaller
<1> QED BY <1>5, <1>7, <1>10, <1>11
        DEF G, P, Q, s, l, u, PairCount, StoredPairCount

\* The places of a plan, and those whose pair consumes a stored copy.
StoredPlaces ==
    {p \in Places(snapshot) :
        p[2] <= StoredPairCount(GroupAt(snapshot, p[1]))}

LEMMA PlaceOfGroup ==
    ASSUME snapshot \in Snapshot, Readable, NEW g \in Groups
    PROVE  LET k == PairCount(GroupAt(snapshot, g))
               j == StoredPairCount(GroupAt(snapshot, g))
           IN  /\ k \in Nat /\ j \in Nat
               /\ \A n \in 1..k : <<g, n>> \in Places(snapshot)
               /\ \A n \in 1..j : <<g, n>> \in StoredPlaces
<1> DEFINE G == GroupAt(snapshot, g)
           k == PairCount(G)
           j == StoredPairCount(G)
<1>1. /\ k \in Nat /\ j \in Nat /\ Len(GroupPairs(G)) = k
  <2>1. G \subseteq Range(snapshot.furniture)
    BY DEF GroupAt, Members
  <2> HIDE DEF G
  <2>2. Pairing(GroupPairs(G), G, G, PairCount(G)) /\ k \in Nat /\ j \in Nat
    BY <2>1, GroupPairsAreMembers DEF Readable
  <2> QED BY <2>2 DEF Pairing
<1>2. j <= k
  BY <1>1 DEF StoredPairCount, Smaller
<1>3. k <= Len(snapshot.furniture) /\ Len(snapshot.furniture) \in Nat
  <2> DEFINE s == Cardinality(StoredOf(G))
             l == Cardinality(LiveOf(G))
             u == Cardinality(UnavailableOf(G))
  <2>1. /\ s \in Nat /\ l \in Nat /\ u \in Nat
        /\ s + l + u <= Len(snapshot.furniture)
    BY GroupCounts
  <2>2. k = Smaller(s + l, (s + l + u) \div 2)
    BY DEF PairCount
  <2>3. Len(snapshot.furniture) \in Nat
    BY DEF Snapshot
  <2> HIDE DEF s, l, u, k, G
  <2> QED BY <2>1, <2>2, <2>3 DEF Smaller
<1>4. ASSUME NEW n \in 1..k
      PROVE  <<g, n>> \in Places(snapshot)
  <2>1. n \in 1..Len(snapshot.furniture) /\ n <= k
    BY <1>1, <1>3
  <2> QED BY <1>1, <2>1 DEF Places
<1>5. ASSUME NEW n \in 1..j
      PROVE  <<g, n>> \in StoredPlaces
  <2>1. n \in 1..k /\ n <= j
    BY <1>1, <1>2
  <2>2. <<g, n>> \in Places(snapshot)
    BY <1>4, <2>1
  <2> QED BY <2>1, <2>2 DEF StoredPlaces
<1> QED BY <1>1, <1>4, <1>5

\* No choice of disjoint pairs has more pairs than the planner has places,
\* nor more pairs with a stored copy than it has places for these.
LEMMA MatchingFitsPlaces ==
    ASSUME snapshot \in Snapshot, Readable, NEW N \in Matchings
    PROVE  /\ IsFiniteSet(N)
           /\ Cardinality(N) <= Cardinality(Places(snapshot))
           /\ Cardinality(WithStored(N)) <= Cardinality(StoredPlaces)
<1>1. IsFiniteSet(Places(snapshot))
  BY PlacesAreFinite
<1>2. IsFiniteSet(StoredPlaces)
  BY <1>1, FS_Subset DEF StoredPlaces
<1> DEFINE k == [g \in Groups |-> PairCount(GroupAt(snapshot, g))]
           j == [g \in Groups |-> StoredPairCount(GroupAt(snapshot, g))]
           group(M) == [e \in M |-> EdgeGroup(e)]
<1>3. k \in [Groups -> Nat] /\ j \in [Groups -> Nat]
  BY PlaceOfGroup
<1>4. \A e \in N : EdgeGroup(e) \in Groups
  BY EdgeIsInGroup DEF Matchings
<1>5. /\ group(N) \in [N -> Groups]
      /\ group(WithStored(N)) \in [WithStored(N) -> Groups]
  BY <1>4 DEF WithStored
<1>6. ASSUME NEW M, NEW g \in Groups
      PROVE  {e \in M : group(M)[e] = g} = InGroup(M, g)
  BY DEF InGroup
<1>7. IsFiniteSet(N) /\ Cardinality(N) <= Cardinality(Places(snapshot))
  <2>1. \A g \in Groups : \A n \in 1..k[g] : <<g, n>> \in Places(snapshot)
    BY PlaceOfGroup
  <2>2. \A g \in Groups :
           /\ IsFiniteSet({e \in N : group(N)[e] = g})
           /\ Cardinality({e \in N : group(N)[e] = g}) <= k[g]
    <3> SUFFICES ASSUME NEW g \in Groups
                 PROVE  /\ IsFiniteSet({e \in N : group(N)[e] = g})
                        /\ Cardinality({e \in N : group(N)[e] = g}) <= k[g]
      OBVIOUS
    <3>1. /\ IsFiniteSet(InGroup(N, g))
          /\ Cardinality(InGroup(N, g)) <= k[g]
      BY PairsOfGroup
    <3> HIDE DEF k, group
    <3> QED BY <1>6, <3>1
  <2> HIDE DEF k, group
  <2> QED BY <1>1, <1>3, <1>5, <2>1, <2>2, FitByGroup
<1>8. Cardinality(WithStored(N)) <= Cardinality(StoredPlaces)
  <2> DEFINE M == WithStored(N)
  <2>1. \A g \in Groups : \A n \in 1..j[g] : <<g, n>> \in StoredPlaces
    BY PlaceOfGroup
  <2>2. \A g \in Groups :
           /\ IsFiniteSet({e \in M : group(M)[e] = g})
           /\ Cardinality({e \in M : group(M)[e] = g}) <= j[g]
    <3> SUFFICES ASSUME NEW g \in Groups
                 PROVE  /\ IsFiniteSet({e \in M : group(M)[e] = g})
                        /\ Cardinality({e \in M : group(M)[e] = g}) <= j[g]
      OBVIOUS
    <3>1. /\ IsFiniteSet(InGroup(M, g))
          /\ Cardinality(InGroup(M, g)) <= j[g]
      BY PairsOfGroup
    <3> HIDE DEF j, group, M
    <3> QED BY <1>6, <3>1
  <2>3. group(M) \in [M -> Groups]
    BY <1>5
  <2> HIDE DEF j, group, M
  <2>4. Cardinality(M) <= Cardinality(StoredPlaces)
    BY <1>2, <1>3, <2>1, <2>2, <2>3, FitByGroup
  <2> QED BY <2>4 DEF M
<1> QED BY <1>7, <1>8
-----------------------------------------------------------------------------
(***************************************************************************)
(* The pair at a place, seen from the instances: both have the item and    *)
(* the flags of the group, and the one that goes can be taken away.        *)
(***************************************************************************)
LEMMA InstanceOfKey ==
    ASSUME snapshot \in Snapshot, Readable,
           NEW i \in Range(snapshot.furniture)
    PROVE  Instance(i.stable_key) = i
<1>1. \A j \in Range(snapshot.furniture) :
         j.stable_key = i.stable_key => j = i
  BY DEF Readable, HasDuplicateStableKeys, Range
<1> QED BY <1>1 DEF Instance

LEMMA PairAtIsEdge ==
    ASSUME snapshot \in Snapshot, Readable, NEW p \in Places(snapshot)
    PROVE  LET x == PairAt(snapshot, p)[1]
               y == PairAt(snapshot, p)[2]
           IN  /\ x \in GroupAt(snapshot, p[1]) /\ y \in GroupAt(snapshot, p[1])
               /\ x \in Range(snapshot.furniture)
               /\ y \in Range(snapshot.furniture)
               /\ x # y
               /\ {x, y} \in Edges
               /\ ~Unavailable(y)
               /\ y.placed <=> p \notin StoredPlaces
<1> DEFINE g == p[1]
           G == GroupAt(snapshot, g)
           x == PairAt(snapshot, p)[1]
           y == PairAt(snapshot, p)[2]
<1>1. g \in Groups /\ p[2] \in 1..Len(snapshot.furniture)
  BY PlaceIsPair
<1>2. x \in G /\ y \in G /\ x # y
  <2>1. PairAt(snapshot, p) \in PairsOf(G)
    BY PairAtIsPair DEF Readable
  <2> QED BY <2>1 DEF PairsOf
<1>3. y \in IF p[2] <= StoredPairCount(G) THEN StoredOf(G) ELSE LiveOf(G)
  <2>1. G \subseteq Range(snapshot.furniture)
    BY DEF GroupAt, Members
  <2>2. /\ Pairing(GroupPairs(G), G, G, PairCount(G))
        /\ PairCount(G) \in Nat
        /\ \A n \in 1..PairCount(G) :
              GroupPairs(G)[n][2]
                 \in IF n <= StoredPairCount(G) THEN StoredOf(G)
                                                ELSE LiveOf(G)
    BY <2>1, GroupPairsAreMembers DEF Readable
  <2>3. p[2] <= Len(GroupPairs(G)) /\ p[2] \in Nat /\ 1 <= p[2]
    BY PlaceIsPair DEF Snapshot
  <2>4. p[2] \in 1..PairCount(G)
    <3> HIDE DEF G
    <3> QED BY <2>2, <2>3 DEF Pairing
  <2> QED BY <2>2, <2>4 DEF PairAt
<1>4. /\ x \in Range(snapshot.furniture) /\ y \in Range(snapshot.furniture)
      /\ x \in Instances /\ y \in Instances
      /\ x.item_id = y.item_id /\ x.placement_flags = y.placement_flags
      /\ y.placed \in BOOLEAN
  BY <1>1, <1>2, GroupMember
<1>5. ~Unavailable(y) /\ (y.placed <=> ~(p[2] <= StoredPairCount(G)))
  BY <1>3, <1>4 DEF StoredOf, LiveOf, Unavailable
<1>6. {x, y} \in Edges
  <2> HIDE DEF x, y
  <2>1. Combinable(x, y)
    BY <1>2, <1>4, <1>5 DEF Combinable
  <2>2. {x, y} \in SUBSET Instances
    BY <1>4
  <2> QED BY <2>1, <2>2 DEF Edges
<1>7. p \notin StoredPlaces <=> ~(p[2] <= StoredPairCount(G))
  BY DEF StoredPlaces
<1> QED BY <1>2, <1>4, <1>5, <1>6, <1>7

LEMMA PairsAtDiffer ==
    ASSUME snapshot \in Snapshot, Readable,
           NEW p \in Places(snapshot), NEW q \in Places(snapshot), p # q
    PROVE  {PairAt(snapshot, p)[1], PairAt(snapshot, p)[2]}
              \cap {PairAt(snapshot, q)[1], PairAt(snapshot, q)[2]} = {}
BY PlacePairsAreDisjoint DEF Readable
-----------------------------------------------------------------------------
(***************************************************************************)
(* The planner has planned or has not; when it has, the plan is the one    *)
(* of the snapshot.  Everything below is about that plan.                  *)
(***************************************************************************)
PlanInv ==
    /\ snapshot \in Snapshot
    /\ planned \in BOOLEAN
    /\ plan = IF planned THEN FindCandidates(snapshot) ELSE <<>>

LEMMA PlanIsMade == Spec => []PlanInv
<1>1. Init => PlanInv
  BY SnapshotsAssumption DEF Init, PlanInv
<1>2. PlanInv /\ [Next]_vars => PlanInv'
  <2>1. ASSUME PlanInv, Plan
        PROVE  PlanInv'
    <3>1. snapshot' = snapshot /\ planned' = TRUE
      BY <2>1 DEF Plan
    <3>2. plan' = FindCandidates(snapshot)
      BY <2>1 DEF Plan
    <3>3. snapshot \in Snapshot
      BY <2>1 DEF PlanInv
    <3> QED BY <3>1, <3>2, <3>3 DEF PlanInv
  <2>2. ASSUME PlanInv, UNCHANGED vars
        PROVE  PlanInv'
    BY <2>2 DEF PlanInv, vars
  <2> QED BY <2>1, <2>2 DEF Next
<1> QED BY <1>1, <1>2, PTL DEF Spec

LEMMA PlanIsListed ==
    ASSUME PlanInv, planned, Readable
    PROVE  \E order :
              /\ ListsPlaces(snapshot, order, plan)
              /\ DOMAIN plan = 1..Cardinality(Places(snapshot))
              /\ Len(plan) = Cardinality(Places(snapshot))
              /\ \A n \in DOMAIN plan :
                    /\ order[n] \in Places(snapshot)
                    /\ plan[n] = CandidateOf(PairAt(snapshot, order[n]),
                                             order[n][1][2],
                                             Len(snapshot.furniture))
<1>1. PICK order : ListsPlaces(snapshot, order, plan)
  BY PlanListsPlaces DEF PlanInv, Readable
<1> DEFINE count == Cardinality(Places(snapshot))
<1>2. count \in Nat
  BY PlacesAreFinite DEF PlanInv
<1>3. /\ order \in [1..count -> Places(snapshot)]
      /\ plan = [n \in 1..count |->
                    CandidateOf(PairAt(snapshot, order[n]), order[n][1][2],
                                Len(snapshot.furniture))]
  BY <1>1 DEF ListsPlaces
<1>4. DOMAIN plan = 1..count /\ Len(plan) = count
  BY <1>2, <1>3
<1> QED BY <1>1, <1>3, <1>4

(***************************************************************************)
(* The state has the types of the program's: what the planner returns is   *)
(* a vector of candidates whatever the scan gave.                          *)
(***************************************************************************)
THEOREM PlannerTypeOK == Spec => []TypeOK
<1>1. PlanInv => TypeOK
  <2>1. Merges \subseteq CombineCandidate
    BY DEF Merges
  <2>2. ASSUME NEW s \in Seq(Merges)
        PROVE  s \in Seq(CombineCandidate)
    BY <2>1
  <2>3. ASSUME PlanInv, planned
        PROVE  plan \in Seq(CombineCandidate)
    BY <2>2, <2>3, FindCandidatesAreMerges DEF PlanInv
  <2>4. <<>> \in Seq(CombineCandidate)
    OBVIOUS
  <2> QED BY <2>3, <2>4 DEF PlanInv, TypeOK
<1> QED BY <1>1, PlanIsMade, PTL

(***************************************************************************)
(* No furniture is in two pairs of a plan, for every snapshot: neither the *)
(* four loops of a group nor two groups share a copy.                      *)
(***************************************************************************)
THEOREM PlanAlwaysDisjoint == Spec => []PlanIsDisjoint
<1>1. PlanInv => PlanIsDisjoint
  <2>1. ASSUME PlanInv, planned
        PROVE  PlanIsDisjoint
    BY <2>1, FindCandidatesAreDisjoint DEF PlanInv, PlanIsDisjoint, KeysOf
  <2>2. ASSUME PlanInv, ~planned
        PROVE  PlanIsDisjoint
    BY <2>2 DEF PlanInv, PlanIsDisjoint
  <2> QED BY <2>1, <2>2
<1> QED BY <1>1, PlanIsMade, PTL

\* What a place of the four loops yields is a candidate for its two instances.
LEMMA PairIsFor ==
    ASSUME snapshot \in Snapshot, Readable, NEW p \in Places(snapshot),
           NEW size
    PROVE  PlanIsFor(CandidateOf(PairAt(snapshot, p), p[1][2], size))
<1> DEFINE pair == PairAt(snapshot, p)
           x == pair[1]
           y == pair[2]
           c == CandidateOf(pair, p[1][2], size)
           G == GroupAt(snapshot, p[1])
<1>1. /\ x \in G /\ y \in G
      /\ x \in Range(snapshot.furniture) /\ y \in Range(snapshot.furniture)
      /\ {x, y} \in Edges /\ ~Unavailable(y)
  BY PairAtIsEdge
<1>2. /\ c.keep_key = x.stable_key /\ c.consume_key = y.stable_key
      /\ c.item_id = x.item_id
      /\ c.keep_flags = x.placement_flags
      /\ c.consume_flags = y.placement_flags
      /\ c.consume_placed = y.placed
      /\ c.promote_to_rare = ~p[1][2] /\ c.promote_to_enhanced = p[1][2]
  BY DEF CandidateOf
<1>3. IsRare(x) = p[1][2]
  <2>1. p[1] \in Groups
    BY PlaceIsPair
  <2> QED BY <1>1, <2>1, GroupMember
<1> HIDE DEF x, y, c, G
<1>4. Instance(c.keep_key) = x /\ Instance(c.consume_key) = y
  BY <1>1, <1>2, InstanceOfKey
<1>5. PlanIsFor(c)
  BY <1>1, <1>2, <1>3, <1>4 DEF PlanIsFor
<1> QED BY <1>5 DEF c

(***************************************************************************)
(* Every pair of a plan can be combined, carries the item, the flags and   *)
(* the room of its instances, and never consumes a copy whose room is not  *)
(* loaded; an unreadable or ambiguous scan gives no pair.                  *)
(***************************************************************************)
THEOREM PlanAlwaysSound == Spec => []PlanIsSound
<1>1. PlanInv => PlanIsSound
  <2> SUFFICES ASSUME PlanInv, planned
               PROVE  IF Readable
                      THEN \A n \in DOMAIN plan : PlanIsFor(plan[n])
                      ELSE plan = <<>>
    BY DEF PlanIsSound
  <2>1. CASE Readable
    <3>1. PICK order :
             \A n \in DOMAIN plan :
                /\ order[n] \in Places(snapshot)
                /\ plan[n] = CandidateOf(PairAt(snapshot, order[n]),
                                         order[n][1][2],
                                         Len(snapshot.furniture))
      BY <2>1, PlanIsListed
    <3>2. snapshot \in Snapshot
      BY DEF PlanInv
    <3>3. ASSUME NEW n \in DOMAIN plan
          PROVE  PlanIsFor(plan[n])
      BY <2>1, <3>1, <3>2, PairIsFor
    <3> QED BY <2>1, <3>3
  <2>2. CASE ~Readable
    BY <2>2 DEF PlanInv, Readable, FindCandidates
  <2> QED BY <2>1, <2>2
<1> QED BY <1>1, PlanIsMade, PTL

(***************************************************************************)
(* No choice of disjoint pairs that could be combined, of any snapshot,    *)
(* has more pairs than the plan ("all deterministic pairs").               *)
(***************************************************************************)
THEOREM PlanAlwaysMaximum == Spec => []PlanIsMaximum
<1>1. PlanInv => PlanIsMaximum
  <2> SUFFICES ASSUME PlanInv, planned, Readable, NEW M \in Matchings
               PROVE  Cardinality(M) <= Len(plan)
    BY DEF PlanIsMaximum
  <2>1. Len(plan) = Cardinality(Places(snapshot))
    BY PlanIsListed
  <2>2. Cardinality(M) <= Cardinality(Places(snapshot))
    BY MatchingFitsPlaces DEF PlanInv
  <2> QED BY <2>1, <2>2
<1> QED BY <1>1, PlanIsMade, PTL

\* The pairs of the plan are themselves such a choice.
LEMMA PlanIsMatching ==
    ASSUME snapshot \in Snapshot, Readable
    PROVE  \E L \in Matchings :
              Cardinality(Places(snapshot)) <= Cardinality(L)
<1> DEFINE edge(p) == {PairAt(snapshot, p)[1], PairAt(snapshot, p)[2]}
           f == [p \in Places(snapshot) |-> edge(p)]
           L == {edge(p) : p \in Places(snapshot)}
<1>1. ASSUME NEW p \in Places(snapshot)
      PROVE  edge(p) \in Edges
  BY PairAtIsEdge
<1>2. ASSUME NEW p \in Places(snapshot), NEW q \in Places(snapshot), p # q
      PROVE  edge(p) \cap edge(q) = {}
  BY <1>2, PairsAtDiffer
<1>3. ASSUME NEW p \in Places(snapshot)
      PROVE  edge(p) # {}
  OBVIOUS
<1> HIDE DEF edge
<1>4. L \in Matchings
  <2>1. L \subseteq Edges
    BY <1>1
  <2>2. \A d, e \in L : d # e => d \cap e = {}
    BY <1>2
  <2> HIDE DEF L
  <2> QED BY <2>1, <2>2 DEF Matchings
<1>5. f \in [Places(snapshot) -> L]
  OBVIOUS
<1>6. \A p, q \in Places(snapshot) : f[p] = f[q] => p = q
  BY <1>2, <1>3
<1> HIDE DEF f, L
<1>7. f \in Injection(Places(snapshot), L)
  BY <1>5, <1>6, Fun_IsInj
<1>8. IsFiniteSet(L)
  BY <1>4, MatchingFitsPlaces
<1>9. Cardinality(Places(snapshot)) <= Cardinality(L)
  BY <1>7, <1>8, FS_Injection
<1> QED BY <1>4, <1>9

(***************************************************************************)
(* Among the choices with the most pairs none recalls fewer copies out of  *)
(* rooms than the plan: a choice has no more pairs with a stored copy than *)
(* the plan, so of as many pairs at least as many take a placed one.       *)
(***************************************************************************)
THEOREM PlanAlwaysRecallsFewest == Spec => []PlanRecallsFewest
<1>1. PlanInv => PlanRecallsFewest
  <2> DEFINE recalled == {n \in DOMAIN plan : plan[n].consume_placed}
             P == Places(snapshot)
             S == StoredPlaces
  <2> SUFFICES ASSUME PlanInv, planned, Readable, NEW M \in Matchings,
                      Maximal(M)
               PROVE  Cardinality(recalled) <= Recalls(M)
    BY DEF PlanRecallsFewest
  <2>0. snapshot \in Snapshot
    BY DEF PlanInv
  <2>1. /\ IsFiniteSet(P) /\ S \subseteq P /\ IsFiniteSet(S)
        /\ Cardinality(P) \in Nat /\ Cardinality(S) \in Nat
    BY <2>0, PlacesAreFinite, FS_Subset, FS_CardinalityType
       DEF StoredPlaces
  <2>2. Cardinality(recalled) <= Cardinality(P \ S)
    <3>1. PICK order :
             /\ ListsPlaces(snapshot, order, plan)
             /\ DOMAIN plan = 1..Cardinality(Places(snapshot))
             /\ \A n \in DOMAIN plan :
                   /\ order[n] \in Places(snapshot)
                   /\ plan[n] = CandidateOf(PairAt(snapshot, order[n]),
                                            order[n][1][2],
                                            Len(snapshot.furniture))
      BY PlanIsListed
    <3> DEFINE f == [n \in recalled |-> order[n]]
    <3>2. ASSUME NEW n \in recalled
          PROVE  order[n] \in P \ S
      <4>1. /\ n \in DOMAIN plan /\ plan[n].consume_placed
            /\ order[n] \in P
        BY <3>1
      <4>2. plan[n].consume_placed = PairAt(snapshot, order[n])[2].placed
        <5>1. ASSUME NEW c, NEW pair, NEW rare, NEW size,
                     c = CandidateOf(pair, rare, size)
              PROVE  c.consume_placed = pair[2].placed
          BY <5>1 DEF CandidateOf
        <5>2. plan[n] = CandidateOf(PairAt(snapshot, order[n]),
                                    order[n][1][2], Len(snapshot.furniture))
          BY <3>1, <4>1
        <5> QED BY <5>1, <5>2, Zenon
      <4> QED BY <2>0, <4>1, <4>2, PairAtIsEdge
    <3>3. f \in [recalled -> P \ S]
      <4> HIDE DEF recalled, P, S
      <4> QED BY <3>2
    <3>4. \A m, n \in recalled : f[m] = f[n] => m = n
      <4>1. \A m, n \in 1..Cardinality(Places(snapshot)) :
               m # n => order[m] # order[n]
        BY <3>1 DEF ListsPlaces
      <4>2. \A n \in recalled : n \in 1..Cardinality(Places(snapshot))
        BY <3>1
      <4> HIDE DEF recalled
      <4> QED BY <4>1, <4>2
    <3> HIDE DEF f, recalled, P, S
    <3>5. f \in Injection(recalled, P \ S)
      BY <3>3, <3>4, Fun_IsInj
    <3>6. IsFiniteSet(P \ S)
      BY <2>1, FS_Difference
    <3> QED BY <3>5, <3>6, FS_Injection
  <2>3. Cardinality(P \ S) = Cardinality(P) - Cardinality(S)
    <3>1. P \cap S = S
      BY <2>1
    <3> HIDE DEF P, S
    <3> QED BY <2>1, <3>1, FS_Difference
  <2>4. /\ IsFiniteSet(M) /\ Cardinality(WithStored(M)) <= Cardinality(S)
    BY <2>0, MatchingFitsPlaces
  <2>5. Cardinality(P) <= Cardinality(M)
    <3>1. PICK L \in Matchings : Cardinality(P) <= Cardinality(L)
      BY <2>0, PlanIsMatching
    <3>2. Cardinality(L) <= Cardinality(M)
      BY DEF Maximal
    <3>3. Cardinality(L) \in Nat /\ Cardinality(M) \in Nat
      BY <2>0, MatchingFitsPlaces, FS_CardinalityType
    <3> QED BY <2>1, <3>1, <3>2, <3>3
  <2>6. /\ Recalls(M) = Cardinality(M) - Cardinality(WithStored(M))
        /\ Cardinality(M) \in Nat /\ Cardinality(WithStored(M)) \in Nat
    <3>1. {e \in M : \A i \in e : i.placed} = M \ WithStored(M)
      BY DEF WithStored
    <3>2. WithStored(M) \subseteq M
      BY DEF WithStored
    <3>3. M \cap WithStored(M) = WithStored(M)
      BY <3>2
    <3>4. Cardinality(M \ WithStored(M))
             = Cardinality(M) - Cardinality(WithStored(M))
      BY <2>4, <3>3, FS_Difference
    <3>5. Cardinality(M) \in Nat /\ Cardinality(WithStored(M)) \in Nat
      BY <2>4, <3>2, FS_Subset, FS_CardinalityType
    <3> QED BY <3>1, <3>4, <3>5 DEF Recalls
  <2>7. Cardinality(recalled) \in Nat
    <3>1. DOMAIN plan = 1..Cardinality(P)
      BY PlanIsListed
    <3>2. IsFiniteSet(DOMAIN plan)
      <4>1. 1 \in Int /\ Cardinality(P) \in Int
        BY <2>1
      <4> QED BY <3>1, <4>1, FS_Interval
    <3>3. IsFiniteSet(recalled)
      BY <3>2, FS_Subset
    <3> QED BY <3>3, FS_CardinalityType
  <2> HIDE DEF recalled, P, S
  <2> QED BY <2>1, <2>2, <2>3, <2>4, <2>5, <2>6, <2>7
<1> QED BY <1>1, PlanIsMade, PTL
=============================================================================
