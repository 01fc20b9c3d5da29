-------------------------- MODULE CatalogueProofs ---------------------------
(***************************************************************************)
(* The catalogue says what the files of the archive mean, for every archive *)
(* and every limit, and EnsureCatalog answers every request alike.         *)
(***************************************************************************)
EXTENDS ArchiveProofs

(***************************************************************************)
(* Braces.  The depth at the end of a stretch of text, and where it is 0.  *)
(***************************************************************************)
Depth(text, b, e) == Count(text, b, e, OPEN) - Count(text, b, e, CLOSE)

Matches(text, b, e, w) == {i \in b..e : text[i] = w}

LEMMA MatchesAreFinite ==
  ASSUME NEW text, NEW b \in Int, NEW e \in Int, NEW w
  PROVE  /\ IsFiniteSet(Matches(text, b, e, w))
         /\ Count(text, b, e, w) = Cardinality(Matches(text, b, e, w))
<1>1. IsFiniteSet(b..e)
  BY FS_Interval
<1>2. IsFiniteSet(Matches(text, b, e, w))
  BY <1>1, FS_Subset DEF Matches
<1> QED BY <1>2 DEF Count, Matches

LEMMA CountIsNat ==
  ASSUME NEW text, NEW b \in Int, NEW e \in Int, NEW w
  PROVE  Count(text, b, e, w) \in Nat
BY MatchesAreFinite, FS_CardinalityType

LEMMA CountOfOne ==
  ASSUME NEW text, NEW b \in Int, NEW w
  PROVE  Count(text, b, b, w) = IF text[b] = w THEN 1 ELSE 0
<1>1. \A i : i \in b..b <=> i = b
  OBVIOUS
<1>2. CASE text[b] = w
  <2>1. {i \in b..b : text[i] = w} = {b}
    BY <1>1, <1>2
  <2> QED BY <1>2, <2>1, FS_Singleton DEF Count
<1>3. CASE text[b] # w
  <2>1. {i \in b..b : text[i] = w} = {}
    BY <1>1, <1>3
  <2> QED BY <1>3, <2>1, FS_EmptySet DEF Count
<1> QED BY <1>2, <1>3

LEMMA CountSplits ==
  ASSUME NEW text, NEW b \in Int, NEW m \in Int, NEW e \in Int, NEW w,
         b <= m + 1, m <= e
  PROVE  Count(text, b, e, w) = Count(text, b, m, w) + Count(text, m + 1, e, w)
<1> DEFINE P == Matches(text, b, m, w)
           Q == Matches(text, m + 1, e, w)
<1>1. Matches(text, b, e, w) = P \cup Q
  <2>1. \A i : i \in b..e <=> i \in b..m \/ i \in (m + 1)..e
    OBVIOUS
  <2> QED BY <2>1 DEF Matches
<1>2. P \cap Q = {}
  <2>1. \A i : ~(i \in b..m /\ i \in (m + 1)..e)
    OBVIOUS
  <2> QED BY <2>1 DEF Matches
<1>3. IsFiniteSet(P) /\ IsFiniteSet(Q)
  <2>1. m + 1 \in Int
    OBVIOUS
  <2> QED BY <2>1, MatchesAreFinite
<1>4. Cardinality(P) \in Nat /\ Cardinality(Q) \in Nat
  BY <1>3, FS_CardinalityType
<1> HIDE DEF P, Q
<1>5. Cardinality(P \cup Q)
        = Cardinality(P) + Cardinality(Q) - Cardinality(P \cap Q)
  BY <1>3, FS_Union
<1>6. Cardinality(P \cap Q) = 0
  BY <1>2, FS_EmptySet
<1>7. Cardinality(P \cup Q) = Cardinality(P) + Cardinality(Q)
  BY <1>4, <1>5, <1>6
<1>8. m + 1 \in Int
  OBVIOUS
<1>9. /\ Count(text, b, e, w) = Cardinality(P \cup Q)
      /\ Count(text, b, m, w) = Cardinality(P)
      /\ Count(text, m + 1, e, w) = Cardinality(Q)
  BY <1>1, <1>8, MatchesAreFinite DEF P, Q
<1> QED BY <1>7, <1>9

LEMMA DepthIsInt ==
  ASSUME NEW text, NEW b \in Int, NEW e \in Int
  PROVE  Depth(text, b, e) \in Int
<1>1. Count(text, b, e, OPEN) \in Nat /\ Count(text, b, e, CLOSE) \in Nat
  BY CountIsNat
<1> QED BY <1>1 DEF Depth

LEMMA DepthOfOne ==
  ASSUME NEW text, NEW b \in Int
  PROVE  Depth(text, b, b) = (IF text[b] = OPEN THEN 1 ELSE 0)
                           - (IF text[b] = CLOSE THEN 1 ELSE 0)
BY CountOfOne DEF Depth

LEMMA DepthSplits ==
  ASSUME NEW text, NEW b \in Int, NEW m \in Int, NEW e \in Int,
         b <= m + 1, m <= e
  PROVE  Depth(text, b, e) = Depth(text, b, m) + Depth(text, m + 1, e)
<1> DEFINE o == Count(text, b, m, OPEN)
           p == Count(text, m + 1, e, OPEN)
           c == Count(text, b, m, CLOSE)
           d == Count(text, m + 1, e, CLOSE)
<1>1. Count(text, b, e, OPEN) = o + p /\ Count(text, b, e, CLOSE) = c + d
  BY CountSplits
<1>2. o \in Nat /\ p \in Nat /\ c \in Nat /\ d \in Nat
  <2>1. m + 1 \in Int
    OBVIOUS
  <2> QED BY <2>1, CountIsNat
<1> HIDE DEF o, p, c, d
<1>3. (o + p) - (c + d) = (o - c) + (p - d)
  BY <1>2
<1> QED BY <1>1, <1>3 DEF Depth, o, p, c, d

LEMMA DepthStep ==
  ASSUME NEW text, NEW b \in Int, NEW e \in Int, b <= e
  PROVE  Depth(text, b, e) = Depth(text, b, e - 1)
                           + (IF text[e] = OPEN THEN 1 ELSE 0)
                           - (IF text[e] = CLOSE THEN 1 ELSE 0)
<1> DEFINE m == e - 1
<1>1. m \in Int /\ m + 1 = e /\ b <= m + 1 /\ m <= e
  OBVIOUS
<1> HIDE DEF m
<1>2. Depth(text, b, e) = Depth(text, b, m) + Depth(text, m + 1, e)
  BY <1>1, DepthSplits
<1>3. Depth(text, m + 1, e) = (IF text[e] = OPEN THEN 1 ELSE 0)
                            - (IF text[e] = CLOSE THEN 1 ELSE 0)
  BY <1>1, DepthOfOne
<1>4. Depth(text, b, m) \in Int
  BY <1>1, DepthIsInt
<1> QED BY <1>2, <1>3, <1>4 DEF m

\* The depth changes by one at most, so it does not pass over 0.
LEMMA DepthMeetsZero ==
  ASSUME NEW text, NEW b \in Nat, NEW m \in Nat, NEW e \in Nat,
         b <= m, m <= e, Depth(text, b, m) > 0, Depth(text, b, e) <= 0
  PROVE  \E z \in m..e : /\ m < z
                         /\ Depth(text, b, z) = 0
                         /\ \A i \in m..(z - 1) : Depth(text, b, i) > 0
<1> DEFINE Z == {i \in m..e : Depth(text, b, i) <= 0}
<1>1. Z \in SUBSET Nat /\ e \in Z
  <2>1. \A i \in m..e : i \in Nat
    OBVIOUS
  <2> QED BY <2>1
<1>2. PICK z \in Z : \A i \in Z : z <= i
  <2> HIDE DEF Z
  <2> QED BY <1>1, LeastNumber
<1>3. z \in m..e /\ Depth(text, b, z) <= 0 /\ z \in Nat
  BY <1>1, <1>2
<1>4. z # m
  BY <1>3, DepthIsInt
<1>5. \A i \in m..(z - 1) : Depth(text, b, i) > 0
  <2> SUFFICES ASSUME NEW i \in m..(z - 1) PROVE Depth(text, b, i) > 0
    OBVIOUS
  <2>1. i \in m..e /\ i < z /\ i \in Nat
    BY <1>3
  <2>2. i \notin Z
    BY <1>2, <1>3, <2>1
  <2>3. ~(Depth(text, b, i) <= 0)
    BY <2>1, <2>2
  <2>4. Depth(text, b, i) \in Int
    BY <2>1, DepthIsInt
  <2> QED BY <2>3, <2>4
<1>6. Depth(text, b, z) = 0
  <2>1. z - 1 \in m..(z - 1) /\ z - 1 \in Int /\ z \in Int /\ b <= z
    BY <1>3, <1>4
  <2>2. Depth(text, b, z - 1) > 0 /\ Depth(text, b, z - 1) \in Int
    BY <1>5, <2>1, DepthIsInt
  <2>3. Depth(text, b, z) = Depth(text, b, z - 1)
                          + (IF text[z] = OPEN THEN 1 ELSE 0)
                          - (IF text[z] = CLOSE THEN 1 ELSE 0)
    BY <2>1, DepthStep
  <2>4. Depth(text, b, z) <= 0 /\ Depth(text, b, z) \in Int
    BY <1>3, DepthIsInt
  <2> QED BY <2>2, <2>3, <2>4
<1> QED BY <1>3, <1>4, <1>5, <1>6

LEMMA ClosesIsDepth ==
  ASSUME NEW text, NEW b \in Nat, NEW e \in Nat
  PROVE  Closes(text, b, e) <=>
            /\ Depth(text, b, e) = 0
            /\ \A i \in b..(e - 1) : Depth(text, b, i) > 0
<1>1. \A i \in Nat : /\ Count(text, b, i, OPEN) \in Nat
                     /\ Count(text, b, i, CLOSE) \in Nat
  <2>1. b \in Int /\ \A i \in Nat : i \in Int
    OBVIOUS
  <2> QED BY <2>1, CountIsNat
<1>2. \A i \in Nat :
         /\ Depth(text, b, i) = 0
              <=> Count(text, b, i, OPEN) = Count(text, b, i, CLOSE)
         /\ Depth(text, b, i) > 0
              <=> Count(text, b, i, OPEN) > Count(text, b, i, CLOSE)
  <2> SUFFICES ASSUME NEW i \in Nat
        PROVE /\ Depth(text, b, i) = 0
                   <=> Count(text, b, i, OPEN) = Count(text, b, i, CLOSE)
              /\ Depth(text, b, i) > 0
                   <=> Count(text, b, i, OPEN) > Count(text, b, i, CLOSE)
    OBVIOUS
  <2> DEFINE o == Count(text, b, i, OPEN)
             c == Count(text, b, i, CLOSE)
  <2>1. o \in Nat /\ c \in Nat /\ Depth(text, b, i) = o - c
    BY <1>1 DEF Depth
  <2> HIDE DEF o, c
  <2>2. (o - c = 0 <=> o = c) /\ (o - c > 0 <=> o > c)
    BY <2>1
  <2> QED BY <2>1, <2>2 DEF o, c
<1>3. \A i \in b..(e - 1) : i \in Nat
  OBVIOUS
<1> QED BY <1>2, <1>3 DEF Closes

LEMMA ClosesOnce ==
  ASSUME NEW text, NEW b \in Nat, NEW e \in Nat, NEW f \in Nat,
         b <= e, b <= f, Closes(text, b, e), Closes(text, b, f)
  PROVE  e = f
<1>1. Depth(text, b, e) = 0 /\ Depth(text, b, f) = 0
  BY ClosesIsDepth
<1>2. ASSUME e < f PROVE FALSE
  <2>1. e \in b..(f - 1)
    BY <1>2
  <2> QED BY <1>1, <2>1, ClosesIsDepth
<1>3. ASSUME f < e PROVE FALSE
  <2>1. f \in b..(e - 1)
    BY <1>3
  <2> QED BY <1>1, <2>1, ClosesIsDepth
<1> QED BY <1>2, <1>3

\* A brace within a block closes within it.
LEMMA InnerCloses ==
  ASSUME NEW text, NEW o \in Nat, NEW b \in Nat, NEW e \in Nat,
         o < b, b <= e, text[b] = OPEN, Closes(text, o, e)
  PROVE  \E f \in b..e : Closes(text, b, f)
<1>1. Depth(text, b, b) = 1
  BY DepthOfOne DEF OPEN, CLOSE
<1>2. Depth(text, o, b - 1) > 0 /\ Depth(text, o, e) = 0
  <2>1. b - 1 \in o..(e - 1)
    OBVIOUS
  <2> QED BY <2>1, ClosesIsDepth
<1>3. Depth(text, b, e) <= 0
  <2> DEFINE m == b - 1
  <2>1. m \in Int /\ o <= m + 1 /\ m <= e /\ m + 1 = b
    OBVIOUS
  <2> HIDE DEF m
  <2>2. Depth(text, o, e) = Depth(text, o, m) + Depth(text, m + 1, e)
    BY <2>1, DepthSplits
  <2>3. Depth(text, o, m) > 0 /\ Depth(text, o, m) \in Int
    BY <1>2, <2>1, DepthIsInt DEF m
  <2>4. Depth(text, b, e) \in Int
    BY DepthIsInt
  <2> QED BY <1>2, <2>1, <2>2, <2>3, <2>4
<1>4. PICK f \in b..e : /\ Depth(text, b, f) = 0
                        /\ \A i \in b..(f - 1) : Depth(text, b, i) > 0
  <2>1. Depth(text, b, b) > 0 /\ b <= b
    BY <1>1
  <2> QED BY <1>3, <2>1, DepthMeetsZero
<1>5. f \in Nat
  OBVIOUS
<1> QED BY <1>4, <1>5, ClosesIsDepth

\* What Max and Min of the community modules choose.
LEMMA GreatestNumber ==
  ASSUME NEW T \in SUBSET Nat, NEW k \in T, NEW K \in Nat,
         \A n \in T : n <= K
  PROVE  /\ Max(T) \in T /\ \A m \in T : m <= Max(T)
<1> DEFINE R == {K - n : n \in T}
<1>0. \A n \in T : n \in Nat /\ n <= K
  OBVIOUS
<1>1. R \in SUBSET Nat /\ K - k \in R
  <2>1. \A n \in T : K - n \in Nat
    BY <1>0
  <2> QED BY <2>1
<1>2. PICK r \in R : \A q \in R : r <= q
  <2> HIDE DEF R
  <2> QED BY <1>1, LeastNumber
<1>3. PICK n \in T : r = K - n
  BY <1>2
<1>4. ASSUME NEW m \in T PROVE n >= m
  <2>1. K - n <= K - m
    BY <1>2, <1>3
  <2>2. n \in Nat /\ m \in Nat
    BY <1>0
  <2> QED BY <2>1, <2>2
<1>5. \E x \in T : \A y \in T : x >= y
  BY <1>4
<1>6. Max(T) \in T /\ \A y \in T : Max(T) >= y
  BY <1>5 DEF Max
<1>7. \A y \in T : y \in Nat /\ Max(T) \in Nat
  BY <1>0, <1>6
<1> QED BY <1>6, <1>7

LEMMA MinIsLeast ==
  ASSUME NEW T \in SUBSET Nat, NEW k \in T
  PROVE  Min(T) \in T /\ \A m \in T : Min(T) <= m
<1>1. \E n \in T : \A m \in T : n <= m
  BY LeastNumber
<1> QED BY <1>1 DEF Min

(***************************************************************************)
(* The depth that the parser counts is the difference of the braces.       *)
(***************************************************************************)
LEMMA BlockEndsAre ==
  ASSUME NEW text, Len(text) \in Nat, NEW b \in 1..Len(text), text[b] = OPEN
  PROVE  BlockEnds(text, b) = {i \in b..Len(text) : Depth(text, b, i) = 0}
<1> DEFINE S == b..Len(text)
           At(g, i) == IF i = b THEN 1
                       ELSE g[i - 1] + (IF text[i] = OPEN THEN 1 ELSE 0)
                                     - (IF text[i] = CLOSE THEN 1 ELSE 0)
           depth == CHOOSE g : g = [i \in S |-> At(g, i)]
           f == [i \in S |-> Depth(text, b, i)]
           id == [i \in S |-> i]
           T == {i \in S : depth[i] = f[i]}
<1>0. b \in Nat /\ \A i \in S : i \in Nat /\ b <= i
  OBVIOUS
<1>1. BlockEnds(text, b) = {i \in S : depth[i] = 0}
  BY DEF BlockEnds
<1>2. ASSUME NEW i \in S PROVE f[i] = At(f, i)
  <2>1. CASE i = b
    BY <1>0, <2>1, DepthOfOne DEF OPEN, CLOSE
  <2>2. CASE i # b
    <3>1. i - 1 \in S /\ i \in Int /\ b \in Int /\ b <= i
      BY <1>0, <2>2
    <3> QED BY <2>2, <3>1, DepthStep
  <2> QED BY <2>1, <2>2
<1>3. f = [i \in S |-> At(f, i)]
  <2> HIDE DEF At
  <2> QED BY <1>2
<1>4. depth = [i \in S |-> At(depth, i)]
  <2> HIDE DEF At, f
  <2> QED BY <1>3, Zenon
<1>5. \A i \in S : depth[i] = At(depth, i)
  <2> HIDE DEF At, depth
  <2> QED BY <1>4
<1>6. ASSUME NEW i \in S, \A m \in S : id[m] < id[i] => m \in T
      PROVE  i \in T
  <2> HIDE DEF depth, f
  <2>1. CASE i = b
    BY <1>2, <1>5, <2>1
  <2>2. CASE i # b
    <3>1. i - 1 \in S /\ i - 1 < i
      BY <1>0, <2>2
    <3>2. depth[i - 1] = f[i - 1]
      BY <1>6, <3>1
    <3> QED BY <1>2, <1>5, <2>2, <3>2
  <2> QED BY <2>1, <2>2
<1>7. S \subseteq T
  <2>1. id \in [S -> Nat]
    BY <1>0
  <2> HIDE DEF S, T, id
  <2> QED BY <1>6, <2>1, RankInduction
<1> HIDE DEF depth
<1> QED BY <1>1, <1>7

\* The end of a block is the least number of BlockEnds.
LEMMA BlockEndCloses ==
  ASSUME NEW text, Len(text) \in Nat, NEW b \in 1..Len(text), text[b] = OPEN
  PROVE  /\ (\E e \in b..Len(text) : Closes(text, b, e))
               <=> BlockEnds(text, b) # {}
         /\ \A e \in b..Len(text) : Closes(text, b, e) =>
               /\ e = Min(BlockEnds(text, b))
               /\ e \in (b + 1)..Len(text)
<1> DEFINE L == Len(text)
           ends == BlockEnds(text, b)
<1>0. b \in Nat /\ \A i \in b..L : i \in Nat /\ b <= i
  OBVIOUS
<1>1. ends = {i \in b..L : Depth(text, b, i) = 0}
  BY BlockEndsAre
<1>2. Depth(text, b, b) = 1
  BY <1>0, DepthOfOne DEF OPEN, CLOSE
<1> HIDE DEF ends
<1>3. ASSUME NEW e \in b..L, Closes(text, b, e)
      PROVE  e \in ends /\ e = Min(ends) /\ e \in (b + 1)..L
  <2>1. /\ Depth(text, b, e) = 0
        /\ \A i \in b..(e - 1) : Depth(text, b, i) > 0
    BY <1>0, <1>3, ClosesIsDepth
  <2>2. e \in ends
    BY <1>1, <2>1
  <2>3. ends \in SUBSET Nat
    BY <1>0, <1>1
  <2>4. Min(ends) \in ends /\ Min(ends) <= e
    BY <2>2, <2>3, MinIsLeast
  <2>5. Min(ends) \in b..L /\ Depth(text, b, Min(ends)) = 0 /\ Min(ends) \in Nat
    BY <1>0, <1>1, <2>4
  <2>6. ~(Min(ends) \in b..(e - 1))
    BY <2>1, <2>5
  <2>7. e = Min(ends)
    BY <1>0, <2>4, <2>5, <2>6
  <2>8. e # b
    BY <1>2, <2>1
  <2> QED BY <1>0, <2>2, <2>7, <2>8
<1>4. ASSUME NEW k \in ends PROVE \E e \in b..L : Closes(text, b, e)
  <2>1. k \in b..L /\ k \in Nat /\ b <= k /\ Depth(text, b, k) = 0
    BY <1>0, <1>1
  <2>2. Depth(text, b, b) > 0 /\ b <= b /\ Depth(text, b, k) <= 0
    BY <1>0, <1>2, <2>1
  <2>3. PICK z \in b..k : /\ Depth(text, b, z) = 0
                          /\ \A i \in b..(z - 1) : Depth(text, b, i) > 0
    BY <1>0, <2>1, <2>2, DepthMeetsZero
  <2>4. z \in b..L /\ z \in Nat
    BY <2>1, <2>3
  <2> QED BY <1>0, <2>3, <2>4, ClosesIsDepth
<1> QED BY <1>3, <1>4 DEF ends

LEMMA NamedByOne ==
  ASSUME NEW text, NEW b \in Nat, NEW i \in NamedBy(text, b),
         NEW j \in NamedBy(text, b)
  PROVE  i = j
<1>1. /\ i \in Nat /\ j \in Nat /\ i < b /\ j < b
      /\ text[i] # NEWLINE /\ text[j] # NEWLINE
      /\ \A k \in (i + 1)..(b - 1) : text[k] = NEWLINE
      /\ \A k \in (j + 1)..(b - 1) : text[k] = NEWLINE
  BY DEF NamedBy, Identifier
<1>2. ~(j \in (i + 1)..(b - 1)) /\ ~(i \in (j + 1)..(b - 1))
  BY <1>1
<1> QED BY <1>1, <1>2

\* The word before a brace, if it is an identifier.
LEMMA NameIsBefore ==
  ASSUME NEW text, NEW b \in Nat
  PROVE  IdentifierBefore(text, b) = {text[i] : i \in NamedBy(text, b)}
<1> DEFINE before == {i \in 1..(b - 1) : text[i] # NEWLINE}
<1>1. IdentifierBefore(text, b) =
        IF before # {} /\ Identifier(text[Max(before)])
        THEN {text[Max(before)]} ELSE {}
  BY DEF IdentifierBefore
<1>2. ASSUME NEW k \in before
      PROVE  Max(before) \in before /\ \A m \in before : m <= Max(before)
  <2>1. before \in SUBSET Nat /\ \A n \in before : n <= b
    OBVIOUS
  <2> HIDE DEF before
  <2> QED BY <1>2, <2>1, GreatestNumber
<1>3. ASSUME NEW i \in NamedBy(text, b)
      PROVE  i \in before /\ i = Max(before) /\ Identifier(text[Max(before)])
  <2>1. /\ i \in 1..(b - 1) /\ i \in Nat /\ text[i] # NEWLINE
        /\ Identifier(text[i])
        /\ \A k \in (i + 1)..(b - 1) : text[k] = NEWLINE
    BY DEF NamedBy, Identifier
  <2>2. i \in before
    BY <2>1
  <2>3. Max(before) \in before /\ i <= Max(before)
    BY <1>2, <2>2
  <2> DEFINE top == Max(before)
  <2>4. top \in 1..(b - 1) /\ text[top] # NEWLINE /\ i <= top
    BY <2>3
  <2> HIDE DEF top
  <2>5. ~(top \in (i + 1)..(b - 1))
    BY <2>1, <2>4
  <2>6. i = top
    BY <2>1, <2>4, <2>5
  <2> QED BY <2>1, <2>2, <2>6 DEF top
<1>4. ASSUME before # {}, Identifier(text[Max(before)])
      PROVE  Max(before) \in NamedBy(text, b)
  <2> DEFINE top == Max(before)
  <2>1. top \in before /\ \A m \in before : m <= top
    BY <1>2, <1>4
  <2>2. top \in 1..(b - 1)
    BY <2>1
  <2>3. ASSUME NEW k \in (top + 1)..(b - 1) PROVE text[k] = NEWLINE
    <3> HIDE DEF top
    <3>1. k \in 1..(b - 1) /\ ~(k <= top)
      BY <2>2
    <3>2. k \notin before
      BY <2>1, <3>1
    <3> QED BY <3>1, <3>2
  <2> HIDE DEF top
  <2> QED BY <1>4, <2>2, <2>3 DEF NamedBy, top
<1> HIDE DEF before
<1>5. CASE before # {} /\ Identifier(text[Max(before)])
  <2>1. NamedBy(text, b) = {Max(before)}
    BY <1>3, <1>4, <1>5
  <2> QED BY <1>1, <1>5, <2>1
<1>6. CASE ~(before # {} /\ Identifier(text[Max(before)]))
  <2>1. NamedBy(text, b) = {}
    BY <1>3, <1>6
  <2> QED BY <1>1, <1>6, <2>1
<1> QED BY <1>5, <1>6

-----------------------------------------------------------------------------
\* what a named block says
Says(text, b) ==
    [can_be_rare |-> \A i \in Verdicts(text, b) :
        (\A j \in Verdicts(text, b) : j <= i) => text[i + 1] # FALSE_WORD]

\* the verdicts of a block of which the end is known
VerdictsTo(text, b, e) ==
    {i \in (b + 1)..(e - 2) :
        /\ i = b + 1 \/ text[i - 1] = NEWLINE
        /\ text[i] = CAN_BE_RARE
        /\ text[i + 1] \notin {COMMENT, NEWLINE}}

LEMMA VerdictsAre ==
  ASSUME NEW text, Len(text) \in Nat, NEW b \in 1..Len(text),
         NEW e \in b..Len(text), Closes(text, b, e)
  PROVE  Verdicts(text, b) = VerdictsTo(text, b, e)
<1> DEFINE end == CHOOSE f \in b..Len(text) : Closes(text, b, f)
<1>1. end \in b..Len(text) /\ Closes(text, b, end)
  BY Zenon
<1>2. Verdicts(text, b) = VerdictsTo(text, b, end)
  BY DEF Verdicts, VerdictsTo
<1> HIDE DEF end
<1>3. /\ b \in Nat /\ e \in Nat /\ end \in Nat /\ b <= e /\ b <= end
  BY <1>1
<1>4. end = e
  BY <1>1, <1>3, ClosesOnce
<1> QED BY <1>2, <1>4

\* What a block holds, word by word.
LEMMA BlockIsPart ==
  ASSUME NEW text \in Seq(Nat), NEW b \in 1..Len(text),
         NEW e \in (b + 1)..Len(text)
  PROVE  LET block == SubSeq(text, b + 1, e - 1) IN
         /\ block \in Seq(Nat) /\ Len(block) = e - 1 - b
         /\ DOMAIN block = 1..Len(block)
         /\ \A i \in 1..(e - 1 - b) : block[i] = text[b + i]
<1> DEFINE m == b + 1
           n == e - 1
           block == SubSeq(text, m, n)
<1>0. Len(text) \in Nat /\ b \in Nat /\ e \in Nat
  OBVIOUS
<1>1. m \in Int /\ n \in Int /\ \A i \in m..n : text[i] \in Nat
  <2>1. \A i \in m..n : i \in 1..Len(text)
    BY <1>0
  <2> QED BY <1>0, <2>1
<1>2. m <= n \/ e = b + 1
  BY <1>0
<1>3. n - m + 1 = e - 1 - b /\ \A i \in Int : m + i - 1 = b + i
  BY <1>0
<1>4. ~(m <= n) => e - 1 - b = 0
  BY <1>0
<1> HIDE DEF m, n
<1>5. /\ block \in Seq(Nat)
      /\ Len(block) = IF m <= n THEN n - m + 1 ELSE 0
      /\ \A i \in 1..(n - m + 1) : block[i] = text[m + i - 1]
  BY <1>1, SubSeqProperties
<1> HIDE DEF block
<1>6. DOMAIN block = 1..Len(block)
  BY <1>5
<1>7. Len(block) = e - 1 - b
  BY <1>3, <1>4, <1>5
<1>8. \A i \in 1..(e - 1 - b) : block[i] = text[b + i]
  <2>1. \A i \in 1..(e - 1 - b) : i \in Int
    BY <1>0
  <2> QED BY <1>3, <1>5, <2>1
<1> QED BY <1>5, <1>6, <1>7, <1>8 DEF block, m, n

\* ParseFurnitureBlock gives the last verdict.
LEMMA DefinitionSays ==
  ASSUME NEW text \in Seq(Nat), NEW b \in 1..Len(text), text[b] = OPEN,
         NEW e \in b..Len(text), Closes(text, b, e)
  PROVE  Definition(SubSeq(text, b + 1, e - 1)) = Says(text, b)
<1> DEFINE block == SubSeq(text, b + 1, e - 1)
           n == e - 1 - b
           lines == {i \in DOMAIN block :
                       /\ i = 1 \/ block[i - 1] = NEWLINE
                       /\ block[i] = CAN_BE_RARE
                       /\ i + 1 <= Len(block)
                       /\ block[i + 1] \notin {COMMENT, NEWLINE}}
           V == VerdictsTo(text, b, e)
<1>0. Len(text) \in Nat
  OBVIOUS
<1>1. e \in (b + 1)..Len(text)
  BY <1>0, BlockEndCloses
<1>2. Verdicts(text, b) = V
  BY <1>0, VerdictsAre
<1>3. /\ Len(block) = n /\ DOMAIN block = 1..n
      /\ \A i \in 1..n : block[i] = text[b + i]
  BY <1>1, BlockIsPart
<1>4. Definition(block) =
        [can_be_rare |-> lines = {} \/ block[Max(lines) + 1] # FALSE_WORD]
  BY DEF Definition
<1> HIDE DEF block
<1>5. b \in Nat /\ e \in Nat /\ n \in Nat /\ b + n = e - 1
  BY <1>0, <1>1
<1> HIDE DEF n
<1>6. ASSUME NEW i \in lines
      PROVE  i \in 1..n /\ b + i \in V /\ block[i + 1] = text[b + i + 1]
  <2>0. i \in 1..n /\ i + 1 <= n
    BY <1>3
  <2>1. /\ i \in 1..n /\ i + 1 \in 1..n
        /\ i = 1 \/ i - 1 \in 1..n
    <3> HIDE DEF lines
    <3> QED BY <1>5, <2>0
  <2>2. /\ block[i] = text[b + i] /\ block[i + 1] = text[b + (i + 1)]
        /\ i = 1 \/ block[i - 1] = text[b + (i - 1)]
    BY <1>3, <2>1
  <2>3. /\ i = 1 \/ block[i - 1] = NEWLINE
        /\ block[i] = CAN_BE_RARE /\ block[i + 1] \notin {COMMENT, NEWLINE}
    OBVIOUS
  <2>4. /\ b + (i + 1) = b + i + 1 /\ b + (i - 1) = (b + i) - 1
        /\ b + i \in (b + 1)..(e - 2)
    BY <1>5, <2>1
  <2>5. b + i = b + 1 \/ text[(b + i) - 1] = NEWLINE
    BY <2>2, <2>3, <2>4
  <2>6. text[b + i] = CAN_BE_RARE /\ text[b + i + 1] \notin {COMMENT, NEWLINE}
    BY <2>2, <2>3, <2>4
  <2>7. b + i \in V
    <3> HIDE DEF lines
    <3> QED BY <2>4, <2>5, <2>6 DEF VerdictsTo
  <2> QED BY <2>1, <2>2, <2>4, <2>7
<1>7. ASSUME NEW v \in V
      PROVE  v \in Nat /\ v - b \in lines
  <2>1. /\ v \in (b + 1)..(e - 2)
        /\ v = b + 1 \/ text[v - 1] = NEWLINE
        /\ text[v] = CAN_BE_RARE /\ text[v + 1] \notin {COMMENT, NEWLINE}
    BY DEF VerdictsTo
  <2> DEFINE i == v - b
  <2>2. /\ i \in 1..n /\ i + 1 \in 1..n /\ b + i = v
        /\ b + (i + 1) = v + 1
        /\ v = b + 1 => i = 1
        /\ v # b + 1 => i - 1 \in 1..n /\ b + (i - 1) = v - 1
        /\ i + 1 <= n
    BY <1>5, <2>1
  <2> HIDE DEF i
  <2>3. /\ block[i] = text[v] /\ block[i + 1] = text[v + 1]
        /\ v # b + 1 => block[i - 1] = text[v - 1]
    BY <1>3, <2>2
  <2>4. i \in lines
    BY <1>3, <2>1, <2>2, <2>3
  <2> QED BY <1>5, <2>1, <2>4 DEF i
<1>8. (lines = {} \/ block[Max(lines) + 1] # FALSE_WORD)
        = (\A i \in V : (\A j \in V : j <= i) => text[i + 1] # FALSE_WORD)
  <2> HIDE DEF lines, V
  <2>1. CASE lines = {}
    <3>1. V = {}
      BY <1>7, <2>1
    <3> QED BY <2>1, <3>1
  <2>2. CASE lines # {}
    <3>1. PICK k \in lines : TRUE
      BY <2>2
    <3>2. lines \in SUBSET Nat /\ \A i \in lines : i <= n
      <4>1. \A i \in lines : i \in Nat /\ i <= n
        BY <1>5, <1>6
      <4> QED BY <4>1
    <3>3. Max(lines) \in lines /\ \A m \in lines : m <= Max(lines)
      BY <1>5, <3>1, <3>2, GreatestNumber
    <3> DEFINE top == Max(lines)
               last == b + top
    <3>4. last \in V /\ block[top + 1] = text[last + 1] /\ top \in Nat
      BY <1>6, <3>2, <3>3
    <3> HIDE DEF top
    <3>5. \A j \in V : j <= last
      <4> SUFFICES ASSUME NEW j \in V PROVE j <= last
        OBVIOUS
      <4>1. j \in Nat /\ j - b \in lines
        BY <1>7
      <4>2. j - b <= top
        BY <3>3, <4>1 DEF top
      <4> QED BY <1>5, <3>4, <4>1, <4>2
    <3> HIDE DEF last
    <3>6. \A i \in V : (\A j \in V : j <= i) => i = last
      <4> SUFFICES ASSUME NEW i \in V, \A j \in V : j <= i PROVE i = last
        OBVIOUS
      <4>1. last <= i /\ i <= last
        BY <3>4, <3>5
      <4>2. i \in Nat /\ last \in Nat
        BY <1>7, <3>4
      <4> QED BY <4>1, <4>2
    <3>7. (\A i \in V : (\A j \in V : j <= i) => text[i + 1] # FALSE_WORD)
            <=> text[last + 1] # FALSE_WORD
      BY <3>4, <3>5, <3>6
    <3>8. (lines = {} \/ block[top + 1] # FALSE_WORD)
            <=> text[last + 1] # FALSE_WORD
      BY <2>2, <3>4
    <3> QED BY <3>7, <3>8 DEF top
  <2> QED BY <2>1, <2>2
<1> HIDE DEF lines, V
<1> QED BY <1>2, <1>4, <1>8 DEF block, Says

(***************************************************************************)
(* The loop over the blocks.  What it finds from a cursor on depends on    *)
(* the first brace: there is none, it has no name, or it has an end from   *)
(* which the loop goes on.                                                 *)
(***************************************************************************)
\* the furniture that is found from a cursor on
FurnituresFrom(text, c) ==
    {b \in NamedBraces(text) :
        /\ c <= b
        /\ ~\E outer \in NamedBraces(text) :
              /\ c <= outer /\ outer < b
              /\ \E e \in b..Len(text) : Closes(text, outer, e)}

Closed(text, b) == \E e \in b..Len(text) : Closes(text, b, e)

LEMMA NamedBraceIs ==
  ASSUME NEW text \in Seq(Nat), NEW b \in NamedBraces(text)
  PROVE  /\ b \in 1..Len(text) /\ b \in Nat /\ text[b] = OPEN
         /\ NamedBy(text, b) # {}
BY DEF NamedBraces

LEMMA FirstBrace ==
  ASSUME NEW text \in Seq(Nat), NEW c \in 1..(Len(text) + 1),
         Braces(text, c) # {}
  PROVE  LET b == Min(Braces(text, c)) IN
         /\ b \in 1..Len(text) /\ b \in Nat /\ c <= b /\ text[b] = OPEN
         /\ \A x \in NamedBraces(text) : c <= x => b <= x
<1> DEFINE b == Min(Braces(text, c))
<1>0. Len(text) \in Nat /\ c \in Nat
  OBVIOUS
<1>1. \A i \in Braces(text, c) :
         /\ i \in 1..Len(text) /\ i \in Nat /\ c <= i /\ text[i] = OPEN
  BY <1>0 DEF Braces
<1>2. PICK k \in Braces(text, c) : TRUE
  OBVIOUS
<1>3. b \in Braces(text, c) /\ \A i \in Braces(text, c) : b <= i
  <2>1. Braces(text, c) \in SUBSET Nat
    BY <1>1
  <2> QED BY <1>2, <2>1, MinIsLeast
<1>4. ASSUME NEW x \in NamedBraces(text), c <= x PROVE b <= x
  <2>1. x \in c..Len(text) /\ text[x] = OPEN
    BY <1>0, <1>4, NamedBraceIs
  <2> QED BY <1>3, <2>1 DEF Braces
<1> QED BY <1>1, <1>3, <1>4

LEMMA NoBraceNoFurniture ==
  ASSUME NEW text \in Seq(Nat), NEW c \in 1..(Len(text) + 1),
         Braces(text, c) = {}
  PROVE  FurnituresFrom(text, c) = {}
<1>1. ASSUME NEW b \in FurnituresFrom(text, c) PROVE FALSE
  <2>1. b \in NamedBraces(text) /\ c <= b
    BY DEF FurnituresFrom
  <2>2. b \in c..Len(text) /\ text[b] = OPEN
    BY <2>1, NamedBraceIs
  <2> QED BY <2>2 DEF Braces
<1> QED BY <1>1

\* A brace without a name is passed over.
LEMMA UnnamedIsSkipped ==
  ASSUME NEW text \in Seq(Nat), NEW c \in 1..(Len(text) + 1),
         Braces(text, c) # {}, NamedBy(text, Min(Braces(text, c))) = {}
  PROVE  FurnituresFrom(text, Min(Braces(text, c)) + 1)
           = FurnituresFrom(text, c)
<1> DEFINE b == Min(Braces(text, c))
<1>1. /\ b \in Nat /\ c <= b
      /\ \A x \in NamedBraces(text) : c <= x => b <= x
  BY FirstBrace
<1>2. b \notin NamedBraces(text)
  BY NamedBraceIs
<1> HIDE DEF b
<1>3. \A x \in NamedBraces(text) : c <= x <=> b + 1 <= x
  <2> SUFFICES ASSUME NEW x \in NamedBraces(text)
               PROVE  c <= x <=> b + 1 <= x
    OBVIOUS
  <2>1. x \in Nat /\ x # b /\ c \in Nat
    BY <1>2, NamedBraceIs
  <2> QED BY <1>1, <2>1
<1>4. FurnituresFrom(text, b + 1) = FurnituresFrom(text, c)
  BY <1>3 DEF FurnituresFrom
<1> QED BY <1>4 DEF b

LEMMA NamedIsFurniture ==
  ASSUME NEW text \in Seq(Nat), NEW c \in 1..(Len(text) + 1),
         Braces(text, c) # {}, NamedBy(text, Min(Braces(text, c))) # {}
  PROVE  Min(Braces(text, c)) \in FurnituresFrom(text, c)
<1> DEFINE b == Min(Braces(text, c))
<1>1. /\ b \in 1..Len(text) /\ b \in Nat /\ c <= b /\ text[b] = OPEN
      /\ \A x \in NamedBraces(text) : c <= x => b <= x
  BY FirstBrace
<1> HIDE DEF b
<1>2. b \in NamedBraces(text)
  BY <1>1 DEF NamedBraces, b
<1>3. ASSUME NEW outer \in NamedBraces(text), c <= outer, outer < b
      PROVE  FALSE
  <2>1. outer \in Nat /\ b <= outer
    BY <1>1, <1>3, NamedBraceIs
  <2> QED BY <1>1, <1>3, <2>1
<1>4. b \in FurnituresFrom(text, c)
  BY <1>1, <1>2, <1>3 DEF FurnituresFrom
<1> QED BY <1>4 DEF b

\* The furniture after the first one are those after its block.
LEMMA FurnitureAfterBlock ==
  ASSUME NEW text \in Seq(Nat), NEW c \in 1..(Len(text) + 1),
         Braces(text, c) # {}, NamedBy(text, Min(Braces(text, c))) # {},
         NEW e \in Nat, Min(Braces(text, c)) < e, e <= Len(text),
         Closes(text, Min(Braces(text, c)), e)
  PROVE  FurnituresFrom(text, c)
           = {Min(Braces(text, c))} \cup FurnituresFrom(text, e + 1)
<1> DEFINE b == Min(Braces(text, c))
           L == Len(text)
<1>0. L \in Nat /\ c \in Nat
  OBVIOUS
<1>1. /\ b \in 1..L /\ b \in Nat /\ c <= b /\ text[b] = OPEN
      /\ \A x \in NamedBraces(text) : c <= x => b <= x
  BY FirstBrace
<1>2. b \in FurnituresFrom(text, c)
  BY NamedIsFurniture
<1>3. b \in NamedBraces(text)
  BY <1>2 DEF FurnituresFrom
<1>4. Closes(text, b, e) /\ b < e /\ e <= L
  OBVIOUS
<1> HIDE DEF b, L
<1>5. ASSUME NEW x \in FurnituresFrom(text, c), x # b
      PROVE  x \in FurnituresFrom(text, e + 1)
  <2>1. /\ x \in NamedBraces(text) /\ c <= x
        /\ ~\E outer \in NamedBraces(text) :
              /\ c <= outer /\ outer < x
              /\ \E f \in x..L : Closes(text, outer, f)
    BY DEF FurnituresFrom, L
  <2>2. x \in Nat /\ b <= x /\ b < x
    BY <1>1, <1>5, <2>1, NamedBraceIs
  <2>3. ~(x <= e)
    <3>1. SUFFICES ASSUME x <= e PROVE FALSE
      OBVIOUS
    <3>2. e \in x..L
      BY <1>0, <1>4, <2>2, <3>1
    <3> QED BY <1>1, <1>3, <1>4, <2>1, <2>2, <3>2
  <2>4. e + 1 <= x
    BY <2>2, <2>3
  <2>5. ASSUME NEW outer \in NamedBraces(text), e + 1 <= outer
        PROVE  c <= outer
    <3>1. outer \in Nat
      BY NamedBraceIs
    <3> QED BY <1>0, <1>1, <1>4, <2>5, <3>1
  <2> QED BY <2>1, <2>4, <2>5 DEF FurnituresFrom, L
<1>6. ASSUME NEW x \in FurnituresFrom(text, e + 1)
      PROVE  x \in FurnituresFrom(text, c)
  <2>1. /\ x \in NamedBraces(text) /\ e + 1 <= x
        /\ ~\E outer \in NamedBraces(text) :
              /\ e + 1 <= outer /\ outer < x
              /\ \E f \in x..L : Closes(text, outer, f)
    BY DEF FurnituresFrom, L
  <2>2. x \in Nat /\ c <= x /\ e < x
    <3>1. x \in Nat
      BY <2>1, NamedBraceIs
    <3> QED BY <1>0, <1>1, <1>4, <2>1, <3>1
  <2>3. ASSUME NEW outer \in NamedBraces(text), c <= outer, outer < x,
               NEW f \in x..L, Closes(text, outer, f)
        PROVE  FALSE
    <3>1. /\ outer \in Nat /\ b <= outer /\ text[outer] = OPEN
          /\ f \in Nat /\ outer <= f /\ e < f
      <4>1. outer \in Nat /\ b <= outer /\ text[outer] = OPEN
        BY <1>1, <2>3, NamedBraceIs
      <4> QED BY <1>0, <2>2, <2>3, <4>1
    <3>2. ~(e + 1 <= outer)
      BY <2>1, <2>3
    <3>3. outer <= e
      BY <3>1, <3>2
    <3>4. CASE outer = b
      <4>1. b <= e /\ b <= f /\ Closes(text, b, f)
        BY <2>3, <3>1, <3>3, <3>4
      <4>2. e = f
        BY <1>1, <1>4, <3>1, <4>1, ClosesOnce
      <4> QED BY <3>1, <4>2
    <3>5. CASE outer # b
      <4>1. b < outer
        BY <1>1, <3>1, <3>5
      <4>2. PICK g \in outer..e : Closes(text, outer, g)
        BY <1>1, <1>4, <3>1, <3>3, <4>1, InnerCloses
      <4>3. g \in Nat /\ outer <= g /\ g <= e
        BY <3>1
      <4>4. g = f
        BY <2>3, <3>1, <4>2, <4>3, ClosesOnce
      <4> QED BY <3>1, <4>3, <4>4
    <3> QED BY <3>4, <3>5
  <2> QED BY <2>1, <2>2, <2>3 DEF FurnituresFrom, L
<1>7. FurnituresFrom(text, c) = {b} \cup FurnituresFrom(text, e + 1)
  BY <1>2, <1>5, <1>6
<1> QED BY <1>7 DEF b

\* the catalogue of a set of blocks: of each name the last block
NamesOf(text, S) == UNION {{text[i] : i \in NamedBy(text, b)} : b \in S}
BlocksNamed(text, S, id) == {b \in S : \E i \in NamedBy(text, b) : text[i] = id}
CatalogOf(text, S) ==
    [id \in NamesOf(text, S) |-> Says(text, Max(BlocksNamed(text, S, id)))]

LEMMA NamesAre ==
  ASSUME NEW text, NEW S, NEW id
  PROVE  id \in NamesOf(text, S) <=> BlocksNamed(text, S, id) # {}
BY DEF NamesOf, BlocksNamed

LEMMA CatalogOfNone ==
  ASSUME NEW text
  PROVE  CatalogOf(text, {}) = <<>>
<1>1. NamesOf(text, {}) = {}
  BY DEF NamesOf
<1> QED BY <1>1 DEF CatalogOf

\* An earlier block names its furniture unless a later one does.
LEMMA CatalogGrows ==
  ASSUME NEW text, NEW S \in SUBSET Nat, NEW K \in Nat,
         \A n \in S : n <= K,
         NEW b \in Nat, b <= K, \A n \in S : b < n
  PROVE  CatalogOf(text, {b} \cup S) =
           [id \in {text[i] : i \in NamedBy(text, b)}
                     \cup DOMAIN CatalogOf(text, S) |->
              IF id \in DOMAIN CatalogOf(text, S)
              THEN CatalogOf(text, S)[id] ELSE Says(text, b)]
<1> DEFINE here == {text[i] : i \in NamedBy(text, b)}
           all == {b} \cup S
<1>1. NamesOf(text, all) = here \cup NamesOf(text, S)
  BY DEF NamesOf
<1>2. DOMAIN CatalogOf(text, S) = NamesOf(text, S)
  BY DEF CatalogOf
<1>3. ASSUME NEW id \in NamesOf(text, all)
      PROVE  Says(text, Max(BlocksNamed(text, all, id))) =
               IF id \in NamesOf(text, S) THEN CatalogOf(text, S)[id]
               ELSE Says(text, b)
  <2>1. CASE id \in NamesOf(text, S)
    <3> DEFINE T == BlocksNamed(text, S, id)
               U == BlocksNamed(text, all, id)
    <3>1. T \subseteq U /\ U \subseteq T \cup {b} /\ T \subseteq S
      BY DEF BlocksNamed
    <3>2. PICK k \in T : TRUE
      BY <2>1, NamesAre
    <3>3. T \in SUBSET Nat /\ U \in SUBSET Nat
      BY <3>1
    <3>4. (\A n \in T : n <= K) /\ (\A n \in U : n <= K)
      BY <3>1
    <3> HIDE DEF T, U
    <3>5. Max(T) \in T /\ \A m \in T : m <= Max(T)
      BY <3>2, <3>3, <3>4, GreatestNumber
    <3>6. k \in U
      BY <3>1, <3>2
    <3>7. Max(U) \in U /\ \A m \in U : m <= Max(U)
      BY <3>3, <3>4, <3>6, GreatestNumber
    <3>8. k \in Nat /\ b < k /\ k <= Max(U) /\ Max(U) \in Nat
      BY <3>1, <3>2, <3>3, <3>6, <3>7
    <3>9. Max(U) \in T
      BY <3>1, <3>7, <3>8
    <3>10. Max(U) <= Max(T) /\ Max(T) <= Max(U) /\ Max(T) \in Nat
      BY <3>1, <3>3, <3>5, <3>7, <3>9
    <3>11. Max(U) = Max(T)
      BY <3>8, <3>10
    <3>12. CatalogOf(text, S)[id] = Says(text, Max(T))
      BY <2>1 DEF CatalogOf, T
    <3> QED BY <2>1, <3>11, <3>12 DEF U
  <2>2. CASE id \notin NamesOf(text, S)
    <3>1. BlocksNamed(text, S, id) = {} /\ BlocksNamed(text, all, id) # {}
      BY <1>3, <2>2, NamesAre
    <3>2. BlocksNamed(text, all, id) = {b}
      BY <3>1 DEF BlocksNamed
    <3> DEFINE U == BlocksNamed(text, all, id)
    <3>3. U \in SUBSET Nat /\ b \in U /\ \A n \in U : n <= K
      BY <3>2
    <3> HIDE DEF U
    <3>4. Max(U) \in U
      BY <3>3, GreatestNumber
    <3>5. Max(U) = b
      BY <3>2, <3>4 DEF U
    <3> QED BY <2>2, <3>5 DEF U
  <2> QED BY <2>1, <2>2
<1>4. CatalogOf(text, all) =
        [id \in NamesOf(text, all) |->
           Says(text, Max(BlocksNamed(text, all, id)))]
  BY DEF CatalogOf
<1> HIDE DEF all, here
<1>5. CatalogOf(text, all) =
        [id \in here \cup NamesOf(text, S) |->
           IF id \in NamesOf(text, S) THEN CatalogOf(text, S)[id]
           ELSE Says(text, b)]
  BY <1>1, <1>3, <1>4
<1> QED BY <1>2, <1>5 DEF all, here

\* what the loop gives from a cursor on
EachCloses(text, S) == \A b \in S : Closed(text, b)
Result(text, c) ==
    IF EachCloses(text, FurnituresFrom(text, c))
    THEN {CatalogOf(text, FurnituresFrom(text, c))} ELSE {}

\* one turn of ParseBlocks
BlocksFrom(text, g, c) ==
    IF Braces(text, c) = {} THEN {<<>>}
    ELSE IF IdentifierBefore(text, Min(Braces(text, c))) = {}
    THEN g[Min(Braces(text, c)) + 1]
    ELSE IF BlockEnds(text, Min(Braces(text, c))) = {} THEN {}
    ELSE {WithBlock(text, Min(Braces(text, c)), rest) :
            rest \in g[Min(BlockEnds(text, Min(Braces(text, c)))) + 1]}

LEMMA ResultWithoutBrace ==
  ASSUME NEW text \in Seq(Nat), NEW c \in 1..(Len(text) + 1),
         Braces(text, c) = {}
  PROVE  Result(text, c) = {<<>>}
BY NoBraceNoFurniture, CatalogOfNone DEF Result, EachCloses

LEMMA ResultAfterUnnamed ==
  ASSUME NEW text \in Seq(Nat), NEW c \in 1..(Len(text) + 1),
         Braces(text, c) # {},
         IdentifierBefore(text, Min(Braces(text, c))) = {}
  PROVE  Result(text, c) = Result(text, Min(Braces(text, c)) + 1)
<1>1. Min(Braces(text, c)) \in Nat
  BY FirstBrace
<1>2. \A b \in Nat : IdentifierBefore(text, b) = {} => NamedBy(text, b) = {}
  <2> SUFFICES ASSUME NEW b \in Nat, NEW i \in NamedBy(text, b)
               PROVE  IdentifierBefore(text, b) # {}
    OBVIOUS
  <2>1. text[i] \in {text[j] : j \in NamedBy(text, b)}
    OBVIOUS
  <2> QED BY <2>1, NameIsBefore
<1>3. NamedBy(text, Min(Braces(text, c))) = {}
  BY <1>1, <1>2
<1> QED BY <1>3, UnnamedIsSkipped DEF Result

LEMMA ResultWithoutEnd ==
  ASSUME NEW text \in Seq(Nat), NEW c \in 1..(Len(text) + 1),
         Braces(text, c) # {},
         IdentifierBefore(text, Min(Braces(text, c))) # {},
         BlockEnds(text, Min(Braces(text, c))) = {}
  PROVE  Result(text, c) = {}
<1> DEFINE b == Min(Braces(text, c))
<1>1. b \in Nat /\ b \in 1..Len(text) /\ text[b] = OPEN
  BY FirstBrace
<1>2. NamedBy(text, b) # {}
  BY <1>1, NameIsBefore
<1>3. b \in FurnituresFrom(text, c)
  BY <1>2, NamedIsFurniture
<1>4. ~Closed(text, b)
  <2>1. Len(text) \in Nat /\ BlockEnds(text, b) = {}
    OBVIOUS
  <2> HIDE DEF b
  <2> QED BY <1>1, <2>1, BlockEndCloses DEF Closed
<1> QED BY <1>3, <1>4 DEF Result, EachCloses

LEMMA ResultWithEnd ==
  ASSUME NEW text \in Seq(Nat), NEW c \in 1..(Len(text) + 1),
         Braces(text, c) # {},
         IdentifierBefore(text, Min(Braces(text, c))) # {},
         BlockEnds(text, Min(Braces(text, c))) # {}
  PROVE  LET e == Min(BlockEnds(text, Min(Braces(text, c)))) IN
         /\ e \in Nat /\ Min(Braces(text, c)) < e /\ e <= Len(text)
         /\ Result(text, c) =
              {WithBlock(text, Min(Braces(text, c)), rest) :
                 rest \in Result(text, e + 1)}
<1> DEFINE b == Min(Braces(text, c))
           e == Min(BlockEnds(text, b))
           L == Len(text)
<1>0. L \in Nat
  OBVIOUS
<1>1. b \in Nat /\ b \in 1..L /\ text[b] = OPEN
  BY FirstBrace
<1>2. NamedBy(text, b) # {}
  BY <1>1, NameIsBefore
<1>3. e \in (b + 1)..L /\ Closes(text, b, e)
  <2>1. BlockEnds(text, b) # {}
    OBVIOUS
  <2> HIDE DEF b
  <2>2. PICK f \in b..L : Closes(text, b, f)
    BY <1>0, <1>1, <2>1, BlockEndCloses
  <2> QED BY <1>0, <1>1, <2>2, BlockEndCloses
<1>4. e \in Nat /\ b < e /\ e <= L
  <2> HIDE DEF b, e, L
  <2> QED BY <1>0, <1>1, <1>3
<1> DEFINE S == FurnituresFrom(text, e + 1)
<1>5. FurnituresFrom(text, c) = {b} \cup S
  <2> HIDE DEF e
  <2> QED BY <1>2, <1>3, <1>4, FurnitureAfterBlock
<1>6. \A n \in S : n \in Nat /\ n <= L /\ b < n
  <2> SUFFICES ASSUME NEW n \in S PROVE n \in Nat /\ n <= L /\ b < n
    OBVIOUS
  <2>1. n \in NamedBraces(text) /\ e + 1 <= n
    BY DEF FurnituresFrom
  <2>2. n \in Nat /\ n <= L
    BY <1>0, <2>1, NamedBraceIs
  <2> HIDE DEF b, e, L
  <2> QED BY <1>1, <1>4, <2>1, <2>2
<1>7. Closed(text, b)
  <2> HIDE DEF b, e
  <2>1. e \in b..L
    BY <1>0, <1>1, <1>4
  <2> QED BY <1>3, <2>1 DEF Closed
<1>8. Definition(SubSeq(text, b + 1, e - 1)) = Says(text, b)
  <2> HIDE DEF b, e
  <2>1. e \in b..Len(text)
    BY <1>0, <1>1, <1>4
  <2> QED BY <1>1, <1>3, <2>1, DefinitionSays
<1>9. CatalogOf(text, {b} \cup S) = WithBlock(text, b, CatalogOf(text, S))
  <2>1. S \in SUBSET Nat /\ \A n \in S : n <= L /\ b < n
    BY <1>6
  <2>2. b <= L
    <3> HIDE DEF b, L
    <3> QED BY <1>0, <1>1
  <2>3. IdentifierBefore(text, b) = {text[i] : i \in NamedBy(text, b)}
    BY <1>1, NameIsBefore
  <2> HIDE DEF S, L
  <2>4. CatalogOf(text, {b} \cup S) =
          [id \in IdentifierBefore(text, b) \cup DOMAIN CatalogOf(text, S) |->
             IF id \in DOMAIN CatalogOf(text, S)
             THEN CatalogOf(text, S)[id]
             ELSE Definition(SubSeq(text, b + 1, e - 1))]
    <3> HIDE DEF b, e
    <3>1. CatalogOf(text, {b} \cup S) =
            [id \in {text[i] : i \in NamedBy(text, b)}
                      \cup DOMAIN CatalogOf(text, S) |->
               IF id \in DOMAIN CatalogOf(text, S)
               THEN CatalogOf(text, S)[id] ELSE Says(text, b)]
      BY <1>0, <1>1, <2>1, <2>2, CatalogGrows
    <3> QED BY <1>8, <2>3, <3>1, Zenon
  <2> QED BY <2>4 DEF WithBlock
<1>10. EachCloses(text, {b} \cup S) <=> EachCloses(text, S)
  BY <1>7 DEF EachCloses
<1> HIDE DEF S, b, e
<1>11. Result(text, c) =
         {WithBlock(text, b, rest) : rest \in Result(text, e + 1)}
  <2>1. CASE EachCloses(text, S)
    <3>1. Result(text, e + 1) = {CatalogOf(text, S)}
      BY <2>1 DEF Result, S
    <3>2. Result(text, c) = {CatalogOf(text, {b} \cup S)}
      BY <1>5, <1>10, <2>1 DEF Result
    <3> QED BY <1>9, <3>1, <3>2
  <2>2. CASE ~EachCloses(text, S)
    <3>1. Result(text, e + 1) = {}
      BY <2>2 DEF Result, S
    <3>2. Result(text, c) = {}
      BY <1>5, <1>10, <2>2 DEF Result
    <3> QED BY <3>1, <3>2
  <2> QED BY <2>1, <2>2
<1> QED BY <1>4, <1>11 DEF b, e, L

\* The loop as a whole, by induction on the words that are left.
LEMMA BlocksAre ==
  ASSUME NEW text \in Seq(Nat)
  PROVE  ParseBlocks(text) = Result(text, 1)
<1> DEFINE S == 1..(Len(text) + 1)
           blocks == CHOOSE g : g = [c \in S |-> BlocksFrom(text, g, c)]
           f == [c \in S |-> Result(text, c)]
           rank == [c \in S |-> Len(text) + 1 - c]
           T == {c \in S : blocks[c] = f[c]}
<1>0. Len(text) \in Nat /\ \A c \in S : c \in Nat
  OBVIOUS
<1>1. ParseBlocks(text) = blocks[1]
  BY DEF ParseBlocks, BlocksFrom
<1>2. ASSUME NEW c \in S, NEW g,
             \A d \in S : c < d => g[d] = Result(text, d)
      PROVE  BlocksFrom(text, g, c) = Result(text, c)
  <2> DEFINE b == Min(Braces(text, c))
             ends == BlockEnds(text, b)
  <2>1. CASE Braces(text, c) = {}
    <3>1. BlocksFrom(text, g, c) = {<<>>}
      BY <2>1 DEF BlocksFrom
    <3> QED BY <2>1, <3>1, ResultWithoutBrace
  <2>2. CASE Braces(text, c) # {} /\ IdentifierBefore(text, b) = {}
    <3>1. b \in Nat /\ b \in 1..Len(text) /\ c <= b
      BY <2>2, FirstBrace
    <3>2. b + 1 \in S /\ c < b + 1
      <4> HIDE DEF b
      <4> QED BY <1>0, <3>1
    <3>3. BlocksFrom(text, g, c) = g[b + 1]
      BY <2>2 DEF BlocksFrom
    <3> QED BY <1>2, <2>2, <3>2, <3>3, ResultAfterUnnamed
  <2>3. CASE /\ Braces(text, c) # {} /\ IdentifierBefore(text, b) # {}
             /\ ends = {}
    <3>1. BlocksFrom(text, g, c) = {}
      BY <2>3 DEF BlocksFrom
    <3> QED BY <2>3, <3>1, ResultWithoutEnd
  <2>4. CASE /\ Braces(text, c) # {} /\ IdentifierBefore(text, b) # {}
             /\ ends # {}
    <3> DEFINE e == Min(ends)
    <3>1. /\ e \in Nat /\ b < e /\ e <= Len(text)
          /\ Result(text, c) =
               {WithBlock(text, Min(Braces(text, c)), rest) :
                 rest \in Result(text, e + 1)}
      BY <2>4, ResultWithEnd
    <3>2. BlocksFrom(text, g, c) =
            {WithBlock(text, Min(Braces(text, c)), rest) : rest \in g[e + 1]}
      BY <2>4 DEF BlocksFrom
    <3>3. b \in Nat /\ c <= b
      BY <2>4, FirstBrace
    <3>4. e + 1 \in S /\ c < e + 1
      <4> HIDE DEF b, e
      <4> QED BY <1>0, <3>1, <3>3
    <3> HIDE DEF e
    <3> QED BY <1>2, <3>1, <3>2, <3>4
  <2> QED BY <2>1, <2>2, <2>3, <2>4
<1>3. \A c \in S : BlocksFrom(text, f, c) = Result(text, c)
  <2>1. \A d \in S : f[d] = Result(text, d)
    OBVIOUS
  <2> HIDE DEF S, f
  <2> QED BY <1>2, <2>1
<1>4. f = [c \in S |-> BlocksFrom(text, f, c)]
  BY <1>3
<1>5. blocks = [c \in S |-> BlocksFrom(text, blocks, c)]
  <2> HIDE DEF f, S
  <2> QED BY <1>4, Zenon
<1>6. \A c \in S : blocks[c] = BlocksFrom(text, blocks, c)
  <2> HIDE DEF S, blocks
  <2> QED BY <1>5
<1>7. ASSUME NEW c \in S, \A d \in S : rank[d] < rank[c] => d \in T
      PROVE  c \in T
  <2>1. ASSUME NEW d \in S, c < d PROVE blocks[d] = Result(text, d)
    <3>1. rank[d] < rank[c]
      <4> HIDE DEF blocks
      <4> QED BY <1>0, <2>1
    <3>2. d \in T
      <4> HIDE DEF T, rank
      <4> QED BY <1>7, <3>1
    <3> HIDE DEF blocks
    <3> QED BY <3>2
  <2> HIDE DEF blocks, S
  <2>2. blocks[c] = Result(text, c)
    BY <1>2, <1>6, <2>1
  <2> QED BY <2>2
<1>8. S \subseteq T
  <2>1. rank \in [S -> Nat]
    BY <1>0
  <2> HIDE DEF S, T, rank
  <2> QED BY <1>7, <2>1, RankInduction
<1>9. 1 \in S
  BY <1>0
<1> HIDE DEF blocks, S
<1> QED BY <1>1, <1>8, <1>9

-----------------------------------------------------------------------------
(***************************************************************************)
(* Before the archive is read there is no catalogue; afterwards it is      *)
(* empty exactly if reading it failed.                                     *)
(***************************************************************************)
EmptyMeansFailed ==
    /\ attempted \in BOOLEAN
    /\ ~attempted => catalog = <<>>
    /\ attempted => answer = (catalog # <<>>)

\* loading either fails and leaves the catalogue, or fills it
LEMMA LoadingIsAllOrNothing ==
  ASSUME NEW a
  PROVE  LET loaded == LoadFurnitureCatalog(a)
         IN  /\ loaded.ok \in BOOLEAN
             /\ loaded.ok => loaded.catalog # <<>>
             /\ ~loaded.ok => loaded.catalog = catalog
<1> DEFINE files == {f \in ReadTargets(a) : f["guide"] # <<>>}
           parsed == (UNION {Parsed(f) : f \in files}) \ {<<>>}
<1>1. LoadFurnitureCatalog(a) =
        [ok |-> parsed # {},
         catalog |-> IF parsed # {} THEN CHOOSE c \in parsed : TRUE
                     ELSE catalog]
  BY DEF LoadFurnitureCatalog
<1>2. <<>> \notin parsed
  OBVIOUS
<1>3. ASSUME parsed # {} PROVE (CHOOSE c \in parsed : TRUE) \in parsed
  <2> HIDE DEF parsed
  <2>1. PICK c : c \in parsed
    BY <1>3
  <2> QED BY <2>1, Zenon
<1> HIDE DEF parsed
<1>4. CASE parsed = {}
  <2>1. LoadFurnitureCatalog(a) = [ok |-> FALSE, catalog |-> catalog]
    BY <1>1, <1>4
  <2> QED BY <2>1
<1>5. CASE parsed # {}
  <2>1. LoadFurnitureCatalog(a) =
          [ok |-> TRUE, catalog |-> CHOOSE c \in parsed : TRUE]
    BY <1>1, <1>5
  <2> DEFINE first == CHOOSE c \in parsed : TRUE
  <2>2. first # <<>>
    BY <1>2, <1>3, <1>5
  <2> HIDE DEF first
  <2> QED BY <2>1, <2>2 DEF first
<1> QED BY <1>4, <1>5

LEMMA InitIsEmpty == Init => EmptyMeansFailed
  BY DEF Init, EmptyMeansFailed

LEMMA StepKeepsVerdict ==
  EmptyMeansFailed /\ [Next]_vars => EmptyMeansFailed'
<1> SUFFICES ASSUME EmptyMeansFailed, [Next]_vars PROVE EmptyMeansFailed'
  OBVIOUS
<1>1. CASE EnsureCatalogFirst
  <2>1. answer' = (catalog' # <<>>)
    BY <1>1, LoadingIsAllOrNothing DEF EnsureCatalogFirst, EmptyMeansFailed
  <2> QED BY <1>1, <2>1 DEF EnsureCatalogFirst, EmptyMeansFailed
<1>2. CASE EnsureCatalogAgain
  BY <1>2 DEF EnsureCatalogAgain, EmptyMeansFailed
<1>3. CASE UNCHANGED vars
  BY <1>3 DEF vars, EmptyMeansFailed
<1> QED BY <1>1, <1>2, <1>3 DEF Next

(***************************************************************************)
(* Whatever the archive, every request is answered as the first one was.   *)
(***************************************************************************)
THEOREM AnswersAlwaysAgree == Spec => AnswersAgree
<1>1. EmptyMeansFailed /\ [Next]_vars => [attempted => answer' = answer]_vars
  BY DEF Next, EnsureCatalogFirst, EnsureCatalogAgain, EmptyMeansFailed
<1> QED
  BY <1>1, InitIsEmpty, StepKeepsVerdict, PTL DEF Spec, AnswersAgree

-----------------------------------------------------------------------------
\* The furniture from the first word on are all of them.
LEMMA FromTheStart ==
  ASSUME NEW text \in Seq(Nat)
  PROVE  FurnituresFrom(text, 1) = Furnitures(text)
<1>1. \A b \in NamedBraces(text) : 1 <= b
  <2>1. \A b \in 1..Len(text) : 1 <= b
    OBVIOUS
  <2> QED BY <2>1, NamedBraceIs
<1> QED BY <1>1 DEF FurnituresFrom, Furnitures

\* A text is complete if its furniture are.
LEMMA CompleteIfFurniture ==
  ASSUME NEW text \in Seq(Nat)
  PROVE  EachCloses(text, Furnitures(text)) <=> Complete(text)
<1>1. Complete(text) <=> \A b \in NamedBraces(text) : Closed(text, b)
  BY DEF Complete, Closed
<1>2. ASSUME EachCloses(text, Furnitures(text)), NEW b \in NamedBraces(text)
      PROVE  Closed(text, b)
  <2>1. CASE b \in Furnitures(text)
    BY <1>2, <2>1 DEF EachCloses
  <2>2. CASE b \notin Furnitures(text)
    <3>1. PICK outer \in NamedBraces(text) :
             outer < b /\ \E e \in b..Len(text) : Closes(text, outer, e)
      BY <2>2 DEF Furnitures
    <3>2. PICK e \in b..Len(text) : Closes(text, outer, e)
      BY <3>1
    <3>3. /\ outer \in Nat /\ b \in Nat /\ text[b] = OPEN
          /\ e \in Nat /\ b <= e /\ e <= Len(text)
      <4>1. outer \in Nat /\ b \in Nat /\ text[b] = OPEN
        BY NamedBraceIs
      <4> QED BY <4>1
    <3>4. PICK f \in b..e : Closes(text, b, f)
      BY <3>1, <3>2, <3>3, InnerCloses
    <3>5. f \in b..Len(text)
      BY <3>3
    <3> QED BY <3>4, <3>5 DEF Closed
  <2> QED BY <2>1, <2>2
<1>3. ASSUME Complete(text) PROVE EachCloses(text, Furnitures(text))
  BY <1>1, <1>3 DEF EachCloses, Furnitures
<1> QED BY <1>1, <1>2, <1>3

Described(text) == [id \in Identifiers(text) |-> Meaning(text, id)]

LEMMA DescribedIs ==
  ASSUME NEW text
  PROVE  CatalogOf(text, Furnitures(text)) = Described(text)
BY DEF CatalogOf, NamesOf, BlocksNamed, Says, Described, Identifiers, Meaning

(***************************************************************************)
(* ParseFurnitureEffects: what is parsed of a text is what it means,       *)
(* whatever is nested, repeated or unfinished in it.                       *)
(* (catalog.cpp:136-212)                                                   *)
(***************************************************************************)
THEOREM EffectsAreDescribed ==
  ASSUME NEW text \in Seq(Nat)
  PROVE  ParseFurnitureEffects(text) =
           IF Complete(text) THEN {Described(text)} \ {<<>>} ELSE {}
<1>1. ParseBlocks(text) = Result(text, 1)
  BY BlocksAre
<1>2. Result(text, 1) =
        IF Complete(text) THEN {Described(text)} ELSE {}
  BY FromTheStart, CompleteIfFurniture, DescribedIs DEF Result
<1> QED BY <1>1, <1>2 DEF ParseFurnitureEffects

LEMMA DescribedHasType ==
  ASSUME NEW text
  PROVE  \A id \in Identifiers(text) :
            Identifier(id) /\ Meaning(text, id) \in [can_be_rare : BOOLEAN]
<1> SUFFICES ASSUME NEW id \in Identifiers(text)
    PROVE  Identifier(id) /\ Meaning(text, id) \in [can_be_rare : BOOLEAN]
  OBVIOUS
<1>1. Identifier(id)
  BY DEF Identifiers, NamedBy
<1>2. Meaning(text, id) \in [can_be_rare : BOOLEAN]
  BY DEF Meaning
<1> QED BY <1>1, <1>2

LEMMA WrittenIsText ==
  ASSUME Stored, Intact, NEW t \in Targets
  PROVE  Written(t) \in Seq(Nat)
<1>1. Holders(t) # {}
  BY DEF Intact
<1>2. /\ Len(written) \in Nat /\ DOMAIN written = 1..Len(written)
      /\ \A n \in 1..Len(written) : written[n].content \in Seq(Nat)
  BY FileOfFiles DEF Stored
<1>3. Holders(t) \in SUBSET Nat /\ Holders(t) \subseteq DOMAIN written
  BY <1>2 DEF Holders
<1>4. Min(Holders(t)) \in Holders(t)
  <2>1. PICK k \in Holders(t) : TRUE
    BY <1>1
  <2> QED BY <1>3, <2>1, MinIsLeast
<1> QED BY <1>2, <1>3, <1>4 DEF Written

\* what an archive describes and also lists
Catalogued(text, ids) ==
    [id \in {i \in DOMAIN Described(text) : <<i>> \in ids} |->
        Described(text)[id]]

\* The files, the blocks and the list together are what the archive means.
LEMMA LoadedIsMeant ==
  ASSUME Stored, catalog = <<>>
  PROVE  LoadFurnitureCatalog(archive).catalog = Meant
<1> DEFINE text == Written("effects")
           bytes == Written("info")
           read == [t \in Targets |-> Written(t)]
           files == {f \in ReadTargets(archive) : f["guide"] # <<>>}
           parsed == (UNION {Parsed(f) : f \in files}) \ {<<>>}
           usable == Intact /\ Written("guide") # <<>>
<1>1. LoadFurnitureCatalog(archive).catalog =
        IF parsed # {} THEN CHOOSE c \in parsed : TRUE ELSE <<>>
  BY DEF LoadFurnitureCatalog
<1>2. files = IF usable THEN {read} ELSE {}
  <2>1. read["guide"] = Written("guide")
    BY DEF Targets
  <2>2. ReadTargets(archive) = IF Intact THEN {read} ELSE {}
    BY FilesAreRead
  <2> HIDE DEF read
  <2> QED BY <2>1, <2>2
<1>3. read["effects"] = text /\ read["info"] = bytes
  BY DEF Targets
<1>4. Meant = IF usable /\ Complete(text)
              THEN [id \in {i \in Identifiers(text) :
                              \E ids \in Listed(bytes) : <<i>> \in ids} |->
                      Meaning(text, id)]
              ELSE <<>>
  BY DEF Meant
<1>5. CASE ~usable
  <2>1. parsed = {}
    <3> HIDE DEF usable, read
    <3> QED BY <1>2, <1>5
  <2> HIDE DEF parsed, usable
  <2> QED BY <1>1, <1>4, <1>5, <2>1
<1>6. CASE usable
  <2>1. text \in Seq(Nat) /\ bytes \in Seq(Nat)
    <3>1. "effects" \in Targets /\ "info" \in Targets
      BY DEF Targets
    <3> QED BY <1>6, <3>1, WrittenIsText
  <2> HIDE DEF read, text, bytes, usable
  <2>2. parsed = Parsed(read) \ {<<>>}
    BY <1>2, <1>6
  <2>3. Parsed(read) =
          {[id \in {i \in DOMAIN definitions : <<i>> \in ids} |->
               definitions[id]] :
             definitions \in ParseFurnitureEffects(text),
             ids \in ParseFurnitureInfo(bytes)}
    BY <1>3 DEF Parsed
  <2> HIDE DEF parsed, files
  <2>4. ParseFurnitureEffects(text) =
          IF Complete(text) THEN {Described(text)} \ {<<>>} ELSE {}
    BY <2>1, EffectsAreDescribed
  <2>5. DOMAIN Described(text) = Identifiers(text)
    BY DEF Described
  <2>6. CASE ~Complete(text)
    <3>1. Parsed(read) = {}
      BY <2>3, <2>4, <2>6
    <3>2. parsed = {}
      BY <2>2, <3>1
    <3> QED BY <1>1, <1>4, <2>6, <3>2
  <2>7. CASE Complete(text) /\ Listed(bytes) = {}
    <3>1. ParseFurnitureInfo(bytes) = {}
      BY <2>1, <2>7, ListIsRead
    <3>2. Parsed(read) = {}
      BY <2>3, <3>1
    <3>3. parsed = {}
      BY <2>2, <3>2
    <3>4. {i \in Identifiers(text) :
             \E ids \in Listed(bytes) : <<i>> \in ids} = {}
      BY <2>7
    <3>5. Meant = <<>>
      BY <1>4, <3>4
    <3> QED BY <1>1, <3>3, <3>5
  <2>8. CASE Complete(text) /\ Described(text) = <<>>
    <3>1. ParseFurnitureEffects(text) = {}
      BY <2>4, <2>8
    <3>2. Parsed(read) = {}
      BY <2>3, <3>1
    <3>3. parsed = {}
      BY <2>2, <3>2
    <3>4. Identifiers(text) = {}
      BY <2>5, <2>8
    <3>5. {i \in Identifiers(text) :
             \E ids \in Listed(bytes) : <<i>> \in ids} = {}
      BY <3>4
    <3>6. Meant = <<>>
      BY <1>4, <3>5
    <3> QED BY <1>1, <3>3, <3>6
  <2>9. CASE /\ Complete(text) /\ Listed(bytes) # {}
             /\ Described(text) # <<>>
    <3>1. PICK ids \in Listed(bytes) : TRUE
      BY <2>9
    <3>2. ParseFurnitureInfo(bytes) = {ids}
      BY <2>1, <3>1, ListedIsParsed
    <3>3. Listed(bytes) = {ids}
      BY <2>1, <3>2, ListIsRead
    <3>4. Parsed(read) = {Catalogued(text, ids)}
      <4> DEFINE Chosen(d, n) ==
                   [id \in {i \in DOMAIN d : <<i>> \in n} |-> d[id]]
      <4>1. ParseFurnitureEffects(text) = {Described(text)}
        BY <2>4, <2>9
      <4>2. Parsed(read) =
              {Chosen(d, n) : d \in ParseFurnitureEffects(text),
                              n \in ParseFurnitureInfo(bytes)}
        BY <2>3
      <4>3. Catalogued(text, ids) = Chosen(Described(text), ids)
        BY DEF Catalogued
      <4> HIDE DEF Chosen
      <4> QED BY <3>2, <4>1, <4>2, <4>3
    <3>5. Meant = Catalogued(text, ids)
      <4>1. {i \in Identifiers(text) :
               \E some \in Listed(bytes) : <<i>> \in some}
              = {i \in Identifiers(text) : <<i>> \in ids}
        BY <3>3
      <4> DEFINE X == {i \in Identifiers(text) : <<i>> \in ids}
      <4>2. \A id \in X : Described(text)[id] = Meaning(text, id)
        BY DEF Described
      <4>3. Catalogued(text, ids) = [id \in X |-> Described(text)[id]]
        BY <2>5 DEF Catalogued
      <4>4. Meant = [id \in X |-> Meaning(text, id)]
        BY <1>4, <1>6, <2>9, <4>1
      <4> HIDE DEF X
      <4> QED BY <4>2, <4>3, <4>4
    <3>6. parsed = {Meant} \ {<<>>}
      BY <2>2, <3>4, <3>5
    <3>7. CASE Meant = <<>>
      <4>1. parsed = {}
        BY <3>6, <3>7
      <4> QED BY <1>1, <3>7, <4>1
    <3>8. CASE Meant # <<>>
      <4>1. parsed = {Meant}
        BY <3>6, <3>8
      <4>2. (CHOOSE c \in parsed : TRUE) = Meant
        BY <4>1
      <4> QED BY <1>1, <4>1, <4>2
    <3> QED BY <3>7, <3>8
  <2> QED BY <2>6, <2>7, <2>8, <2>9
<1> QED BY <1>5, <1>6

(***************************************************************************)
(* The archive is one that could be written, and the catalogue is empty    *)
(* until it is read and what it means from then on.                        *)
(***************************************************************************)
ReadOnce ==
    /\ Stored
    /\ attempted \in BOOLEAN /\ answer \in BOOLEAN
    /\ catalog = IF attempted THEN Meant ELSE <<>>

LEMMA ReadOnceInitially == Init => ReadOnce
<1> SUFFICES ASSUME Init PROVE ReadOnce
  OBVIOUS
<1>1. PICK w \in Writings :
         written = w.files /\ archive = Archive(w.files, w.cut)
  BY DEF Init
<1>2. w.files \in Files /\ w.cut \in Nat
  BY CatalogueAssumption DEF Files, StoredFile
<1> QED BY <1>1, <1>2 DEF Init, ReadOnce, Stored

LEMMA ReadOnceIsKept == ReadOnce /\ [Next]_vars => ReadOnce'
<1> SUFFICES ASSUME ReadOnce, [Next]_vars PROVE ReadOnce'
  OBVIOUS
<1>1. UNCHANGED <<archive, written>>
  BY DEF Next, EnsureCatalogFirst, EnsureCatalogAgain, vars
<1>2. Stored'
  BY <1>1 DEF ReadOnce, Stored
<1>3. Meant' = Meant
  BY <1>1 DEF Meant, Intact, Survives, Holders, Written
<1>4. CASE EnsureCatalogFirst
  <2>1. catalog' = Meant
    BY <1>4, LoadedIsMeant DEF EnsureCatalogFirst, ReadOnce
  <2>2. answer' \in BOOLEAN
    BY <1>4, LoadingIsAllOrNothing DEF EnsureCatalogFirst
  <2> QED BY <1>2, <1>3, <1>4, <2>1, <2>2 DEF EnsureCatalogFirst, ReadOnce
<1>5. CASE EnsureCatalogAgain
  BY <1>2, <1>3, <1>5 DEF EnsureCatalogAgain, ReadOnce
<1>6. CASE UNCHANGED vars
  BY <1>2, <1>3, <1>6 DEF vars, ReadOnce
<1> QED BY <1>4, <1>5, <1>6 DEF Next

LEMMA MeantIsMeaning ==
  \A id \in DOMAIN Meant :
     /\ id \in Identifiers(Written("effects"))
     /\ Meant[id] = Meaning(Written("effects"), id)
BY DEF Meant

(***************************************************************************)
(* Every variable has its type: only identifiers are catalogued.           *)
(***************************************************************************)
THEOREM CatalogueTypesHold == Spec => []TypeOK
<1>1. ReadOnce => TypeOK
  <2> SUFFICES ASSUME ReadOnce PROVE TypeOK
    OBVIOUS
  <2>1. ASSUME NEW id \in DOMAIN catalog
        PROVE  Identifier(id) /\ catalog[id] \in [can_be_rare : BOOLEAN]
    <3>1. CASE attempted
      <4>1. catalog = Meant
        BY <3>1 DEF ReadOnce
      <4>2. /\ id \in Identifiers(Written("effects"))
            /\ catalog[id] = Meaning(Written("effects"), id)
        BY <2>1, <4>1, MeantIsMeaning
      <4> QED BY <4>2, DescribedHasType
    <3>2. CASE ~attempted
      BY <2>1, <3>2 DEF ReadOnce
    <3> QED BY <3>1, <3>2
  <2> QED BY <2>1 DEF ReadOnce, TypeOK
<1> QED BY <1>1, ReadOnceInitially, ReadOnceIsKept, PTL DEF Spec

(***************************************************************************)
(* Nothing is taken for a furniture, or may become rare, that the files of *)
(* the archive do not say.  (LoadFurnitureCatalog)                         *)
(***************************************************************************)
THEOREM CatalogIsAlwaysAsWritten == Spec => []CatalogIsAsWritten
<1>1. ReadOnce => CatalogIsAsWritten
  BY DEF ReadOnce, CatalogIsAsWritten
<1> QED BY <1>1, ReadOnceInitially, ReadOnceIsKept, PTL DEF Spec

(***************************************************************************)
(* Nothing that an archive says is left out.  (LoadFurnitureCatalog)       *)
(***************************************************************************)
THEOREM WrittenIsAlwaysRead == Spec => []WrittenIsRead
<1>1. ReadOnce => WrittenIsRead
  BY DEF ReadOnce, WrittenIsRead
<1> QED BY <1>1, ReadOnceInitially, ReadOnceIsKept, PTL DEF Spec
=============================================================================
