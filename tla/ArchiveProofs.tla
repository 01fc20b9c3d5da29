--------------------------- MODULE ArchiveProofs ----------------------------
(***************************************************************************)
(* What is read of the archive, for every archive and every limit: the     *)
(* files that were written, unless too much of the end is lost, and the list *)
(* of furniture.  Both loops are shown correct by induction.               *)
(***************************************************************************)
EXTENDS CatalogueMeaning, FiniteSetTheorems, SequenceTheorems, TLAPS

(***************************************************************************)
(* Induction.  Of as many different positions as there are elements one is *)
(* 0, so that a set of numbers has a least element; every other induction  *)
(* is an appeal to the least counterexample.                               *)
(***************************************************************************)
Below(S, x) == {y \in S : y < x}

LEMMA BelowIsPosition ==
  ASSUME NEW S \in SUBSET Nat, IsFiniteSet(S), NEW x \in S
  PROVE  /\ IsFiniteSet(Below(S, x))
         /\ Cardinality(Below(S, x)) \in 0..(Cardinality(S) - 1)
<1>1. Below(S, x) \subseteq S \ {x}
  BY DEF Below
<1>2. IsFiniteSet(S \ {x}) /\ Cardinality(S \ {x}) = Cardinality(S) - 1
  BY FS_RemoveElement
<1>3. /\ IsFiniteSet(Below(S, x))
      /\ Cardinality(Below(S, x)) <= Cardinality(S) - 1
  BY <1>1, <1>2, FS_Subset
<1>4. Cardinality(Below(S, x)) \in Nat /\ Cardinality(S) \in Nat
  BY <1>3, FS_CardinalityType
<1> QED BY <1>3, <1>4

LEMMA BelowGrows ==
  ASSUME NEW S \in SUBSET Nat, IsFiniteSet(S),
         NEW x \in S, NEW y \in S, x < y
  PROVE  Cardinality(Below(S, x)) # Cardinality(Below(S, y))
<1>0. \A n \in S : n \in Nat
  OBVIOUS
<1>1. ASSUME NEW z \in Below(S, x) PROVE z \in Below(S, y)
  <2>1. z \in Nat /\ x \in Nat /\ y \in Nat /\ z < x
    BY <1>0 DEF Below
  <2>2. z < y
    BY <2>1
  <2> QED BY <2>2 DEF Below
<1>2. x \in Below(S, y) /\ x \notin Below(S, x)
  BY DEF Below
<1>3. IsFiniteSet(Below(S, x)) /\ IsFiniteSet(Below(S, y))
  BY BelowIsPosition
<1> QED BY <1>1, <1>2, <1>3, FS_Subset

LEMMA FiniteSetHasLeast ==
  ASSUME NEW S \in SUBSET Nat, IsFiniteSet(S), S # {}
  PROVE  \E n \in S : \A m \in S : n <= m
<1> DEFINE P == 0..(Cardinality(S) - 1)
           position == [x \in S |-> Cardinality(Below(S, x))]
<1>1. Cardinality(S) \in Nat /\ Cardinality(S) # 0
  BY FS_CardinalityType, FS_EmptySet
<1>2. IsFiniteSet(P) /\ Cardinality(P) = Cardinality(S)
  <2>1. 0 \in Int /\ Cardinality(S) - 1 \in Int
    BY <1>1
  <2>2. /\ IsFiniteSet(P)
        /\ Cardinality(P) = IF 0 > Cardinality(S) - 1 THEN 0
                            ELSE (Cardinality(S) - 1) - 0 + 1
    BY <2>1, FS_Interval
  <2> QED BY <1>1, <2>2
<1>3. position \in [S -> P]
  BY BelowIsPosition
<1>4. ASSUME NEW x \in S, NEW y \in S, position[x] = position[y]
      PROVE  x = y
  <2>1. ~(x < y) /\ ~(y < x)
    BY <1>4, BelowGrows
  <2> QED BY <2>1
<1>5. position \in Injection(S, P)
  BY <1>3, <1>4, Z3 DEF Injection, IsInjective
<1>6. position \in Surjection(S, P)
  BY <1>2, <1>5, FS_Injection
<1>7. PICK n \in S : Cardinality(Below(S, n)) = 0
  <2>1. 0 \in P
    BY <1>1
  <2>2. \E x \in S : position[x] = 0
    BY <1>6, <2>1 DEF Surjection
  <2> QED BY <2>2
<1>8. Below(S, n) = {}
  BY <1>7, BelowIsPosition, FS_EmptySet
<1> QED BY <1>8 DEF Below

LEMMA LeastNumber ==
  ASSUME NEW T \in SUBSET Nat, NEW k \in T
  PROVE  \E n \in T : \A m \in T : n <= m
<1> DEFINE S == {m \in T : m <= k}
<1>0. \A m \in T : m \in Nat
  OBVIOUS
<1>1. IsFiniteSet(S)
  <2>1. 0 \in Int /\ k \in Int
    BY <1>0
  <2>2. IsFiniteSet(0..k)
    BY <2>1, FS_Interval
  <2>3. ASSUME NEW m \in S PROVE m \in 0..k
    <3>1. m \in Nat /\ k \in Nat /\ m <= k
      BY <1>0
    <3> QED BY <3>1
  <2> QED BY <2>2, <2>3, FS_Subset
<1>2. S \in SUBSET Nat /\ S # {}
  <2>1. k <= k
    BY <1>0
  <2> QED BY <1>0, <2>1
<1>3. PICK n \in S : \A m \in S : n <= m
  <2> HIDE DEF S
  <2> QED BY <1>1, <1>2, FiniteSetHasLeast
<1>4. ASSUME NEW m \in T PROVE n <= m
  BY <1>3
<1> QED BY <1>3, <1>4

\* A set that contains an element whenever it contains all of lower rank.
LEMMA RankInduction ==
  ASSUME NEW S, NEW rank \in [S -> Nat], NEW T,
         \A n \in S : (\A m \in S : rank[m] < rank[n] => m \in T) => n \in T
  PROVE  S \subseteq T
<1> DEFINE R == {rank[n] : n \in S \ T}
<1>1. R \in SUBSET Nat
  OBVIOUS
<1>2. ASSUME NEW n \in S, n \notin T PROVE FALSE
  <2>1. rank[n] \in R
    BY <1>2
  <2>2. PICK r \in R : \A q \in R : r <= q
    <3> HIDE DEF R
    <3> QED BY <1>1, <2>1, LeastNumber
  <2>3. PICK m \in S \ T : rank[m] = r
    BY <2>2
  <2>4. ASSUME NEW o \in S, rank[o] < rank[m] PROVE o \in T
    <3>1. rank[o] \in Nat /\ rank[m] \in Nat
      OBVIOUS
    <3>2. CASE o \notin T
      <4>1. rank[o] \in R
        BY <3>2
      <4>2. r <= rank[o]
        BY <4>1, <2>2
      <4> QED BY <4>2, <2>3, <2>4, <3>1
    <3> QED BY <3>2
  <2> QED BY <2>3, <2>4
<1> QED BY <1>2

(***************************************************************************)
(* Recursion.  A value of each element that depends on those of lower rank *)
(* defines a function.                                                     *)
(***************************************************************************)
Recursive(step, S, rank, V) ==
    /\ V # {}
    /\ rank \in [S -> Nat]
    /\ \E K \in Nat : \A n \in S : rank[n] <= K
    /\ \A n \in S : \A g \in [S -> V] : step[n][g] \in V
    /\ \A n \in S : \A g, h \in [S -> V] :
          (\A m \in S : rank[m] < rank[n] => g[m] = h[m])
          => step[n][g] = step[n][h]

LEMMA RankRecursion ==
  ASSUME NEW S, NEW rank, NEW V, NEW step, Recursive(step, S, rank, V)
  PROVE  \E f \in [S -> V] : \A n \in S : f[n] = step[n][f]
<1> PICK v \in V : TRUE
  BY DEF Recursive
<1> PICK K \in Nat : \A n \in S : rank[n] <= K
  BY DEF Recursive
<1> USE DEF Recursive
<1> DEFINE T == {k \in Nat : \E f \in [S -> V] : \A n \in S :
                    rank[n] < k => f[n] = step[n][f]}
           id == [k \in Nat |-> k]
<1>1. ASSUME NEW k \in Nat, \A j \in Nat : id[j] < id[k] => j \in T
      PROVE  k \in T
  <2>1. CASE k = 0
    <3>1. [n \in S |-> v] \in [S -> V]
      OBVIOUS
    <3>2. \A n \in S : ~(rank[n] < 0)
      OBVIOUS
    <3> QED BY <2>1, <3>1, <3>2
  <2>2. CASE k # 0
    <3>1. k - 1 \in Nat /\ k - 1 < k
      BY <2>2
    <3>2. k - 1 \in T
      BY <1>1, <3>1
    <3>3. PICK f \in [S -> V] : \A n \in S :
             rank[n] < k - 1 => f[n] = step[n][f]
      BY <3>2
    <3> DEFINE g == [n \in S |-> step[n][f]]
    <3>4. g \in [S -> V]
      OBVIOUS
    <3>5. ASSUME NEW n \in S, rank[n] < k
          PROVE  g[n] = step[n][g]
      <4>1. ASSUME NEW m \in S, rank[m] < rank[n]
            PROVE  g[m] = f[m]
        <5>1. rank[m] \in Nat /\ rank[n] \in Nat
          OBVIOUS
        <5>2. rank[m] < k - 1
          BY <3>1, <3>5, <4>1, <5>1
        <5> QED BY <3>3, <5>2
      <4> HIDE DEF g
      <4>2. step[n][g] = step[n][f]
        BY <3>4, <4>1
      <4> QED BY <4>2 DEF g
    <3> HIDE DEF g
    <3> QED BY <3>4, <3>5
  <2> QED BY <2>1, <2>2
<1>2. K + 1 \in Nat
  OBVIOUS
<1>3. Nat \subseteq T
  <2>1. id \in [Nat -> Nat]
    OBVIOUS
  <2> HIDE DEF T, id
  <2> QED BY <1>1, <2>1, RankInduction
<1>4. PICK f \in [S -> V] : \A n \in S : rank[n] < K + 1 => f[n] = step[n][f]
  BY <1>2, <1>3
<1>5. \A n \in S : rank[n] < K + 1
  OBVIOUS
<1> QED BY <1>4, <1>5

-----------------------------------------------------------------------------
\* The concatenation of sequences is that of all but the last, and the last.
LEMMA FlattenOfEmpty == FlattenSeq(<<>>) = <<>>
BY DEF FlattenSeq

LEMMA FlattenEquation ==
  ASSUME NEW V, NEW s \in Seq(Seq(V)), Len(s) # 0
  PROVE  \E f \in [1..Len(s) -> Seq(V)] :
            /\ FlattenSeq(s) = f[Len(s)]
            /\ \A i \in 1..Len(s) :
                  f[i] = IF i = 1 THEN s[i] ELSE f[i - 1] \o s[i]
<1> DEFINE S == 1..Len(s)
           rank == [i \in S |-> i]
           At(g, i) == IF i = 1 THEN s[i] ELSE g[i - 1] \o s[i]
           step == [i \in S |-> [g \in [S -> Seq(V)] |-> At(g, i)]]
           flatten == CHOOSE f : f = [i \in S |-> At(f, i)]
<1>0. Len(s) \in Nat /\ \A i \in S : s[i] \in Seq(V)
  OBVIOUS
<1>1. FlattenSeq(s) = flatten[Len(s)]
  BY DEF FlattenSeq
<1>2. \A i \in S, g \in [S -> Seq(V)] : At(g, i) \in Seq(V)
  <2> SUFFICES ASSUME NEW i \in S, NEW g \in [S -> Seq(V)]
               PROVE  At(g, i) \in Seq(V)
    OBVIOUS
  <2>1. CASE i = 1
    BY <1>0, <2>1
  <2>2. CASE i # 1
    <3>1. i - 1 \in S
      BY <1>0, <2>2
    <3>2. g[i - 1] \in Seq(V) /\ s[i] \in Seq(V)
      BY <1>0, <3>1
    <3>3. g[i - 1] \o s[i] \in Seq(V)
      BY <3>2
    <3> QED BY <2>2, <3>3
  <2> QED BY <2>1, <2>2
<1>3. \E f \in [S -> Seq(V)] : \A i \in S : f[i] = At(f, i)
  <2>1. rank \in [S -> 0..Len(s)]
    BY <1>0
  <2>2. \A i \in S : \A g \in [S -> Seq(V)] : step[i][g] \in Seq(V)
    <3> HIDE DEF At
    <3> QED BY <1>2
  <2>3. ASSUME NEW i \in S, NEW g \in [S -> Seq(V)], NEW h \in [S -> Seq(V)],
               \A j \in S : rank[j] < rank[i] => g[j] = h[j]
        PROVE  step[i][g] = step[i][h]
    <3>1. CASE i = 1
      BY <3>1
    <3>2. CASE i # 1
      <4>1. i - 1 \in S /\ i - 1 < i
        BY <1>0, <3>2
      <4>2. g[i - 1] = h[i - 1]
        BY <2>3, <4>1
      <4>3. At(g, i) = At(h, i)
        BY <4>2
      <4> HIDE DEF At
      <4> QED BY <4>3
    <3> QED BY <3>1, <3>2
  <2>4. <<>> \in Seq(V)
    OBVIOUS
  <2> DEFINE Q(f) == \A i \in S : f[i] = step[i][f]
  <2>5. \E f \in [S -> Seq(V)] : \A i \in S : f[i] = step[i][f]
    <3> HIDE DEF step, rank, S
    <3>1. Len(s) \in Nat
      BY <1>0
    <3>2. Recursive(step, S, rank, Seq(V))
      <4>1. Seq(V) # {}
        BY <2>4
      <4>2. \A i \in S : rank[i] <= Len(s)
        BY <2>1, <3>1
      <4>3. rank \in [S -> Nat]
        BY <2>1, <3>1
      <4> QED BY <2>2, <2>3, <3>1, <4>1, <4>2, <4>3 DEF Recursive
    <3> QED BY <3>2, RankRecursion
  <2> HIDE DEF At
  <2> QED BY <2>5
<1>4. PICK f \in [S -> Seq(V)] : \A i \in S : f[i] = At(f, i)
  BY <1>3
<1>5. f = [i \in S |-> At(f, i)]
  <2> HIDE DEF At
  <2> QED BY <1>4
<1>6. flatten = [i \in S |-> At(flatten, i)]
  <2> HIDE DEF At
  <2> QED BY <1>5, Zenon
<1>7. \A i \in S : flatten[i] = At(flatten, i)
  <2> HIDE DEF At, flatten
  <2> QED BY <1>6
<1>8. S \subseteq {i \in S : flatten[i] \in Seq(V)}
  <2> DEFINE T == {i \in S : flatten[i] \in Seq(V)}
  <2>1. ASSUME NEW i \in S, \A j \in S : rank[j] < rank[i] => j \in T
        PROVE  i \in T
    <3> HIDE DEF flatten
    <3>1. CASE i = 1
      <4>1. flatten[i] = s[i] /\ s[i] \in Seq(V)
        BY <1>0, <1>7, <3>1
      <4> QED BY <4>1
    <3>2. CASE i # 1
      <4>1. i - 1 \in S /\ i - 1 < i
        BY <1>0, <3>2
      <4>2. flatten[i - 1] \in Seq(V)
        BY <2>1, <4>1
      <4>3. flatten[i] = flatten[i - 1] \o s[i] /\ s[i] \in Seq(V)
        BY <1>0, <1>7, <3>2
      <4>4. flatten[i - 1] \o s[i] \in Seq(V)
        BY <4>2, <4>3
      <4> QED BY <4>3, <4>4
    <3> QED BY <3>1, <3>2
  <2>2. rank \in [S -> Nat]
    BY <1>0
  <2> HIDE DEF T, S, rank, flatten
  <2>3. S \subseteq T
    BY <2>1, <2>2, RankInduction
  <2> QED BY <2>3 DEF T
<1>9. flatten \in [S -> Seq(V)]
  <2> HIDE DEF At, flatten
  <2> QED BY <1>6, <1>8
<1> HIDE DEF flatten
<1> QED BY <1>1, <1>7, <1>9

LEMMA FlattenIsSeq ==
  ASSUME NEW V, NEW s \in Seq(Seq(V))
  PROVE  FlattenSeq(s) \in Seq(V)
<1>1. CASE Len(s) = 0
  <2>1. s = <<>> /\ <<>> \in Seq(V)
    BY <1>1
  <2> QED BY <2>1, FlattenOfEmpty
<1>2. CASE Len(s) # 0
  <2>1. PICK f \in [1..Len(s) -> Seq(V)] : FlattenSeq(s) = f[Len(s)]
    BY <1>2, FlattenEquation
  <2>2. Len(s) \in 1..Len(s)
    BY <1>2
  <2> QED BY <2>1, <2>2
<1> QED BY <1>1, <1>2

LEMMA FlattenAppend ==
  ASSUME NEW V, NEW s \in Seq(Seq(V)), NEW x \in Seq(V)
  PROVE  FlattenSeq(Append(s, x)) = FlattenSeq(s) \o x
<1> DEFINE t == Append(s, x)
           N == Len(s)
<1>1. /\ t \in Seq(Seq(V)) /\ Len(t) = N + 1 /\ N \in Nat
      /\ t[N + 1] = x /\ \A i \in 1..N : t[i] = s[i]
  OBVIOUS
<1>2. Len(t) # 0
  BY <1>1
<1> HIDE DEF t
<1>3. PICK g \in [1..Len(t) -> Seq(V)] :
         /\ FlattenSeq(t) = g[Len(t)]
         /\ \A i \in 1..Len(t) :
               g[i] = IF i = 1 THEN t[i] ELSE g[i - 1] \o t[i]
  BY <1>1, <1>2, FlattenEquation
<1>4. CASE N = 0
  <2>1. s = <<>>
    BY <1>4
  <2>2. 1 \in 1..Len(t) /\ Len(t) = 1
    BY <1>1, <1>4
  <2>3. FlattenSeq(t) = x
    BY <1>1, <1>3, <1>4, <2>2
  <2>4. <<>> \o x = x
    OBVIOUS
  <2> QED BY <2>1, <2>3, <2>4, FlattenOfEmpty DEF t
<1>5. CASE N # 0
  <2>1. PICK f \in [1..N -> Seq(V)] :
           /\ FlattenSeq(s) = f[N]
           /\ \A i \in 1..N :
                 f[i] = IF i = 1 THEN s[i] ELSE f[i - 1] \o s[i]
    BY <1>5, FlattenEquation
  <2> DEFINE S == 1..N
             rank == [i \in S |-> i]
             T == {i \in S : f[i] = g[i]}
  <2>2. ASSUME NEW i \in S, \A j \in S : rank[j] < rank[i] => j \in T
        PROVE  i \in T
    <3>1. i \in 1..Len(t)
      BY <1>1
    <3>2. CASE i = 1
      BY <1>1, <1>3, <2>1, <3>1, <3>2
    <3>3. CASE i # 1
      <4>1. i - 1 \in S /\ i - 1 < i
        BY <1>1, <3>3
      <4>2. f[i - 1] = g[i - 1]
        BY <2>2, <4>1
      <4>3. f[i] = f[i - 1] \o s[i]
        BY <2>1, <3>3
      <4>4. g[i] = g[i - 1] \o t[i]
        BY <1>3, <3>1, <3>3
      <4> QED BY <1>1, <4>2, <4>3, <4>4
    <3> QED BY <3>2, <3>3
  <2>3. S \subseteq T
    <3>1. rank \in [S -> Nat]
      BY <1>1
    <3> HIDE DEF S, rank, T
    <3> QED BY <2>2, <3>1, RankInduction
  <2>4. f[N] = g[N]
    <3>1. N \in S
      BY <1>1, <1>5
    <3> QED BY <2>3, <3>1
  <2>5. g[N + 1] = g[N] \o x
    <3>1. N + 1 \in 1..Len(t) /\ N + 1 # 1 /\ (N + 1) - 1 = N
      BY <1>1, <1>5
    <3> HIDE DEF N
    <3> QED BY <1>1, <1>3, <3>1
  <2> QED BY <1>1, <1>3, <2>1, <2>4, <2>5 DEF t
<1> QED BY <1>4, <1>5

(***************************************************************************)
(* The files of an archive one after another.                              *)
(***************************************************************************)
StoredFile == [name : STRING, length : Nat, content : Seq(Nat)]
Files == Seq(StoredFile)
Prefix(files, n) == Contents(SubSeq(files, 1, n))

LEMMA FileOfFiles ==
  ASSUME NEW files \in Files
  PROVE  /\ Len(files) \in Nat /\ DOMAIN files = 1..Len(files)
         /\ \A n \in 1..Len(files) :
               files[n] \in StoredFile /\ files[n].content \in Seq(Nat)
<1>1. \A n \in 1..Len(files) : files[n] \in StoredFile
  BY DEF Files
<1>2. \A f \in StoredFile : f.content \in Seq(Nat)
  BY DEF StoredFile
<1> QED BY <1>1, <1>2 DEF Files

LEMMA ContentsIsSeq ==
  ASSUME NEW files \in Files
  PROVE  Contents(files) \in Seq(Nat)
<1>1. [n \in DOMAIN files |-> files[n].content] \in Seq(Seq(Nat))
  <2> DEFINE c == [n \in 1..Len(files) |-> files[n].content]
  <2>1. c \in [1..Len(files) -> Seq(Nat)] /\ Len(files) \in Nat
    BY FileOfFiles
  <2>2. c \in Seq(Seq(Nat))
    <3> HIDE DEF c
    <3> QED BY <2>1
  <2> QED BY <2>2, FileOfFiles
<1> QED BY <1>1, FlattenIsSeq DEF Contents

LEMMA PrefixOfNone ==
  ASSUME NEW files \in Files
  PROVE  Prefix(files, 0) = <<>>
<1> DEFINE p == SubSeq(files, 1, 0)
<1>1. p = <<>>
  BY DEF Files
<1>2. [n \in DOMAIN p |-> p[n].content] = <<>>
  BY <1>1
<1> QED BY <1>2, FlattenOfEmpty DEF Prefix, Contents

LEMMA PrefixOfAll ==
  ASSUME NEW files \in Files
  PROVE  Prefix(files, Len(files)) = Contents(files)
<1>1. SubSeq(files, 1, Len(files)) = files
  BY DEF Files
<1> QED BY <1>1 DEF Prefix

LEMMA PrefixGrows ==
  ASSUME NEW files \in Files, NEW n \in 1..Len(files)
  PROVE  /\ Prefix(files, n) \in Seq(Nat)
         /\ Prefix(files, n - 1) \in Seq(Nat)
         /\ files[n].content \in Seq(Nat)
         /\ Prefix(files, n) = Prefix(files, n - 1) \o files[n].content
<1> DEFINE p == SubSeq(files, 1, n)
           q == SubSeq(files, 1, n - 1)
           c(s) == [m \in DOMAIN s |-> s[m].content]
<1>0. /\ Len(files) \in Nat /\ n \in Nat /\ n - 1 \in Nat
      /\ \A m \in 1..Len(files) :
            files[m] \in StoredFile /\ files[m].content \in Seq(Nat)
  <2>1. Len(files) \in Nat
    BY FileOfFiles
  <2> QED BY <2>1, FileOfFiles
<1>1. /\ p \in Files /\ Len(p) = n /\ \A m \in 1..n : p[m] = files[m]
      /\ DOMAIN p = 1..n
  BY <1>0 DEF Files
<1>2. /\ q \in Files /\ Len(q) = n - 1
      /\ \A m \in 1..(n - 1) : q[m] = files[m]
      /\ DOMAIN q = 1..(n - 1)
  BY <1>0 DEF Files
<1> HIDE DEF p, q
<1>3. files[n].content \in Seq(Nat)
  BY <1>0
<1>4. c(q) \in Seq(Seq(Nat)) /\ Len(c(q)) = n - 1
  <2>1. c(q) = [m \in 1..(n - 1) |-> files[m].content]
    BY <1>0, <1>2
  <2>2. \A m \in 1..(n - 1) : files[m].content \in Seq(Nat)
    BY <1>0
  <2>3. c(q) \in [1..(n - 1) -> Seq(Nat)]
    BY <2>1, <2>2
  <2> HIDE DEF c
  <2> QED BY <1>0, <2>3
<1>5. c(p) = Append(c(q), files[n].content)
  <2>1. c(p) = [m \in 1..n |-> files[m].content]
    BY <1>0, <1>1
  <2>2. c(q) = [m \in 1..(n - 1) |-> files[m].content]
    BY <1>0, <1>2
  <2>3. DOMAIN Append(c(q), files[n].content) = 1..n
    <3> HIDE DEF c
    <3> QED BY <1>0, <1>3, <1>4
  <2>4. \A m \in 1..n : Append(c(q), files[n].content)[m] = files[m].content
    <3>1. \A m \in 1..(n - 1) : c(q)[m] = files[m].content
      BY <2>2
    <3> HIDE DEF c
    <3> QED BY <1>0, <1>3, <1>4, <3>1
  <2>5. Append(c(q), files[n].content) \in Seq(Seq(Nat))
    <3> HIDE DEF c
    <3> QED BY <1>3, <1>4
  <2>6. Append(c(q), files[n].content)
          = [m \in 1..n |-> Append(c(q), files[n].content)[m]]
    <3> HIDE DEF c
    <3> QED BY <2>3, <2>5
  <2> QED BY <2>1, <2>4, <2>6
<1>6. FlattenSeq(c(p)) = FlattenSeq(c(q)) \o files[n].content
  <2> HIDE DEF c
  <2> QED BY <1>3, <1>4, <1>5, FlattenAppend
<1>7. Contents(p) = Contents(q) \o files[n].content
  BY <1>6 DEF Contents
<1>8. Contents(p) \in Seq(Nat) /\ Contents(q) \in Seq(Nat)
  BY <1>1, <1>2, ContentsIsSeq
<1> QED BY <1>3, <1>7, <1>8 DEF Prefix, p, q

Size(files, n) == Len(Prefix(files, n))

LEMMA SizeGrows ==
  ASSUME NEW files \in Files
  PROVE  /\ Size(files, 0) = 0
         /\ \A n \in 1..Len(files) :
               /\ Size(files, n) \in Nat /\ Size(files, n - 1) \in Nat
               /\ Size(files, n)
                    = Size(files, n - 1) + Len(files[n].content)
<1>1. Size(files, 0) = 0
  BY PrefixOfNone DEF Size
<1>2. ASSUME NEW n \in 1..Len(files)
      PROVE  /\ Size(files, n) \in Nat /\ Size(files, n - 1) \in Nat
             /\ Size(files, n) = Size(files, n - 1) + Len(files[n].content)
  <2> DEFINE p == Prefix(files, n)
             q == Prefix(files, n - 1)
             c == files[n].content
  <2>1. p \in Seq(Nat) /\ q \in Seq(Nat) /\ c \in Seq(Nat) /\ p = q \o c
    BY PrefixGrows
  <2> HIDE DEF p, q, c
  <2>2. Len(p) \in Nat /\ Len(q) \in Nat /\ Len(p) = Len(q) + Len(c)
    BY <2>1
  <2> QED BY <2>2 DEF Size, p, q, c
<1> QED BY <1>1, <1>2

\* The offset of a file is the size of those before it.
LEMMA OffsetsAreSizes ==
  ASSUME NEW files \in Files, NEW a, a.count = Len(files),
         \A n \in 1..Len(files) :
            a.directory[n].size = Len(files[n].content)
  PROVE  \A n \in 1..Len(files) : Offsets(a)[n] = Size(files, n - 1)
<1> DEFINE N == Len(files)
           S == 1..N
           At(g, n) == IF n = 1 THEN 0
                       ELSE g[n - 1] + a.directory[n - 1].size
           offset == CHOOSE g : g = [n \in S |-> At(g, n)]
           f == [n \in S |-> Size(files, n - 1)]
           id == [n \in S |-> n]
           T == {n \in S : offset[n] = f[n]}
<1>0. N \in Nat
  BY FileOfFiles
<1>1. Offsets(a) = offset
  BY DEF Offsets
<1>2. ASSUME NEW n \in S PROVE f[n] = At(f, n)
  <2>1. CASE n = 1
    BY <2>1, SizeGrows
  <2>2. CASE n # 1
    <3>1. n - 1 \in S
      BY <1>0, <2>2
    <3>2. Size(files, n - 1)
            = Size(files, (n - 1) - 1) + Len(files[n - 1].content)
      BY <3>1, SizeGrows
    <3> QED BY <2>2, <3>1, <3>2
  <2> QED BY <2>1, <2>2
<1>3. f = [n \in S |-> At(f, n)]
  <2> HIDE DEF At
  <2> QED BY <1>2
<1>4. offset = [n \in S |-> At(offset, n)]
  <2> HIDE DEF At, f
  <2> QED BY <1>3, Zenon
<1>5. \A n \in S : offset[n] = At(offset, n)
  <2> HIDE DEF At, offset
  <2> QED BY <1>4
<1>6. ASSUME NEW n \in S, \A m \in S : id[m] < id[n] => m \in T
      PROVE  n \in T
  <2> HIDE DEF offset, f
  <2>1. CASE n = 1
    BY <1>2, <1>5, <2>1
  <2>2. CASE n # 1
    <3>1. n - 1 \in S /\ n - 1 < n
      BY <1>0, <2>2
    <3>2. offset[n - 1] = f[n - 1]
      BY <1>6, <3>1
    <3> QED BY <1>2, <1>5, <2>2, <3>2
  <2> QED BY <2>1, <2>2
<1>7. S \subseteq T
  <2>1. id \in [S -> Nat]
    BY <1>0
  <2> HIDE DEF S, T, id
  <2> QED BY <1>6, <2>1, RankInduction
<1> HIDE DEF offset
<1> QED BY <1>1, <1>7

\* What stands before and at a file of the archive's data.
LEMMA FileIsInContents ==
  ASSUME NEW files \in Files, NEW n \in 1..Len(files)
  PROVE  /\ Contents(files) \in Seq(Nat)
         /\ Size(files, n) <= Len(Contents(files))
         /\ \A k \in 1..Len(files[n].content) :
               Contents(files)[Size(files, n - 1) + k] = files[n].content[k]
<1> DEFINE N == Len(files)
           S == n..N
           id == [m \in S |-> m]
           c == files[n].content
           Has(m) == /\ Size(files, n) <= Size(files, m)
                     /\ \A k \in 1..Len(c) :
                           Prefix(files, m)[Size(files, n - 1) + k] = c[k]
           T == {m \in S : Has(m)}
<1>0. N \in Nat /\ n \in Nat /\ \A m \in S : m \in 1..N /\ m \in Nat
  BY FileOfFiles
<1>1. ASSUME NEW m \in S, \A o \in S : id[o] < id[m] => o \in T
      PROVE  m \in T
  <2> DEFINE p == Prefix(files, m)
             q == Prefix(files, m - 1)
             d == files[m].content
  <2>1. p \in Seq(Nat) /\ q \in Seq(Nat) /\ d \in Seq(Nat) /\ p = q \o d
    BY <1>0, PrefixGrows
  <2>2. /\ Size(files, m) = Len(p) /\ Size(files, m - 1) = Len(q)
        /\ c \in Seq(Nat)
    BY FileOfFiles DEF Size
  <2>3. /\ Size(files, n - 1) \in Nat /\ Size(files, n) \in Nat
        /\ Size(files, n) = Size(files, n - 1) + Len(c)
    BY SizeGrows
  <2> HIDE DEF p, q
  <2>4. CASE m = n
    <3>1. c = d
      BY <2>4
    <3>2. Size(files, n - 1) = Len(q)
      BY <2>2, <2>4
    <3>3. \A k \in 1..Len(c) : p[Len(q) + k] = c[k]
      <4> HIDE DEF c, d
      <4> QED BY <2>1, <2>2, <3>1
    <3>4. Size(files, n) <= Size(files, m)
      BY <2>3, <2>4
    <3> QED BY <3>2, <3>3, <3>4, <2>4 DEF p
  <2>5. CASE m # n
    <3>1. m - 1 \in S /\ m - 1 < m
      BY <1>0, <2>5
    <3>2. Has(m - 1)
      BY <1>1, <3>1
    <3>3. Len(q) <= Len(p)
      <4> HIDE DEF d
      <4> QED BY <2>1
    <3>4. Len(q) \in Nat /\ Len(p) \in Nat
      BY <2>1
    <3>5. Size(files, n) <= Len(q)
      BY <2>2, <3>2
    <3>6. Size(files, n) <= Size(files, m)
      BY <2>2, <2>3, <3>3, <3>4, <3>5
    <3>7. ASSUME NEW k \in 1..Len(c)
          PROVE  p[Size(files, n - 1) + k] = c[k]
      <4>1. q[Size(files, n - 1) + k] = c[k]
        BY <3>2 DEF q
      <4>2. Size(files, n - 1) + k \in 1..Len(q)
        <5>1. Len(c) \in Nat /\ k \in Nat /\ 1 <= k /\ k <= Len(c)
          BY <2>2
        <5> QED BY <2>3, <3>4, <3>5, <5>1
      <4>3. p[Size(files, n - 1) + k] = q[Size(files, n - 1) + k]
        <5> HIDE DEF d
        <5> QED BY <2>1, <4>2
      <4> QED BY <4>1, <4>3
    <3> QED BY <3>6, <3>7 DEF p
  <2> QED BY <2>4, <2>5
<1>2. S \subseteq T
  <2>1. id \in [S -> Nat]
    BY <1>0
  <2> HIDE DEF S, T, id
  <2> QED BY <1>1, <2>1, RankInduction
<1>3. Has(N)
  <2>1. N \in S
    BY <1>0
  <2> QED BY <1>2, <2>1
<1>4. Prefix(files, N) = Contents(files)
  BY PrefixOfAll
<1> QED BY <1>3, <1>4, ContentsIsSeq DEF Size

Entry(file) == [name |-> file.name, length |-> file.length,
                size |-> Len(file.content)]

LEMMA EntryFields ==
  ASSUME NEW f
  PROVE  /\ Entry(f).name = f.name /\ Entry(f).length = f.length
         /\ Entry(f).size = Len(f.content)
BY DEF Entry

LEMMA ArchiveIs ==
  ASSUME NEW files \in Files, NEW cut \in Nat
  PROVE  LET a == Archive(files, cut) IN
         /\ a.count = Len(files)
         /\ Len(a.directory) \in 0..Len(files)
         /\ \A n \in 1..Len(a.directory) : a.directory[n] = Entry(files[n])
         /\ a.data \in Seq(Nat) /\ Len(a.data) <= Len(Contents(files))
         /\ \A k \in 1..Len(a.data) : a.data[k] = Contents(files)[k]
<1> DEFINE data == Contents(files)
           lost == IF cut > Len(data) THEN cut - Len(data) ELSE 0
           N == Len(files)
           directory == [n \in 1..(N - lost) |-> Entry(files[n])]
           rest == SubSeq(data, 1, Len(data) - cut)
<1>1. Archive(files, cut) = [count |-> N, directory |-> directory,
                             data |-> rest]
  BY DEF Archive, Entry
<1>2. N \in Nat /\ data \in Seq(Nat)
  BY FileOfFiles, ContentsIsSeq
<1> HIDE DEF data
<1>3. Len(data) \in Nat /\ lost \in Nat
  BY <1>2
<1>4. /\ Len(directory) \in 0..N
      /\ \A n \in 1..Len(directory) : directory[n] = Entry(files[n])
  <2> HIDE DEF lost
  <2>1. CASE lost <= N
    <3>1. N - lost \in Nat
      BY <1>2, <1>3, <2>1
    <3>2. Len(directory) = N - lost
      BY <3>1
    <3> QED BY <1>2, <1>3, <2>1, <3>2
  <2>2. CASE lost > N
    <3>1. 1..(N - lost) = {}
      BY <1>2, <1>3, <2>2
    <3>2. directory = <<>>
      BY <3>1
    <3> HIDE DEF directory
    <3>3. Len(directory) = 0
      BY <3>2
    <3>4. 1..Len(directory) = {} /\ 0 \in 0..N
      BY <1>2, <3>3
    <3> QED BY <3>3, <3>4
  <2>3. lost <= N \/ lost > N
    BY <1>2, <1>3
  <2> QED BY <2>1, <2>2, <2>3
<1>5. /\ rest \in Seq(Nat) /\ Len(rest) <= Len(data)
      /\ \A k \in 1..Len(rest) : rest[k] = data[k]
  BY <1>2, <1>3
<1> HIDE DEF directory, rest
<1> QED BY <1>1, <1>4, <1>5 DEF data

\* What is found where the directory says a file to be.
LEMMA ContentIs ==
  ASSUME NEW files \in Files, NEW cut \in Nat, NEW n \in 1..Len(files),
         Len(Archive(files, cut).directory) = Len(files)
  PROVE  Content(Archive(files, cut), n)
           = IF \/ files[n].content = <<>>
                \/ Size(files, n) <= Len(Archive(files, cut).data)
             THEN {files[n].content} ELSE {}
<1> DEFINE a == Archive(files, cut)
           c == files[n].content
           o == Size(files, n - 1)
           all == Contents(files)
           data == a.data
           size == a.directory[n].size
<1>1. \A m \in 1..Len(files) : a.directory[m].size = Len(files[m].content)
  <2>1. \A m \in 1..Len(a.directory) : a.directory[m] = Entry(files[m])
    BY ArchiveIs
  <2> HIDE DEF a
  <2>2. \A m \in 1..Len(files) : a.directory[m] = Entry(files[m])
    BY <2>1 DEF a
  <2> QED BY <2>2, EntryFields
<1>2. Offsets(a)[n] = o
  <2>1. a.count = Len(files)
    BY ArchiveIs
  <2> HIDE DEF a, o
  <2> QED BY <1>1, <2>1, OffsetsAreSizes DEF o
<1>3. size = Len(c)
  BY <1>1
<1>4. c \in Seq(Nat) /\ Len(c) \in Nat
  BY FileOfFiles
<1>5. /\ o \in Nat /\ Size(files, n) = o + Len(c)
  BY SizeGrows
<1>6. /\ data \in Seq(Nat) /\ Len(data) \in Nat
      /\ \A k \in 1..Len(data) : data[k] = all[k]
  BY ArchiveIs
<1>7. \A k \in 1..Len(c) : all[o + k] = c[k]
  BY FileIsInContents
<1>8. Content(a, n) = IF Len(c) > 0 /\ o + Len(c) > Len(data) THEN {}
                      ELSE {SubSeq(data, o + 1, o + Len(c))}
  BY <1>2, <1>3 DEF Content
<1> HIDE DEF a, c, o, all, data
<1>9. CASE c = <<>>
  <2>1. Len(c) = 0
    BY <1>9
  <2>2. SubSeq(data, o + 1, o + Len(c)) = c
    BY <1>5, <1>6, <1>9, <2>1
  <2>3. ~(Len(c) > 0 /\ o + Len(c) > Len(data))
    BY <2>1
  <2>4. Content(a, n) = {c}
    BY <1>8, <2>2, <2>3, Zenon
  <2> QED BY <1>9, <2>4 DEF c, a
<1>10. CASE c # <<>> /\ Size(files, n) <= Len(data)
  <2>1. o + Len(c) <= Len(data)
    BY <1>5, <1>10
  <2> DEFINE part == SubSeq(data, o + 1, o + Len(c))
  <2>2. /\ part \in Seq(Nat) /\ Len(part) = Len(c)
        /\ \A k \in 1..Len(c) : part[k] = data[o + k]
    BY <1>4, <1>5, <1>6, <2>1
  <2>3. \A k \in 1..Len(c) : data[o + k] = c[k]
    <3> SUFFICES ASSUME NEW k \in 1..Len(c) PROVE data[o + k] = c[k]
      OBVIOUS
    <3>1. o + k \in 1..Len(data)
      BY <1>4, <1>5, <1>6, <2>1
    <3> QED BY <1>6, <1>7, <3>1
  <2> HIDE DEF part
  <2>4. part = c
    <3>1. part = [k \in 1..Len(c) |-> part[k]]
      BY <2>2
    <3>2. c = [k \in 1..Len(c) |-> c[k]]
      BY <1>4
    <3> QED BY <2>2, <2>3, <3>1, <3>2
  <2>5. ~(Len(c) > 0 /\ o + Len(c) > Len(data))
    BY <1>4, <1>5, <1>6, <2>1
  <2> QED BY <1>8, <1>10, <2>4, <2>5 DEF part, a, c, data
<1>11. CASE c # <<>> /\ ~(Size(files, n) <= Len(data))
  <2>1. Len(c) > 0 /\ o + Len(c) > Len(data)
    BY <1>4, <1>5, <1>6, <1>11
  <2> QED BY <1>8, <1>11, <2>1 DEF a, c, data
<1> QED BY <1>9, <1>10, <1>11

Stored ==
    /\ written \in Files
    /\ \E cut \in Nat : archive = Archive(written, cut)

LEMMA LimitsAreNumbers ==
  /\ MaxEntries \in Nat /\ MaxName \in Nat /\ MaxSize \in Nat
  /\ MaxRecords \in Nat /\ PayloadSize \in Nat
BY CatalogueAssumption

LEMMA SurvivesIfFound ==
  ASSUME Stored, Len(archive.directory) = Len(written),
         NEW n \in DOMAIN written
  PROVE  Content(archive, n)
           = IF Survives(n) THEN {written[n].content} ELSE {}
<1>1. PICK cut \in Nat : archive = Archive(written, cut)
  BY DEF Stored
<1>2. n \in 1..Len(written)
  BY FileOfFiles DEF Stored
<1>3. Survives(n) <=> \/ written[n].content = <<>>
                      \/ Size(written, n) <= Len(archive.data)
  BY DEF Survives, Size, Prefix
<1> QED BY <1>1, <1>2, <1>3, ContentIs DEF Stored

(***************************************************************************)
(* ReadGpakTargets: the files are those that were written, the first of a  *)
(* name, and there are none exactly when the archive is not intact.        *)
(* (catalog.cpp:32-94)                                                     *)
(***************************************************************************)
THEOREM FilesAreRead ==
  ASSUME Stored
  PROVE  ReadTargets(archive)
           = IF Intact THEN {[t \in Targets |-> Written(t)]} ELSE {}
<1> DEFINE a == archive
           wanted == {n \in 1..a.count : a.directory[n].name \in Targets}
           Named(t) == {n \in wanted : a.directory[n].name = t}
           usable == /\ DirectoryReadable(a)
                     /\ \A n \in wanted : /\ a.directory[n].size <= MaxSize
                                          /\ Content(a, n) # {}
                     /\ \A t \in Targets : Named(t) # {}
           result == [t \in Targets |->
                        CHOOSE file \in Content(a, Min(Named(t))) : TRUE]
<1>1. ReadTargets(a) = IF usable THEN {result} ELSE {}
  BY DEF ReadTargets
<1>2. /\ a.count = Len(written) /\ Len(a.directory) \in 0..Len(written)
      /\ \A n \in 1..Len(a.directory) : a.directory[n] = Entry(written[n])
      /\ Len(written) \in Nat /\ DOMAIN written = 1..Len(written)
  BY ArchiveIs, FileOfFiles DEF Stored
<1>3. CASE Len(a.directory) # Len(written)
  <2>1. ~Intact
    BY <1>3 DEF Intact
  <2>2. ~DirectoryReadable(a)
    <3>1. Len(written) \in 1..a.count /\ ~(Len(written) <= Len(a.directory))
      BY <1>2, <1>3
    <3> QED BY <3>1 DEF DirectoryReadable
  <2> QED BY <1>1, <2>1, <2>2
<1>4. CASE Len(a.directory) = Len(written)
  <2>1. \A n \in DOMAIN written : a.directory[n] = Entry(written[n])
    BY <1>2, <1>4
  <2>2. \A n \in DOMAIN written :
           /\ a.directory[n].name = written[n].name
           /\ a.directory[n].length = written[n].length
           /\ a.directory[n].size = Len(written[n].content)
    BY <2>1, EntryFields
  <2>3. \A t \in Targets : Named(t) = Holders(t)
    BY <1>2, <2>2 DEF Holders
  <2>4. \A n : n \in wanted <=> \E t \in Targets : n \in Holders(t)
    BY <1>2, <2>2 DEF Holders
  <2>5. DirectoryReadable(a) <=>
           /\ Len(written) <= MaxEntries
           /\ \A n \in DOMAIN written : written[n].length \in 1..MaxName
    BY <1>2, <1>4, <2>2 DEF DirectoryReadable
  <2>6. \A t \in Targets : Holders(t) \subseteq DOMAIN written
    BY DEF Holders
  <2>7. \A n \in DOMAIN written :
           Content(a, n) = IF Survives(n) THEN {written[n].content} ELSE {}
    BY <1>4, SurvivesIfFound
  <2>8. usable <=> Intact
    <3> HIDE DEF Named, wanted
    <3>1. (\A t \in Targets : Named(t) # {})
             <=> \A t \in Targets : Holders(t) # {}
      BY <2>3
    <3>2. (\A n \in wanted : a.directory[n].size <= MaxSize
                             /\ Content(a, n) # {})
             <=> \A t \in Targets : \A n \in Holders(t) :
                    Survives(n) /\ Len(written[n].content) <= MaxSize
      BY <2>2, <2>4, <2>6, <2>7
    <3> QED BY <1>4, <2>5, <3>1, <3>2 DEF Intact
  <2>9. ASSUME Intact PROVE result = [t \in Targets |-> Written(t)]
    <3>1. ASSUME NEW t \in Targets
          PROVE  (CHOOSE file \in Content(a, Min(Named(t))) : TRUE)
                   = Written(t)
      <4>1. Named(t) = Holders(t) /\ Holders(t) # {}
        BY <2>3, <2>9 DEF Intact
      <4>2. Min(Holders(t)) \in Holders(t)
        <5>1. PICK k \in Holders(t) : TRUE
          BY <4>1
        <5>2. Holders(t) \in SUBSET Nat
          BY <1>2, <2>6
        <5>3. \E m \in Holders(t) : \A o \in Holders(t) : m <= o
          BY <5>1, <5>2, LeastNumber
        <5> QED BY <5>3 DEF Min
      <4>3. Content(a, Min(Holders(t))) = {written[Min(Holders(t))].content}
        BY <2>6, <2>7, <2>9, <4>2 DEF Intact
      <4> QED BY <4>1, <4>3 DEF Written
    <3> HIDE DEF Named
    <3> QED BY <3>1
  <2> HIDE DEF usable, result
  <2> QED BY <1>1, <2>8, <2>9
<1> QED BY <1>3, <1>4

-----------------------------------------------------------------------------
(***************************************************************************)
(* The list of furniture.  What the loop knows before a record: how far it *)
(* is, and what the records so far name.                                   *)
(***************************************************************************)
Progress == [offset : Nat, ids : SUBSET Seq(Nat)]
Fitting(bytes, progress) ==
    {r \in progress : /\ RecordFits(bytes, r.offset)
                      /\ RecordId(bytes, r.offset) \notin r.ids}
After(bytes, progress) ==
    {[offset |-> NextRecord(bytes, r.offset),
      ids |-> r.ids \cup {RecordId(bytes, r.offset)}] :
        r \in Fitting(bytes, progress)}
AtStart == {[offset |-> 2, ids |-> {}]}

LEMMA FittingRecord ==
  ASSUME NEW bytes \in Seq(Nat), NEW o \in Nat, RecordFits(bytes, o)
  PROVE  /\ o + 1 \in 1..Len(bytes) /\ bytes[o + 1] \in Nat
         /\ bytes[o + 1] # 0
         /\ NextRecord(bytes, o) \in Nat
         /\ NextRecord(bytes, o) = o + 2 + bytes[o + 1] + PayloadSize
         /\ NextRecord(bytes, o) <= Len(bytes)
         /\ RecordId(bytes, o) \in Seq(Nat)
         /\ RecordId(bytes, o) = NameAt(bytes, o + 1)
<1>1. Len(bytes) \in Nat /\ PayloadSize \in Nat
  BY LimitsAreNumbers
<1>2. o + 1 \in 1..Len(bytes)
  BY <1>1 DEF RecordFits
<1>3. bytes[o + 1] \in Nat
  BY <1>2
<1> DEFINE b == bytes[o + 1]
<1>4. NextRecord(bytes, o) = o + 2 + b + PayloadSize
  BY DEF NextRecord
<1>5. /\ Len(bytes) - (o + 2) >= b /\ b # 0
      /\ Len(bytes) - (o + 2) - b >= PayloadSize
  BY DEF RecordFits
<1>6. RecordId(bytes, o) = SubSeq(bytes, o + 3, o + 2 + b)
  BY DEF RecordId
<1>7. NameAt(bytes, o + 1) = SubSeq(bytes, (o + 1) + 2, (o + 1) + 1 + b)
  BY DEF NameAt
<1> HIDE DEF b
<1>8. b \in Nat
  BY <1>3 DEF b
<1>9. SubSeq(bytes, o + 3, o + 2 + b) \in Seq(Nat)
  <2>1. o + 3 \in Nat /\ o + 2 + b \in Nat /\ o + 2 + b <= Len(bytes)
    BY <1>1, <1>5, <1>8
  <2> QED BY <1>1, <2>1
<1>10. (o + 1) + 2 = o + 3 /\ (o + 1) + 1 + b = o + 2 + b
  BY <1>8
<1>11. o + 2 + b + PayloadSize \in Nat /\ o + 2 + b + PayloadSize <= Len(bytes)
  BY <1>1, <1>5, <1>8
<1> QED BY <1>2, <1>4, <1>5, <1>6, <1>7, <1>8, <1>9, <1>10, <1>11 DEF b

LEMMA AfterIsProgress ==
  ASSUME NEW bytes \in Seq(Nat), NEW p \in SUBSET Progress
  PROVE  After(bytes, p) \in SUBSET Progress
<1> SUFFICES ASSUME NEW r \in Fitting(bytes, p)
             PROVE  [offset |-> NextRecord(bytes, r.offset),
                     ids |-> r.ids \cup {RecordId(bytes, r.offset)}]
                       \in Progress
  BY DEF After
<1>1. r \in Progress /\ RecordFits(bytes, r.offset)
  BY DEF Fitting
<1>2. r.offset \in Nat /\ r.ids \in SUBSET Seq(Nat)
  BY <1>1 DEF Progress
<1>3. /\ NextRecord(bytes, r.offset) \in Nat
      /\ RecordId(bytes, r.offset) \in Seq(Nat)
  BY <1>1, <1>2, FittingRecord
<1> QED BY <1>2, <1>3 DEF Progress

LEMMA RecordsEquation ==
  ASSUME NEW bytes \in Seq(Nat), Len(bytes) >= 2
  PROVE  \E f :
            /\ ParseRecords(bytes) = f[bytes[2]]
            /\ f[0] = AtStart
            /\ \A n \in 1..bytes[2] : f[n] = After(bytes, f[n - 1])
<1> DEFINE N == bytes[2]
           S == 0..N
           V == SUBSET Progress
           At(g, n) == IF n = 0 THEN AtStart ELSE After(bytes, g[n - 1])
           step == [n \in S |-> [g \in [S -> V] |-> At(g, n)]]
           rank == [n \in S |-> n]
           records == CHOOSE g : g = [n \in S |-> At(g, n)]
<1>0. N \in Nat
  <2>1. 2 \in 1..Len(bytes)
    OBVIOUS
  <2> QED BY <2>1
<1>1. ParseRecords(bytes) = records[N]
  BY DEF ParseRecords, After, Fitting, AtStart
<1>2. AtStart \in V
  BY DEF AtStart, Progress
<1>3. ASSUME NEW n \in S, NEW g \in [S -> V] PROVE At(g, n) \in V
  <2>1. CASE n = 0
    BY <1>2, <2>1
  <2>2. CASE n # 0
    <3>1. n - 1 \in S
      BY <1>0, <2>2
    <3>2. g[n - 1] \in V
      BY <3>1
    <3>3. After(bytes, g[n - 1]) \in V
      BY <3>2, AfterIsProgress
    <3> QED BY <2>2, <3>3
  <2> QED BY <2>1, <2>2
<1>4. ASSUME NEW n \in S, NEW g \in [S -> V], NEW h \in [S -> V],
             \A m \in S : rank[m] < rank[n] => g[m] = h[m]
      PROVE  step[n][g] = step[n][h]
  <2>1. At(g, n) = At(h, n)
    <3>1. CASE n = 0
      BY <3>1
    <3>2. CASE n # 0
      <4>1. n - 1 \in S /\ n - 1 < n
        BY <1>0, <3>2
      <4>2. g[n - 1] = h[n - 1]
        BY <1>4, <4>1
      <4> QED BY <4>2
    <3> QED BY <3>1, <3>2
  <2> HIDE DEF At
  <2> QED BY <2>1
<1>5. Recursive(step, S, rank, V)
  <2>1. \A n \in S : \A g \in [S -> V] : step[n][g] \in V
    <3> HIDE DEF At, V
    <3> QED BY <1>3
  <2>2. rank \in [S -> Nat] /\ \A n \in S : rank[n] <= N
    BY <1>0
  <2> HIDE DEF step, S, rank, V, N
  <2> QED BY <1>0, <1>2, <1>4, <2>1, <2>2 DEF Recursive
<1>6. PICK f \in [S -> V] : \A n \in S : f[n] = step[n][f]
  <2> HIDE DEF step, S, rank, V
  <2> QED BY <1>5, RankRecursion
<1>7. f = [n \in S |-> At(f, n)]
  <2> HIDE DEF At, V
  <2> QED BY <1>6
<1>8. records = [n \in S |-> At(records, n)]
  <2> HIDE DEF At
  <2> QED BY <1>7, Zenon
<1>9. \A n \in S : records[n] = At(records, n)
  <2> HIDE DEF At, records
  <2> QED BY <1>8
<1>10. 0 \in S /\ \A n \in 1..N : n \in S /\ n # 0
  BY <1>0
<1> HIDE DEF records
<1> QED BY <1>1, <1>9, <1>10

RecordAfter(bytes, p) == p + 2 + bytes[p] + PayloadSize
Names(bytes, starts) == {NameAt(bytes, p) : p \in starts}
Chained(bytes, starts, end) ==
    {3} \cup {RecordAfter(bytes, p) : p \in starts} = starts \cup {end}
Sound(bytes, starts) ==
    \A p, q \in starts :
        /\ bytes[p] # 0
        /\ p # q => NameAt(bytes, p) # NameAt(bytes, q)

LEMMA ListedIs ==
  ASSUME NEW bytes
  PROVE  Listed(bytes) =
           IF Len(bytes) < 2 \/ bytes[1] # 1 \/ bytes[2] > MaxRecords THEN {}
           ELSE {Names(bytes, starts) :
                   starts \in {s \in Starts(bytes) : Sound(bytes, s)}}
BY DEF Listed, Sound, Names

\* What was read is a list as far as it was read.
ReadSoFar(bytes, r, n) ==
    /\ r.offset \in 2..Len(bytes)
    /\ \E starts \in SUBSET (3..r.offset) :
          /\ Cardinality(starts) = n
          /\ Chained(bytes, starts, r.offset + 1)
          /\ Sound(bytes, starts)
          /\ r.ids = Names(bytes, starts)

LEMMA ReadsOneMore ==
  ASSUME NEW bytes \in Seq(Nat), NEW n \in Nat, NEW progress,
         \A r \in progress : ReadSoFar(bytes, r, n),
         NEW q \in After(bytes, progress)
  PROVE  ReadSoFar(bytes, q, n + 1)
<1>1. PICK r \in progress :
         /\ RecordFits(bytes, r.offset)
         /\ RecordId(bytes, r.offset) \notin r.ids
         /\ q = [offset |-> NextRecord(bytes, r.offset),
                 ids |-> r.ids \cup {RecordId(bytes, r.offset)}]
  BY DEF After, Fitting
<1> DEFINE o == r.offset
           p == o + 1
           e == NextRecord(bytes, o)
<1>2. o \in 2..Len(bytes) /\ Len(bytes) \in Nat
  BY <1>1 DEF ReadSoFar
<1>3. PICK starts \in SUBSET (3..o) :
         /\ Cardinality(starts) = n
         /\ Chained(bytes, starts, o + 1)
         /\ Sound(bytes, starts)
         /\ r.ids = Names(bytes, starts)
  BY <1>1 DEF ReadSoFar
<1>4. /\ p \in 1..Len(bytes) /\ bytes[p] \in Nat /\ bytes[p] # 0
      /\ e \in Nat /\ e = o + 2 + bytes[p] + PayloadSize /\ e <= Len(bytes)
      /\ RecordId(bytes, o) = NameAt(bytes, p)
  <2>1. o \in Nat
    BY <1>2
  <2>2. RecordFits(bytes, o)
    BY <1>1
  <2> HIDE DEF o
  <2> QED BY <2>1, <2>2, FittingRecord
<1>5. q.offset = e /\ q.ids = Names(bytes, starts) \cup {NameAt(bytes, p)}
  BY <1>1, <1>3, <1>4
<1> DEFINE more == starts \cup {p}
<1> HIDE DEF o, e
<1>6. p \notin starts
  BY <1>2
<1>7. PayloadSize \in Nat
  BY LimitsAreNumbers
<1>8. Cardinality(more) = n + 1
  <2>1. IsFiniteSet(starts)
    <3>1. 3 \in Int /\ o \in Int
      BY <1>2
    <3>2. IsFiniteSet(3..o)
      BY <3>1, FS_Interval
    <3> QED BY <3>2, FS_Subset
  <2> QED BY <1>3, <1>6, <2>1, FS_AddElement
<1>9. more \in SUBSET (3..e) /\ e \in 2..Len(bytes)
  <2>1. p \in 3..e /\ o <= e /\ 2 <= e
    BY <1>2, <1>4, <1>7
  <2>2. \A s \in starts : s \in 3..e
    BY <1>2, <1>4, <2>1
  <2>3. e \in 2..Len(bytes)
    BY <1>2, <1>4, <2>1
  <2> QED BY <2>1, <2>2, <2>3
<1>10. RecordAfter(bytes, p) = e + 1
  <2> DEFINE b == bytes[p]
  <2>1. RecordAfter(bytes, p) = (o + 1) + 2 + b + PayloadSize
    BY DEF RecordAfter
  <2>2. b \in Nat /\ e = o + 2 + b + PayloadSize /\ o \in Nat
    BY <1>2, <1>4
  <2> HIDE DEF b
  <2> QED BY <1>7, <2>1, <2>2
<1>11. Chained(bytes, more, e + 1)
  <2>1. {RecordAfter(bytes, s) : s \in more}
           = {RecordAfter(bytes, s) : s \in starts} \cup {e + 1}
    BY <1>10
  <2>2. {3} \cup {RecordAfter(bytes, s) : s \in starts} = starts \cup {p}
    BY <1>3 DEF Chained
  <2> QED BY <2>1, <2>2 DEF Chained
<1>12. Names(bytes, more) = Names(bytes, starts) \cup {NameAt(bytes, p)}
  BY DEF Names
<1>13. NameAt(bytes, p) \notin Names(bytes, starts)
  BY <1>1, <1>3, <1>4 DEF o
<1>14. Sound(bytes, more)
  BY <1>3, <1>4, <1>13 DEF Sound, Names
<1> HIDE DEF more
<1>15. r.offset = o
  BY DEF o
<1> QED BY <1>5, <1>8, <1>9, <1>11, <1>12, <1>14 DEF ReadSoFar

LEMMA ReadIsListed ==
  ASSUME NEW bytes \in Seq(Nat), Len(bytes) >= 2
  PROVE  \A r \in ParseRecords(bytes) : ReadSoFar(bytes, r, bytes[2])
<1>1. PICK f : /\ ParseRecords(bytes) = f[bytes[2]]
               /\ f[0] = AtStart
               /\ \A n \in 1..bytes[2] : f[n] = After(bytes, f[n - 1])
  BY RecordsEquation
<1> DEFINE N == bytes[2]
           S == 0..N
           id == [n \in S |-> n]
           T == {n \in S : \A r \in f[n] : ReadSoFar(bytes, r, n)}
<1>2. N \in Nat
  <2>1. 2 \in 1..Len(bytes)
    OBVIOUS
  <2> QED BY <2>1
<1>3. ASSUME NEW n \in S, \A m \in S : id[m] < id[n] => m \in T
      PROVE  n \in T
  <2>1. CASE n = 0
    <3> DEFINE r == [offset |-> 2, ids |-> {}]
    <3>1. r.offset = 2 /\ r.ids = {}
      OBVIOUS
    <3>2. Cardinality({}) = 0
      BY FS_EmptySet
    <3>3. Chained(bytes, {}, 2 + 1)
      BY DEF Chained
    <3>4. Sound(bytes, {}) /\ Names(bytes, {}) = {}
      BY DEF Sound, Names
    <3>5. {} \in SUBSET (3..2)
      OBVIOUS
    <3>6. 2 \in 2..Len(bytes)
      OBVIOUS
    <3> HIDE DEF r
    <3>7. ReadSoFar(bytes, r, 0)
      BY <3>1, <3>2, <3>3, <3>4, <3>5, <3>6 DEF ReadSoFar
    <3>8. \A q \in f[0] : q = r
      BY <1>1 DEF AtStart, r
    <3> QED BY <2>1, <3>7, <3>8
  <2>2. CASE n # 0
    <3>1. n - 1 \in S /\ n - 1 < n /\ n \in 1..N /\ n - 1 \in Nat
      BY <1>2, <2>2
    <3>2. \A r \in f[n - 1] : ReadSoFar(bytes, r, n - 1)
      BY <1>3, <3>1
    <3>3. f[n] = After(bytes, f[n - 1])
      BY <1>1, <3>1
    <3>4. \A q \in f[n] : ReadSoFar(bytes, q, (n - 1) + 1)
      BY <3>1, <3>2, <3>3, ReadsOneMore
    <3>5. (n - 1) + 1 = n
      BY <1>2
    <3> QED BY <3>4, <3>5
  <2> QED BY <2>1, <2>2
<1>4. S \subseteq T
  <2>1. id \in [S -> Nat]
    BY <1>2
  <2> HIDE DEF S, T, id
  <2> QED BY <1>3, <2>1, RankInduction
<1>5. N \in S
  BY <1>2
<1> QED BY <1>1, <1>4, <1>5

LEMMA ParsedIsListed ==
  ASSUME NEW bytes \in Seq(Nat)
  PROVE  ParseFurnitureInfo(bytes) \subseteq Listed(bytes)
<1>1. CASE Len(bytes) >= 2 /\ bytes[1] = 1 /\ bytes[2] <= MaxRecords
  <2>1. ASSUME NEW r \in ParseRecords(bytes), r.offset = Len(bytes)
        PROVE  r.ids \in Listed(bytes)
    <3>1. ReadSoFar(bytes, r, bytes[2])
      BY <1>1, ReadIsListed
    <3>2. PICK starts \in SUBSET (3..Len(bytes)) :
             /\ Cardinality(starts) = bytes[2]
             /\ Chained(bytes, starts, Len(bytes) + 1)
             /\ Sound(bytes, starts)
             /\ r.ids = Names(bytes, starts)
      BY <2>1, <3>1 DEF ReadSoFar
    <3>3. starts \in Starts(bytes)
      BY <3>2 DEF Starts, Chained, RecordAfter
    <3>4. ~(Len(bytes) < 2 \/ bytes[1] # 1 \/ bytes[2] > MaxRecords)
      <4>1. 2 \in 1..Len(bytes) /\ Len(bytes) \in Nat
        BY <1>1
      <4>2. bytes[2] \in Nat /\ MaxRecords \in Nat
        BY <4>1, LimitsAreNumbers
      <4> QED BY <1>1, <4>1, <4>2
    <3> QED BY <3>2, <3>3, <3>4, ListedIs
  <2> QED BY <1>1, <2>1 DEF ParseFurnitureInfo
<1>2. CASE ~(Len(bytes) >= 2 /\ bytes[1] = 1 /\ bytes[2] <= MaxRecords)
  BY <1>2 DEF ParseFurnitureInfo
<1> QED BY <1>1, <1>2

UpTo(starts, o) == {p \in starts : p <= o}

\* The loop stands before a record of the list, or behind the last one.
Stands(bytes, starts, o, n) ==
    /\ o \in 2..Len(bytes)
    /\ o + 1 \in starts \cup {Len(bytes) + 1}
    /\ Cardinality(UpTo(starts, o)) = n
    /\ \A p \in starts : p <= o => RecordAfter(bytes, p) <= o + 1

LEMMA StartsAre ==
  ASSUME NEW bytes \in Seq(Nat), Len(bytes) >= 2, NEW starts \in Starts(bytes)
  PROVE  /\ starts \in SUBSET (3..Len(bytes)) /\ IsFiniteSet(starts)
         /\ Cardinality(starts) = bytes[2] /\ bytes[2] \in Nat
         /\ Len(bytes) \in Nat
         /\ Chained(bytes, starts, Len(bytes) + 1)
         /\ \A p \in starts : p \in 3..Len(bytes) /\ bytes[p] \in Nat
<1>1. /\ starts \in SUBSET (3..Len(bytes))
      /\ Cardinality(starts) = bytes[2]
      /\ Chained(bytes, starts, Len(bytes) + 1)
  BY DEF Starts, Chained, RecordAfter
<1>2. Len(bytes) \in Nat /\ bytes[2] \in Nat
  <2>1. 2 \in 1..Len(bytes)
    OBVIOUS
  <2> QED BY <2>1
<1>3. IsFiniteSet(starts)
  <2>1. 3 \in Int /\ Len(bytes) \in Int
    BY <1>2
  <2>2. IsFiniteSet(3..Len(bytes))
    BY <2>1, FS_Interval
  <2> QED BY <1>1, <2>2, FS_Subset
<1>4. \A p \in starts : p \in 3..Len(bytes) /\ bytes[p] \in Nat
  <2> SUFFICES ASSUME NEW p \in starts
               PROVE  p \in 3..Len(bytes) /\ bytes[p] \in Nat
    OBVIOUS
  <2>1. p \in 3..Len(bytes) /\ p \in 1..Len(bytes)
    BY <1>1, <1>2
  <2> QED BY <2>1
<1> QED BY <1>1, <1>2, <1>3, <1>4

LEMMA StandsAtStart ==
  ASSUME NEW bytes \in Seq(Nat), Len(bytes) >= 2, NEW starts \in Starts(bytes)
  PROVE  Stands(bytes, starts, 2, 0) /\ UpTo(starts, 2) = {}
<1>1. \A p \in starts : p \in 3..Len(bytes)
  BY StartsAre
<1>2. UpTo(starts, 2) = {}
  BY <1>1 DEF UpTo
<1>3. 2 + 1 \in starts \cup {Len(bytes) + 1}
  BY StartsAre DEF Chained
<1>4. 2 \in 2..Len(bytes)
  BY StartsAre
<1>5. \A p \in starts : ~(p <= 2)
  BY <1>1
<1> QED BY <1>2, <1>3, <1>4, <1>5, FS_EmptySet DEF Stands

\* No record starts within another.
LEMMA StepsToNext ==
  ASSUME NEW bytes \in Seq(Nat), Len(bytes) >= 2, NEW starts \in Starts(bytes),
         NEW o, NEW n \in Nat, Stands(bytes, starts, o, n), n < bytes[2]
  PROVE  LET p == o + 1
             e == RecordAfter(bytes, p) - 1
         IN  /\ p \in starts
             /\ Stands(bytes, starts, e, n + 1)
             /\ UpTo(starts, e) = UpTo(starts, o) \cup {p}
             /\ p \notin UpTo(starts, o)
             /\ e = o + 2 + bytes[p] + PayloadSize
<1> DEFINE p == o + 1
           next == RecordAfter(bytes, p)
           e == next - 1
           L == Len(bytes)
<1>1. /\ starts \in SUBSET (3..L) /\ IsFiniteSet(starts)
      /\ Cardinality(starts) = bytes[2] /\ bytes[2] \in Nat /\ L \in Nat
      /\ Chained(bytes, starts, L + 1)
      /\ \A q \in starts : q \in 3..L /\ bytes[q] \in Nat
  BY StartsAre
<1>2. /\ o \in 2..L /\ p \in starts \cup {L + 1}
      /\ Cardinality(UpTo(starts, o)) = n
      /\ \A q \in starts : q <= o => RecordAfter(bytes, q) <= p
  BY DEF Stands
<1>3. p \in starts
  <2>1. ASSUME p = L + 1 PROVE FALSE
    <3>1. \A q \in starts : q <= o
      BY <1>1, <1>2, <2>1
    <3>2. UpTo(starts, o) = starts
      BY <3>1 DEF UpTo
    <3> QED BY <1>1, <1>2, <3>2
  <2> QED BY <1>2, <2>1
<1>4. PayloadSize \in Nat
  BY LimitsAreNumbers
<1>5. \A q \in starts : /\ RecordAfter(bytes, q) \in Nat
                        /\ RecordAfter(bytes, q) >= q + 2
                        /\ RecordAfter(bytes, q) \in starts \cup {L + 1}
  <2> SUFFICES ASSUME NEW q \in starts
               PROVE  /\ RecordAfter(bytes, q) \in Nat
                      /\ RecordAfter(bytes, q) >= q + 2
                      /\ RecordAfter(bytes, q) \in starts \cup {L + 1}
    OBVIOUS
  <2> DEFINE b == bytes[q]
  <2>1. b \in Nat /\ q \in Nat
    BY <1>1
  <2>2. RecordAfter(bytes, q) = q + 2 + b + PayloadSize
    BY DEF RecordAfter
  <2>3. RecordAfter(bytes, q) \in starts \cup {L + 1}
    BY <1>1 DEF Chained
  <2> HIDE DEF b
  <2> QED BY <1>4, <2>1, <2>2, <2>3
<1>6. next = o + 1 + 2 + bytes[p] + PayloadSize /\ bytes[p] \in Nat
  BY <1>1, <1>3 DEF RecordAfter
<1> HIDE DEF next
<1>7. /\ next \in Nat /\ next >= p + 2 /\ next \in starts \cup {L + 1}
      /\ next <= L + 1 /\ e + 1 = next /\ e \in 2..L /\ o < e /\ p <= e
      /\ o \in Nat
  <2>1. next \in Nat /\ next >= p + 2 /\ next \in starts \cup {L + 1}
    BY <1>3, <1>5 DEF next
  <2>2. next <= L + 1
    BY <1>1, <2>1
  <2> QED BY <1>1, <1>2, <2>1, <2>2
<1>8. \A q \in starts : ~(p < q /\ q < next)
  <2> DEFINE Q == {q \in starts : p < q /\ q < next}
  <2>1. Q \in SUBSET Nat
    <3>1. \A q \in starts : q \in Nat
      BY <1>1
    <3> QED BY <3>1
  <2>2. ASSUME NEW k \in Q PROVE FALSE
    <3>1. PICK q \in Q : \A m \in Q : q <= m
      <4> HIDE DEF Q
      <4> QED BY <2>1, <2>2, LeastNumber
    <3>2. q \in starts /\ p < q /\ q < next /\ q \in 3..L
      BY <1>1, <3>1
    <3>3. q # 3
      BY <1>2, <3>2
    <3>4. PICK r \in starts : q = RecordAfter(bytes, r)
      BY <1>1, <3>2, <3>3 DEF Chained
    <3>5. r < q /\ r \in Nat
      BY <1>1, <1>5, <3>2, <3>4
    <3>6. CASE r <= o
      BY <1>2, <1>7, <3>2, <3>4, <3>6
    <3>7. CASE r = p
      BY <3>2, <3>4, <3>7 DEF next
    <3>8. CASE r > p
      <4>1. r \in Q
        BY <1>7, <3>2, <3>5, <3>8
      <4>2. q <= r
        BY <3>1, <4>1
      <4> QED BY <3>2, <3>5, <4>2
    <3> QED BY <1>7, <3>5, <3>6, <3>7, <3>8
  <2> QED BY <2>2
<1>9. UpTo(starts, e) = UpTo(starts, o) \cup {p}
  <2>1. \A q \in starts : q <= e <=> q <= o \/ q = p
    <3> SUFFICES ASSUME NEW q \in starts
                 PROVE  q <= e <=> q <= o \/ q = p
      OBVIOUS
    <3>1. q \in Nat /\ ~(p < q /\ q < next)
      BY <1>1, <1>8
    <3> QED BY <1>7, <3>1
  <2> HIDE DEF e, p
  <2> QED BY <1>3, <2>1 DEF UpTo
<1>10. p \notin UpTo(starts, o)
  BY <1>7 DEF UpTo
<1>11. Cardinality(UpTo(starts, e)) = n + 1
  <2>1. IsFiniteSet(UpTo(starts, o))
    BY <1>1, FS_Subset DEF UpTo
  <2> QED BY <1>2, <1>9, <1>10, <2>1, FS_AddElement
<1>12. \A q \in starts : q <= e => RecordAfter(bytes, q) <= e + 1
  <2> SUFFICES ASSUME NEW q \in starts, q <= e
               PROVE  RecordAfter(bytes, q) <= e + 1
    OBVIOUS
  <2>1. q \in UpTo(starts, o) \cup {p}
    BY <1>9 DEF UpTo
  <2>2. CASE q = p
    BY <1>7, <2>2 DEF next
  <2>3. CASE q \in UpTo(starts, o)
    <3>1. RecordAfter(bytes, q) <= p /\ RecordAfter(bytes, q) \in Nat
      BY <1>2, <1>5, <2>3 DEF UpTo
    <3> QED BY <1>7, <3>1
  <2> QED BY <2>1, <2>2, <2>3
<1>13. Stands(bytes, starts, e, n + 1)
  BY <1>7, <1>11, <1>12 DEF Stands
<1>14. e = o + 2 + bytes[p] + PayloadSize
  <2> DEFINE b == bytes[p]
  <2>1. b \in Nat /\ next = o + 1 + 2 + b + PayloadSize
    BY <1>6
  <2> HIDE DEF b
  <2>2. e = o + 2 + b + PayloadSize
    BY <1>4, <1>7, <2>1
  <2> QED BY <2>2 DEF b
<1> QED BY <1>3, <1>9, <1>10, <1>13, <1>14 DEF next

Reads(bytes, starts, progress, n) ==
    \E o : /\ Stands(bytes, starts, o, n)
           /\ progress = {[offset |-> o,
                           ids |-> Names(bytes, UpTo(starts, o))]}

LEMMA ReadsNext ==
  ASSUME NEW bytes \in Seq(Nat), Len(bytes) >= 2, NEW starts \in Starts(bytes),
         Sound(bytes, starts), NEW n \in Nat, n < bytes[2],
         NEW progress, Reads(bytes, starts, progress, n)
  PROVE  Reads(bytes, starts, After(bytes, progress), n + 1)
<1>1. PICK o : /\ Stands(bytes, starts, o, n)
               /\ progress = {[offset |-> o,
                               ids |-> Names(bytes, UpTo(starts, o))]}
  BY DEF Reads
<1> DEFINE p == o + 1
           e == RecordAfter(bytes, p) - 1
           ids == Names(bytes, UpTo(starts, o))
<1>2. /\ p \in starts /\ Stands(bytes, starts, e, n + 1)
      /\ UpTo(starts, e) = UpTo(starts, o) \cup {p}
      /\ p \notin UpTo(starts, o)
      /\ e = o + 2 + bytes[p] + PayloadSize
  BY <1>1, StepsToNext
<1>3. o \in 2..Len(bytes) /\ e \in 2..Len(bytes)
  BY <1>1, <1>2 DEF Stands
<1>4. Len(bytes) \in Nat /\ bytes[p] \in Nat /\ PayloadSize \in Nat
  BY <1>2, StartsAre, LimitsAreNumbers
<1>5. bytes[p] # 0
  BY <1>2 DEF Sound
<1>6. NextRecord(bytes, o) = e
  BY <1>2 DEF NextRecord
<1>7. RecordFits(bytes, o)
  <2> DEFINE b == bytes[p]
  <2>1. b \in Nat /\ b # 0 /\ e = o + 2 + b + PayloadSize
    BY <1>2, <1>4, <1>5
  <2>2. bytes[o + 1] = b
    OBVIOUS
  <2> HIDE DEF b, e
  <2>3. /\ Len(bytes) - o >= 2
        /\ Len(bytes) - (o + 2) >= b
        /\ Len(bytes) - (o + 2) - b >= PayloadSize
    BY <1>3, <1>4, <2>1
  <2> QED BY <2>1, <2>2, <2>3 DEF RecordFits
<1>8. RecordId(bytes, o) = NameAt(bytes, p)
  <2>1. o \in Nat
    BY <1>3
  <2> QED BY <1>7, <2>1, FittingRecord
<1>9. NameAt(bytes, p) \notin ids
  <2>1. UpTo(starts, o) \subseteq starts
    BY DEF UpTo
  <2> QED BY <1>2, <2>1 DEF Sound, Names
<1>10. Names(bytes, UpTo(starts, e)) = ids \cup {NameAt(bytes, p)}
  BY <1>2 DEF Names
<1>11. After(bytes, progress)
         = {[offset |-> e, ids |-> Names(bytes, UpTo(starts, e))]}
  <2> DEFINE r == [offset |-> o, ids |-> ids]
  <2>1. r.offset = o /\ r.ids = ids
    OBVIOUS
  <2>2. progress = {r}
    BY <1>1
  <2> HIDE DEF r, ids, e, p
  <2>3. Fitting(bytes, progress) = {r}
    BY <1>7, <1>8, <1>9, <2>1, <2>2 DEF Fitting
  <2> QED BY <1>6, <1>8, <1>10, <2>1, <2>3 DEF After
<1> QED BY <1>2, <1>11 DEF Reads

LEMMA ListedIsParsed ==
  ASSUME NEW bytes \in Seq(Nat)
  PROVE  \A ids \in Listed(bytes) : ParseFurnitureInfo(bytes) = {ids}
<1> SUFFICES ASSUME NEW ids \in Listed(bytes)
             PROVE  ParseFurnitureInfo(bytes) = {ids}
  OBVIOUS
<1>1. ~(Len(bytes) < 2 \/ bytes[1] # 1 \/ bytes[2] > MaxRecords)
  BY ListedIs
<1>2. PICK starts \in Starts(bytes) :
         Sound(bytes, starts) /\ ids = Names(bytes, starts)
  BY <1>1, ListedIs
<1>3. Len(bytes) >= 2 /\ Len(bytes) \in Nat
  BY <1>1
<1> DEFINE N == bytes[2]
<1>4. N \in Nat /\ N <= MaxRecords /\ bytes[1] = 1
  BY <1>1, <1>3, StartsAre, LimitsAreNumbers
<1>5. PICK f : /\ ParseRecords(bytes) = f[N]
               /\ f[0] = AtStart
               /\ \A n \in 1..N : f[n] = After(bytes, f[n - 1])
  BY <1>3, RecordsEquation
<1> DEFINE S == 0..N
           id == [n \in S |-> n]
           T == {n \in S : Reads(bytes, starts, f[n], n)}
<1>6. ASSUME NEW n \in S, \A m \in S : id[m] < id[n] => m \in T
      PROVE  n \in T
  <2>1. CASE n = 0
    <3>1. Stands(bytes, starts, 2, 0) /\ UpTo(starts, 2) = {}
      BY <1>3, StandsAtStart
    <3>2. Names(bytes, UpTo(starts, 2)) = {}
      BY <3>1 DEF Names
    <3>3. Reads(bytes, starts, f[0], 0)
      BY <1>5, <3>1, <3>2 DEF Reads, AtStart
    <3> QED BY <2>1, <3>3
  <2>2. CASE n # 0
    <3>1. /\ n - 1 \in S /\ n - 1 < n /\ n \in 1..N /\ n - 1 \in Nat
          /\ n - 1 < N /\ (n - 1) + 1 = n
      BY <1>4, <2>2
    <3>2. Reads(bytes, starts, f[n - 1], n - 1)
      BY <1>6, <3>1
    <3>3. Reads(bytes, starts, After(bytes, f[n - 1]), (n - 1) + 1)
      BY <1>2, <1>3, <3>1, <3>2, ReadsNext
    <3> QED BY <1>5, <3>1, <3>3
  <2> QED BY <2>1, <2>2
<1>7. S \subseteq T
  <2>1. id \in [S -> Nat]
    BY <1>4
  <2> HIDE DEF S, T, id
  <2> QED BY <1>6, <2>1, RankInduction
<1>8. Reads(bytes, starts, f[N], N)
  <2>1. N \in S
    BY <1>4
  <2> QED BY <1>7, <2>1
<1>9. PICK o : /\ Stands(bytes, starts, o, N)
               /\ f[N] = {[offset |-> o,
                           ids |-> Names(bytes, UpTo(starts, o))]}
  BY <1>8 DEF Reads
<1>10. UpTo(starts, o) = starts
  <2>1. UpTo(starts, o) \subseteq starts
    BY DEF UpTo
  <2>2. Cardinality(UpTo(starts, o)) = Cardinality(starts)
    BY <1>3, <1>9, StartsAre DEF Stands
  <2> QED BY <1>3, <2>1, <2>2, StartsAre, FS_Subset
<1>11. o = Len(bytes)
  <2>1. o + 1 \notin starts
    <3>1. o \in Nat
      BY <1>9 DEF Stands
    <3>2. o + 1 \notin UpTo(starts, o)
      BY <3>1 DEF UpTo
    <3> QED BY <1>10, <3>2
  <2>2. o + 1 = Len(bytes) + 1 /\ o \in Int
    BY <1>9, <2>1 DEF Stands
  <2> QED BY <1>3, <2>2
<1>12. ParseRecords(bytes) = {[offset |-> Len(bytes), ids |-> ids]}
  BY <1>2, <1>5, <1>9, <1>10, <1>11
<1> QED
  <2> DEFINE r == [offset |-> Len(bytes), ids |-> ids]
  <2>1. r.offset = Len(bytes) /\ r.ids = ids
    OBVIOUS
  <2> HIDE DEF r
  <2>2. ParseRecords(bytes) = {r}
    BY <1>12 DEF r
  <2> QED BY <1>3, <1>4, <2>1, <2>2 DEF ParseFurnitureInfo

(***************************************************************************)
(* ParseFurnitureInfo: the records that are read are the one way to divide *)
(* the file into records, and none are read exactly when there is none.    *)
(* (catalog.cpp:227-255)                                                   *)
(***************************************************************************)
THEOREM ListIsRead ==
  ASSUME NEW bytes \in Seq(Nat)
  PROVE  ParseFurnitureInfo(bytes) = Listed(bytes)
<1>1. CASE Listed(bytes) = {}
  BY <1>1, ParsedIsListed
<1>2. CASE Listed(bytes) # {}
  <2>1. PICK ids \in Listed(bytes) : TRUE
    BY <1>2
  <2>2. \A other \in Listed(bytes) : ParseFurnitureInfo(bytes) = {other}
    BY ListedIsParsed
  <2>3. ParseFurnitureInfo(bytes) = {ids} /\ Listed(bytes) \subseteq {ids}
    BY <2>1, <2>2
  <2> QED BY <2>1, <2>3
<1> QED BY <1>1, <1>2
=============================================================================
