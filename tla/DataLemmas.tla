------------------------------ MODULE DataLemmas ------------------------------
(***************************************************************************)
(* Facts about numbers, finite sets and sequences that the proofs about    *)
(* several components cite.  Nothing here is about the debugger.           *)
(***************************************************************************)
EXTENDS Integers, FiniteSets, SequencesExt,
        FiniteSetTheorems, FunctionTheorems, SequenceTheorems, WellFoundedInduction, TLAPS

\* The least number principle.  What a recursive function computes is proved
\* with it: the least argument at which a statement fails does not exist.
LEMMA LeastNumber ==
  ASSUME NEW T \in SUBSET Nat, T # {}
  PROVE  \E n \in T : \A m \in T : n <= m
<1> DEFINE R == OpToRel(<, Nat)
<1>1. IsWellFoundedOn(R, Nat)
  BY NatLessThanWellFounded, Zenon
<1>2. PICK n \in T : \A m \in T : <<m, n>> \notin R
  <2> HIDE DEF R
  <2> QED
    BY <1>1, WFMin
<1>3. \A m \in T : ~ (m < n)
  BY <1>2 DEF OpToRel
<1> QED
  BY <1>3

\* The least of some numbers.
LEMMA LeastIs ==
  ASSUME NEW T \in SUBSET Int, NEW k \in T, \A j \in T : k <= j
  PROVE  Min(T) = k
<1> DEFINE c == CHOOSE i \in T : \A j \in T : i <= j
<1>1. c \in T /\ \A j \in T : c <= j
  BY Zenon
<1>2. Min(T) = c
  BY DEF Min
<1> HIDE DEF c
<1>3. c \in Int /\ k \in Int /\ c <= k /\ k <= c
  BY <1>1
<1> QED
  BY <1>2, <1>3

\* A set of numbers up to n that is not empty has a greatest member.
LEMMA GreatestNumber ==
  ASSUME NEW n \in Nat, NEW T \in SUBSET (0 .. n), T # {}
  PROVE  \E k \in T : \A m \in T : m <= k
<1> DEFINE R == {n - k : k \in T}
<1>1. R \in SUBSET Nat /\ R # {}
  <2>1. PICK k \in T : TRUE
    OBVIOUS
  <2>2. n - k \in R
    OBVIOUS
  <2>3. \A m \in R : m \in Nat
    OBVIOUS
  <2> HIDE DEF R
  <2> QED
    BY <2>2, <2>3
<1>2. PICK l \in R : \A m \in R : l <= m
  <2> HIDE DEF R
  <2> QED
    BY <1>1, LeastNumber
<1>3. PICK k \in T : l = n - k
  OBVIOUS
<1>4. ASSUME NEW m \in T
      PROVE  m <= k
  <2>1. n - m \in R
    OBVIOUS
  <2>2. n - k <= n - m
    BY <1>2, <1>3, <2>1
  <2>3. k \in Int /\ m \in Int
    OBVIOUS
  <2> QED
    BY <2>2, <2>3
<1> QED
  BY <1>4

\* What holds at the start, and at each place if it holds at the one before, holds at
\* the end.
LEMMA UpToTheEnd ==
  ASSUME NEW n \in Nat, NEW G, 0 \in G, \A i \in 1 .. n : i - 1 \in G => i \in G
  PROVE  n \in G
<1> DEFINE T == {i \in 0 .. n : i \notin G}
<1>1. ASSUME T # {}
      PROVE  FALSE
  <2>1. PICK i \in T : \A j \in T : i <= j
    <3>1. T \in SUBSET Nat
      OBVIOUS
    <3> HIDE DEF T
    <3> QED
      BY <1>1, <3>1, LeastNumber
  <2>2. i \in 0 .. n /\ i \notin G /\ i # 0
    OBVIOUS
  <2>3. i \in 1 .. n /\ i - 1 \in 0 .. n /\ ~ (i <= i - 1)
    BY <2>2
  <2>4. i - 1 \in G
    BY <2>1, <2>3
  <2> QED
    BY <2>2, <2>3, <2>4
<1>2. n \in 0 .. n
  OBVIOUS
<1> QED
  BY <1>1, <1>2

-----------------------------------------------------------------------------
\* RemoveAt closes the gap: the entries before it stay, the others move up.
LEMMA RemoveAtProperties ==
  ASSUME NEW S, NEW s \in Seq(S), NEW i \in DOMAIN s
  PROVE  /\ RemoveAt(s, i) \in Seq(S)
         /\ DOMAIN RemoveAt(s, i) = 1 .. Len(s) - 1
         /\ Len(RemoveAt(s, i)) = Len(s) - 1
         /\ \A j \in 1 .. Len(s) - 1 :
              RemoveAt(s, i)[j] = IF j < i THEN s[j] ELSE s[j + 1]
<1> DEFINE front == SubSeq(s, 1, i - 1)
           back == SubSeq(s, i + 1, Len(s))
           r == front \o back
<1>1. DOMAIN s = 1 .. Len(s) /\ Len(s) \in Nat /\ i \in 1 .. Len(s) /\ i \in Nat
  OBVIOUS
<1>2. RemoveAt(s, i) = r
  BY DEF RemoveAt
<1>3. /\ front \in Seq(S) /\ Len(front) = i - 1
      /\ \A j \in 1 .. i - 1 : front[j] = s[j]
  BY <1>1, SubSeqProperties
<1>4. /\ back \in Seq(S) /\ Len(back) = Len(s) - i
      /\ \A j \in 1 .. Len(s) - i : back[j] = s[i + j]
  <2>1. CASE i = Len(s)
    BY <1>1, <2>1
  <2>2. CASE i < Len(s)
    BY <1>1, <2>2, SubSeqProperties
  <2> QED
    BY <1>1, <2>1, <2>2
<1> HIDE DEF front, back
<1>5. r \in Seq(S) /\ Len(r) = Len(s) - 1
  <2>1. r \in Seq(S) /\ Len(r) = Len(front) + Len(back)
    BY <1>3, <1>4, ConcatProperties
  <2> QED
    BY <1>1, <1>3, <1>4, <2>1
<1>6. ASSUME NEW j \in 1 .. Len(s) - 1
      PROVE  r[j] = IF j < i THEN s[j] ELSE s[j + 1]
  <2>1. ASSUME j < i
        PROVE  r[j] = s[j]
    <3>1. j \in 1 .. Len(front) + Len(back) /\ j <= Len(front)
      BY <1>1, <1>3, <1>4, <2>1
    <3>2. r[j] = front[j]
      BY <1>3, <1>4, <3>1, ConcatProperties
    <3> QED
      BY <1>1, <1>3, <2>1, <3>2
  <2>2. ASSUME j >= i
        PROVE  r[j] = s[j + 1]
    <3>1. j \in 1 .. Len(front) + Len(back) /\ ~ (j <= Len(front))
      BY <1>1, <1>3, <1>4, <2>2
    <3>2. r[j] = back[j - Len(front)]
      <4>1. /\ front \in Seq(S) /\ back \in Seq(S)
            /\ j \in 1 .. Len(front) + Len(back) /\ ~ (j <= Len(front))
        BY <1>3, <1>4, <3>1
      <4> QED
        BY ONLY <4>1, ConcatProperties
    <3>3. j - (i - 1) \in 1 .. Len(s) - i /\ i + (j - (i - 1)) = j + 1
      BY <1>1, <2>2
    <3>4. back[j - (i - 1)] = s[i + (j - (i - 1))]
      BY <1>4, <3>3
    <3> QED
      BY <1>1, <1>3, <2>2, <3>2, <3>3, <3>4
  <2>3. j < i \/ j >= i
    BY <1>1
  <2> HIDE DEF r
  <2> QED
    BY <1>1, <2>1, <2>2, <2>3
<1> HIDE DEF r
<1>7. Len(r) \in Nat /\ DOMAIN r = 1 .. Len(r)
  BY <1>5
<1> QED
  BY <1>1, <1>2, <1>5, <1>6, <1>7

-----------------------------------------------------------------------------
\* Every rank from 1 to its size is that of a member of a finite set of numbers.
LEMMA EveryRankIsTaken ==
  ASSUME NEW n \in Nat, NEW S \in SUBSET (1 .. n), NEW k \in 1 .. Cardinality(S)
  PROVE  \E i \in S : Cardinality({j \in S : j <= i}) = k
<1> DEFINE Below(U, i) == {j \in U : j <= i}
           Taken(m) == \A U \in SUBSET (1 .. m) : \A c \in 1 .. Cardinality(U) :
                         \E i \in U : Cardinality(Below(U, i)) = c
           T == {m \in Nat : ~ Taken(m)}
<1>1. ASSUME T # {}
      PROVE  FALSE
  <2>1. PICK m \in T : \A l \in T : m <= l
    BY <1>1, LeastNumber
  <2>2. PICK U \in SUBSET (1 .. m) : \E c \in 1 .. Cardinality(U) :
          \A i \in U : Cardinality(Below(U, i)) # c
    BY <2>1
  <2>3. PICK c \in 1 .. Cardinality(U) : \A i \in U : Cardinality(Below(U, i)) # c
    BY <2>2
  <2> HIDE DEF Below
  <2>4. m \in Nat /\ \A j \in U : j \in Nat /\ 1 <= j /\ j <= m
    OBVIOUS
  <2>5. IsFiniteSet(U)
    <3>1. IsFiniteSet(1 .. m)
      BY <2>4, FS_Interval
    <3> QED
      BY <3>1, FS_Subset
  <2>6. Cardinality(U) \in Nat
    BY <2>5, FS_CardinalityType
  <2>7. m # 0
    <3>1. Cardinality(U) # 0
      BY <2>6
    <3>2. PICK j \in U : TRUE
      BY <3>1, FS_EmptySet
    <3> QED
      BY <2>4, <3>2
  <2>8. Taken(m - 1)
    <3>1. m - 1 \in Nat /\ ~ (m <= m - 1)
      BY <2>4, <2>7
    <3> HIDE DEF Taken
    <3> QED
      BY <2>1, <3>1
  <2> DEFINE V == U \ {m}
  <2>9. V \in SUBSET (1 .. m - 1)
    BY <2>4
  <2>10. CASE m \notin U
    <3>1. U \in SUBSET (1 .. m - 1)
      BY <2>9, <2>10
    <3> QED
      BY <2>3, <2>8, <3>1
  <2>11. CASE m \in U
    <3>1. Cardinality(V) = Cardinality(U) - 1
      BY <2>5, <2>11, FS_RemoveElement
    <3>2. CASE c = Cardinality(U)
      <4>1. Below(U, m) = U
        BY <2>4 DEF Below
      <4> QED
        BY <2>3, <2>11, <3>2, <4>1
    <3>3. CASE c # Cardinality(U)
      <4>1. c \in 1 .. Cardinality(V)
        BY <2>6, <3>1, <3>3
      <4>2. PICK i \in V : Cardinality(Below(V, i)) = c
        BY <2>8, <2>9, <4>1
      <4>3. Below(V, i) = Below(U, i)
        BY <2>4 DEF Below
      <4> QED
        BY <2>3, <4>2, <4>3
    <3> QED
      BY <3>2, <3>3
  <2> QED
    BY <2>10, <2>11
<1>2. Taken(n)
  <2> HIDE DEF Taken
  <2> QED
    BY <1>1
<1> QED
  BY <1>2

\* The rank of a, counted from the greatest member of S down.
RankFromTop(S, a) == Cardinality({b \in S : a <= b})

\* Counted so every rank is taken, too.
LEMMA EveryRankFromTopIsTaken ==
  ASSUME NEW n \in Nat, NEW S \in SUBSET (0 .. n), NEW k \in 1 .. Cardinality(S)
  PROVE  \E a \in S : RankFromTop(S, a) = k
<1> DEFINE R == {n + 1 - b : b \in S}
           mirror == [b \in S |-> n + 1 - b]
<1>1. IsFiniteSet(S) /\ S \subseteq Int
  <2>1. IsFiniteSet(0 .. n)
    BY FS_Interval
  <2>2. IsFiniteSet(S)
    BY <2>1, FS_Subset
  <2> QED
    BY <2>2
<1>2. mirror \in Bijection(S, R)
  <2>1. mirror \in [S -> R] /\ \A t \in R : \E b \in S : mirror[b] = t
    OBVIOUS
  <2>2. \A a, b \in S : mirror[a] = mirror[b] => a = b
    BY <1>1
  <2> HIDE DEF mirror, R
  <2> QED
    BY <2>1, <2>2, Fun_IsBij
<1>3. Cardinality(R) = Cardinality(S) /\ R \in SUBSET (1 .. n + 1)
  <2>1. R \in SUBSET (1 .. n + 1)
    BY <1>1
  <2> HIDE DEF mirror, R
  <2> QED
    BY <1>1, <1>2, <2>1, FS_Bijection DEF ExistsBijection
<1>4. PICK i \in R : Cardinality({j \in R : j <= i}) = k
  <2>1. k \in 1 .. Cardinality(R) /\ n + 1 \in Nat
    BY <1>3
  <2> HIDE DEF R
  <2> QED
    BY <1>3, <2>1, EveryRankIsTaken
<1>5. PICK a \in S : i = n + 1 - a
  OBVIOUS
<1> DEFINE A == {b \in S : a <= b}
           B == {j \in R : j <= i}
           m == [b \in A |-> n + 1 - b]
<1>6. m \in Bijection(A, B)
  <2>1. m \in [A -> B]
    BY <1>1, <1>5
  <2>2. ASSUME NEW t \in B
        PROVE  \E b \in A : m[b] = t
    <3>1. PICK b \in S : t = n + 1 - b
      OBVIOUS
    <3>2. b \in A
      BY <1>1, <1>5, <3>1
    <3> QED
      BY <3>1, <3>2
  <2>3. \A b, c \in A : m[b] = m[c] => b = c
    <3>1. \A b \in A : b \in Int /\ m[b] = n + 1 - b
      BY <1>1
    <3> HIDE DEF m, A
    <3> QED
      BY <3>1
  <2> HIDE DEF m, A, B
  <2> QED
    BY <2>1, <2>2, <2>3, Fun_IsBij
<1>7. IsFiniteSet(A) /\ A \in SUBSET S
  BY <1>1, FS_Subset
<1>8. Cardinality(B) = Cardinality(A)
  <2> HIDE DEF m, A, B
  <2> QED
    BY <1>6, <1>7, FS_Bijection DEF ExistsBijection
<1> QED
  BY <1>4, <1>8 DEF RankFromTop

\* A greater member of a finite set of numbers has a greater rank.
LEMMA RanksIncrease ==
  ASSUME NEW n \in Nat, NEW S \in SUBSET (1 .. n), NEW i \in S
  PROVE  /\ Cardinality({j \in S : j <= i}) \in 1 .. Cardinality(S)
         /\ \A h \in S : i < h =>
              Cardinality({j \in S : j <= i}) < Cardinality({j \in S : j <= h})
<1> DEFINE Below(h) == {j \in S : j <= h}
<1>1. \A j \in S : j \in Nat
  OBVIOUS
<1>2. IsFiniteSet(S)
  <2>1. IsFiniteSet(1 .. n)
    BY FS_Interval
  <2> QED
    BY <2>1, FS_Subset
<1>3. ASSUME NEW h \in S
      PROVE  Below(h) \in SUBSET S /\ IsFiniteSet(Below(h))
             /\ Cardinality(Below(h)) \in Nat
  BY <1>2, FS_Subset, FS_CardinalityType
<1>4. i \in Below(i)
  BY <1>1
<1>5. Cardinality(Below(i)) # 0
  BY <1>3, <1>4, FS_EmptySet
<1>6. Cardinality(Below(i)) <= Cardinality(S) /\ Cardinality(S) \in Nat
  BY <1>2, <1>3, FS_Subset, FS_CardinalityType
<1>7. ASSUME NEW h \in S, i < h
      PROVE  Cardinality(Below(i)) < Cardinality(Below(h))
  <2>1. Below(i) \in SUBSET Below(h) /\ h \in Below(h) /\ h \notin Below(i)
    <3>1. i \in Nat /\ h \in Nat
      BY <1>1
    <3>2. \A j \in Below(i) : j \in S /\ j <= h
      BY <1>1, <1>7, <3>1
    <3>3. h \in Below(h) /\ \A j \in Below(i) : j \in Below(h)
      BY <3>1, <3>2
    <3>4. h \notin Below(i)
      BY <1>7, <3>1
    <3> HIDE DEF Below
    <3> QED
      BY <3>3, <3>4
  <2> HIDE DEF Below
  <2>2. Below(h) # Below(i)
    BY <2>1
  <2>3. Cardinality(Below(i)) <= Cardinality(Below(h))
    BY <1>3, <2>1, FS_Subset
  <2>4. Cardinality(Below(i)) # Cardinality(Below(h))
    BY <1>3, <2>1, <2>2, FS_Subset
  <2> QED
    BY <1>3, <2>3, <2>4
<1> HIDE DEF Below
<1>8. /\ Cardinality(Below(i)) \in 1 .. Cardinality(S)
      /\ \A h \in S : i < h => Cardinality(Below(i)) < Cardinality(Below(h))
  BY <1>3, <1>5, <1>6, <1>7
<1> QED
  BY <1>8 DEF Below
-----------------------------------------------------------------------------
\* f takes the value a at 0, and at any other number up to n what a step makes of
\* the number and of the value before.
Recurs(f, n, a, step) ==
  f = [k \in 0 .. n |-> IF k = 0 THEN a ELSE step[<<k, f[k - 1]>>]]

\* Such a function exists: a recursion over 0 .. n defines a value.
LEMMA RecursionOnRange ==
  ASSUME NEW S, NEW a \in S, NEW n \in Nat, NEW step \in [(1 .. n) \X S -> S]
  PROVE  \E f \in [0 .. n -> S] : Recurs(f, n, a, step)
<1> USE DEF Recurs
<1> DEFINE Solves(f, m) == Recurs(f, m, a, step)
           T == {m \in 0 .. n : ~ \E f \in [0 .. m -> S] : Solves(f, m)}
<1>1. ASSUME T # {}
      PROVE  FALSE
  <2>1. PICK m \in T : \A l \in T : m <= l
    <3>1. T \in SUBSET Nat
      OBVIOUS
    <3> HIDE DEF T
    <3> QED
      BY <1>1, <3>1, LeastNumber
  <2>2. m \in 0 .. n /\ ~ \E f \in [0 .. m -> S] : Solves(f, m)
    OBVIOUS
  <2>3. CASE m = 0
    <3> DEFINE g == [k \in 0 .. 0 |-> a]
    <3>1. g \in [0 .. 0 -> S] /\ Solves(g, 0)
      OBVIOUS
    <3> QED
      BY <2>2, <2>3, <3>1
  <2>4. CASE m # 0
    <3>1. m - 1 \in 0 .. n /\ ~ (m <= m - 1)
      BY <2>2, <2>4
    <3>2. PICK f \in [0 .. m - 1 -> S] : Solves(f, m - 1)
      BY <2>1, <3>1
    <3> DEFINE last == step[<<m, f[m - 1]>>]
               g == [k \in 0 .. m |-> IF k = m THEN last ELSE f[k]]
    <3>3. last \in S /\ m \in Nat \ {0}
      BY <2>2, <2>4, <3>2
    <3>4. g \in [0 .. m -> S]
      BY <3>2, <3>3
    <3>5. ASSUME NEW k \in 0 .. m
          PROVE  g[k] = IF k = 0 THEN a ELSE step[<<k, g[k - 1]>>]
      <4>1. CASE k = m
        BY <3>3, <4>1
      <4>2. CASE k # m
        <5>1. k \in 0 .. m - 1 /\ (k # 0 => k - 1 \in 0 .. m - 1)
          BY <3>3, <4>2
        <5>2. f[k] = IF k = 0 THEN a ELSE step[<<k, f[k - 1]>>]
          BY <3>2, <5>1
        <5>3. g[k] = f[k] /\ (k # 0 => g[k - 1] = f[k - 1])
          BY <3>3, <4>2, <5>1
        <5> HIDE DEF g
        <5> QED
          BY <5>2, <5>3
      <4> QED
        BY <4>1, <4>2
    <3>6. Solves(g, m)
      BY <3>5
    <3> QED
      BY <2>2, <3>4, <3>6
  <2> QED
    BY <2>3, <2>4
<1> QED
  BY <1>1

-----------------------------------------------------------------------------
\* A power of two counts the subsets of a set: one more element makes twice as many.
LEMMA PowersOfTwo ==
  /\ 2 ^ 0 = 1
  /\ \A n \in Nat : 2 ^ n \in Nat \ {0} /\ 2 ^ (n + 1) = 2 * 2 ^ n
<1> SUFFICES ASSUME NEW n \in Nat
             PROVE  2 ^ n \in Nat \ {0} /\ 2 ^ (n + 1) = 2 * 2 ^ n
  OBVIOUS
<1> DEFINE A == SUBSET (1 .. n)
           B == {X \cup {n + 1} : X \in A}
           add == [X \in A |-> X \cup {n + 1}]
<1>1. /\ IsFiniteSet(1 .. n) /\ Cardinality(1 .. n) = n
      /\ IsFiniteSet(1 .. n + 1) /\ Cardinality(1 .. n + 1) = n + 1
  <2>1. n \in Int /\ n + 1 \in Int
    OBVIOUS
  <2> QED
    BY <2>1, FS_Interval
<1>2. /\ IsFiniteSet(A) /\ Cardinality(A) = 2 ^ n
      /\ Cardinality(SUBSET (1 .. n + 1)) = 2 ^ (n + 1)
  BY <1>1, FS_SUBSET
<1>3. IsFiniteSet(B) /\ Cardinality(B) = Cardinality(A)
  <2>1. \A X, Y \in A : X \cup {n + 1} = Y \cup {n + 1} => X = Y
    <3>1. \A X \in A : n + 1 \notin X
      OBVIOUS
    <3> QED
      BY <3>1
  <2>2. add \in Bijection(A, B)
    <3>1. add \in [A -> B] /\ \A X \in A : add[X] = X \cup {n + 1}
      OBVIOUS
    <3>2. \A Y \in B : \E X \in A : Y = X \cup {n + 1}
      OBVIOUS
    <3> HIDE DEF A, B, add
    <3>3. IsInjective(add)
      BY <2>1, <3>1 DEF IsInjective
    <3>4. \A Y \in B : \E X \in A : add[X] = Y
      BY <3>1, <3>2
    <3> QED
      BY <3>1, <3>3, <3>4 DEF Bijection, Injection, Surjection
  <2> QED
    BY <1>2, <2>2, FS_Bijection DEF ExistsBijection
<1>4. SUBSET (1 .. n + 1) = A \cup B
  <2>1. ASSUME NEW X \in SUBSET (1 .. n + 1)
        PROVE  X \in A \cup B
    <3>1. CASE n + 1 \in X
      <4>1. X \ {n + 1} \in A
        OBVIOUS
      <4>2. X = (X \ {n + 1}) \cup {n + 1}
        BY <3>1
      <4> QED
        BY <4>1, <4>2
    <3>2. CASE n + 1 \notin X
      <4>1. X \in A
        BY <3>2
      <4> QED
        BY <4>1
    <3> QED
      BY <3>1, <3>2
  <2>2. \A X \in A : X \in SUBSET (1 .. n + 1) /\ X \cup {n + 1} \in SUBSET (1 .. n + 1)
    OBVIOUS
  <2>3. \A Y \in B : Y \in SUBSET (1 .. n + 1)
    BY <2>2
  <2> HIDE DEF A, B
  <2> QED
    BY <2>1, <2>2, <2>3
<1>5. A \cap B = {}
  <2>1. \A X \in A : n + 1 \notin X
    OBVIOUS
  <2> QED
    BY <2>1
<1>6. Cardinality(A \cup B) = Cardinality(A) + Cardinality(A)
  <2>1. Cardinality(A \cup B) = Cardinality(A) + Cardinality(B) - Cardinality(A \cap B)
    BY <1>2, <1>3, FS_Union
  <2>2. Cardinality(A \cap B) = 0
    BY <1>5, FS_EmptySet
  <2>3. Cardinality(A) \in Nat
    BY <1>2, FS_CardinalityType
  <2> QED
    BY <1>3, <2>1, <2>2, <2>3
<1>7. Cardinality(A) \in Nat \ {0}
  <2>1. {} \in A
    OBVIOUS
  <2> QED
    BY <1>2, <2>1, FS_CardinalityType, FS_EmptySet
<1> HIDE DEF A, B
<1>8. 2 ^ (n + 1) = 2 ^ n + 2 ^ n /\ 2 ^ n \in Nat \ {0}
  BY <1>2, <1>4, <1>6, <1>7
<1> DEFINE p == 2 ^ n
<1> HIDE DEF p
<1>9. p \in Nat => p + p = 2 * p
  OBVIOUS
<1> QED
  BY <1>8, <1>9 DEF p

\* Powers of two are larger than their exponents, and multiply by adding these.
LEMMA PowersMultiply ==
  \A n \in Nat : n < 2 ^ n /\ \A m \in Nat : 2 ^ (m + n) = 2 ^ m * 2 ^ n
<1> DEFINE Good(n) == n < 2 ^ n /\ \A m \in Nat : 2 ^ (m + n) = 2 ^ m * 2 ^ n
           T == {n \in Nat : ~ Good(n)}
<1>1. ASSUME T # {}
      PROVE  FALSE
  <2>1. PICK n \in T : \A l \in T : n <= l
    BY <1>1, LeastNumber
  <2>2. n \in Nat /\ ~ Good(n)
    OBVIOUS
  <2>3. CASE n = 0
    <3>1. ASSUME NEW m \in Nat
          PROVE  2 ^ (m + 0) = 2 ^ m * 2 ^ 0
      <4>1. m + 0 = m
        OBVIOUS
      <4>2. 2 ^ m \in Nat /\ 2 ^ 0 = 1
        BY PowersOfTwo
      <4> DEFINE p == 2 ^ m
      <4>3. p * 1 = p
        <5>1. p \in Nat
          BY <4>2
        <5> HIDE DEF p
        <5> QED
          BY <5>1
      <4> QED
        BY <4>1, <4>2, <4>3
    <3>2. 0 < 2 ^ 0
      BY PowersOfTwo
    <3> QED
      BY <2>2, <2>3, <3>1, <3>2
  <2>4. CASE n # 0
    <3>1. n - 1 \in Nat /\ ~ (n <= n - 1) /\ n = (n - 1) + 1
      BY <2>2, <2>4
    <3>2. Good(n - 1)
      <4> HIDE DEF Good
      <4> QED
        BY <2>1, <3>1
    <3> DEFINE p == 2 ^ (n - 1)
    <3>3. p \in Nat \ {0} /\ 2 ^ n = 2 * p
      BY <3>1, PowersOfTwo
    <3>4. n < 2 ^ n
      <4>1. n - 1 < p
        BY <3>2
      <4> HIDE DEF p
      <4> QED
        BY <2>2, <3>3, <4>1
    <3>5. ASSUME NEW m \in Nat
          PROVE  2 ^ (m + n) = 2 ^ m * 2 ^ n
      <4> DEFINE q == 2 ^ m
      <4>1. m + (n - 1) \in Nat /\ m + n = (m + (n - 1)) + 1
        BY <3>1
      <4>2. 2 ^ (m + n) = 2 * 2 ^ (m + (n - 1))
        BY <4>1, PowersOfTwo
      <4>3. 2 ^ (m + (n - 1)) = q * p
        BY <3>2
      <4>4. q \in Nat
        BY PowersOfTwo
      <4> HIDE DEF p, q
      <4>5. 2 * (q * p) = q * (2 * p)
        BY <3>3, <4>4
      <4>6. 2 ^ (m + n) = q * 2 ^ n
        BY <3>3, <4>2, <4>3, <4>5
      <4> QED
        BY <4>6 DEF q
    <3> QED
      BY <2>2, <3>4, <3>5
  <2> QED
    BY <2>3, <2>4
<1> QED
  BY <1>1
-----------------------------------------------------------------------------
\* The quotient of a division is the number of times that the divisor fits.
LEMMA Quotient ==
  ASSUME NEW a \in Int, NEW d \in Nat \ {0}
  PROVE  /\ a \div d \in Int
         /\ d * (a \div d) <= a /\ a < d * (a \div d) + d
         /\ \A q \in Int : d * q <= a /\ a < d * q + d => a \div d = q
<1> DEFINE r == a \div d
<1>1. r \in Int /\ d * r <= a /\ a < d * r + d
  BY Z3
<1> HIDE DEF r
<1>2. ASSUME NEW q \in Int, d * q <= a, a < d * q + d
      PROVE  r = q
  <2>1. CASE r >= q + 1
    <3>1. d * r >= d * (q + 1)
      BY <1>1, <2>1, Z3
    <3> QED
      BY <1>1, <1>2, <3>1, Z3
  <2>2. CASE r <= q - 1
    <3>1. d * r <= d * (q - 1)
      BY <1>1, <2>2, Z3
    <3> QED
      BY <1>1, <1>2, <3>1, Z3
  <2> QED
    BY <1>1, <2>1, <2>2
<1> QED
  BY <1>1, <1>2 DEF r

\* A factor that is not negative keeps the order.
LEMMA TimesIsMonotonic ==
  ASSUME NEW a \in Int, NEW b \in Int, NEW c \in Nat, a <= b
  PROVE  c * a <= c * b
  BY Z3

\* A number up to m is scaled to one up to d, which is not smaller, and back: rounding
\* loses at most one.
LEMMA ThereAndBack ==
  ASSUME NEW m \in Nat \ {0}, NEW d \in Nat, d >= m, NEW pos \in 0 .. m - 1
  PROVE  LET q == (d * pos) \div m IN
         /\ q \in Nat /\ q < d
         /\ (m * q) \div d \in {pos, pos - 1}
<1> DEFINE q == (d * pos) \div m
<1>1. d * pos \in Nat /\ d \in Nat \ {0}
  OBVIOUS
<1>2. q \in Int /\ m * q <= d * pos /\ d * pos < m * q + m
  BY <1>1, Quotient
<1> HIDE DEF q
<1>3. m * q \in Int
  BY <1>2
<1>4. d * (pos + 1) <= d * m
  BY TimesIsMonotonic
<1>5. d * (pos + 1) = d * pos + d /\ d * (pos - 1) = d * pos - d /\ d * m = m * d
  BY Z3
<1>6. q < d
  <2>1. ASSUME q >= d
        PROVE  m * d <= m * q
    BY <1>2, <2>1, TimesIsMonotonic
  <2> QED
    BY <1>1, <1>2, <1>3, <1>4, <1>5, <2>1, Z3
<1>7. q >= 0
  <2>1. ASSUME q <= -1
        PROVE  m * q <= m * (-1)
    BY <1>2, <2>1, TimesIsMonotonic
  <2> QED
    BY <1>1, <1>2, <1>3, <2>1, Z3
<1>8. CASE d * pos <= m * q
  <2>1. d * pos <= m * q /\ m * q < d * pos + d
    BY <1>1, <1>2, <1>3, <1>8
  <2>2. (m * q) \div d = pos
    BY <1>1, <1>3, <2>1, Quotient
  <2> QED
    BY <1>2, <1>6, <1>7, <2>2 DEF q
<1>9. CASE m * q < d * pos
  <2>1. d * (pos - 1) <= m * q /\ m * q < d * (pos - 1) + d
    BY <1>1, <1>2, <1>3, <1>5, <1>9
  <2>2. (m * q) \div d = pos - 1
    <3>1. pos - 1 \in Int
      OBVIOUS
    <3> QED
      BY <1>1, <1>3, <2>1, <3>1, Quotient
  <2> QED
    BY <1>2, <1>6, <1>7, <2>2 DEF q
<1> QED
  BY <1>1, <1>3, <1>8, <1>9

\* The remainder is what the quotient leaves.
LEMMA Remainder ==
  ASSUME NEW a \in Int, NEW d \in Nat \ {0}
  PROVE  a % d = a - d * (a \div d) /\ a % d \in 0 .. d - 1
<1>1. a % d = a - d * (a \div d)
  BY Z3
<1> DEFINE r == a \div d
<1>2. r \in Int /\ d * r <= a /\ a < d * r + d
  BY Quotient
<1> HIDE DEF r
<1>3. a - d * r \in 0 .. d - 1
  BY <1>2, Z3
<1> QED
  BY <1>1, <1>3 DEF r

\* A multiple of the divisor goes through a division as it is, and a remainder leaves
\* it out.
LEMMA DivideSum ==
  ASSUME NEW c \in Int, NEW m \in Int, NEW d \in Nat \ {0}
  PROVE  (d * c + m) \div d = c + m \div d /\ (d * c + m) % d = m % d
<1> DEFINE r == m \div d
           x == d * c + m
<1>1. r \in Int /\ d * r <= m /\ m < d * r + d
  BY Quotient
<1>2. x \in Int /\ d * (c + r) <= x /\ x < d * (c + r) + d /\ c + r \in Int
  <2> HIDE DEF r
  <2>1. d * (c + r) = d * c + d * r /\ d * c \in Int /\ d * r \in Int
    BY <1>1, Z3
  <2> QED
    BY <1>1, <2>1
<1>3. x \div d = c + r
  <2> HIDE DEF r, x
  <2> QED
    BY <1>2, Quotient
<1>4. x % d = m % d
  <2>1. x % d = x - d * (c + r)
    <3>1. x \in Int
      BY <1>2
    <3> HIDE DEF x, r
    <3> QED
      BY <1>3, <3>1, Remainder
  <2>2. m % d = m - d * r
    BY Remainder
  <2> HIDE DEF r
  <2>3. d * (c + r) = d * c + d * r /\ d * c \in Int /\ d * r \in Int
    BY <1>1, Z3
  <2> QED
    BY <1>1, <2>1, <2>2, <2>3
<1> QED
  BY <1>3, <1>4

\* What is smaller than the divisor is divided by nothing.
LEMMA DivideSmall ==
  ASSUME NEW d \in Nat \ {0}, NEW m \in 0 .. d - 1
  PROVE  m \div d = 0 /\ m % d = m
<1>1. m \in Int /\ d * 0 = 0 /\ d * 0 <= m /\ m < d * 0 + d /\ 0 \in Int
  OBVIOUS
<1>2. m \div d = 0
  BY <1>1, Quotient
<1>3. m % d = m - d * 0
  BY <1>1, <1>2, Remainder
<1> QED
  BY <1>1, <1>2, <1>3

\* Dividing twice divides by the product.
LEMMA DivideTwice ==
  ASSUME NEW x \in Int, NEW d \in Nat \ {0}, NEW e \in Nat \ {0}
  PROVE  x \div (d * e) = (x \div d) \div e
<1> DEFINE q == x \div d
           r == q \div e
           p == d * e
<1>1. q \in Int /\ d * q <= x /\ x < d * q + d
  BY Quotient
<1>2. r \in Int /\ e * r <= q /\ q < e * r + e
  <2> HIDE DEF q
  <2> QED
    BY <1>1, Quotient
<1> HIDE DEF q, r
<1>3. p \in Nat \ {0} /\ p * r = d * (e * r) /\ p * r \in Int /\ p = d * e
  BY <1>2, Z3
<1>4. d * (e * r) <= d * q /\ d * (e * r) \in Int /\ d * q \in Int
  BY <1>1, <1>2, Z3
<1>5. d * (q + 1) <= d * (e * r + e)
  <2>1. q + 1 \in Int /\ e * r + e \in Int /\ q + 1 <= e * r + e
    BY <1>1, <1>2, Z3
  <2> QED
    BY <2>1, TimesIsMonotonic
<1>6. d * (q + 1) = d * q + d /\ d * (e * r + e) = d * (e * r) + d * e
  BY <1>1, <1>2, Z3
<1>7. p * r <= x /\ x < p * r + p
  BY <1>1, <1>3, <1>4, <1>5, <1>6
<1> HIDE DEF p
<1>8. x \div p = r
  BY <1>2, <1>3, <1>7, Quotient
<1> QED
  BY <1>8 DEF p, r, q

-----------------------------------------------------------------------------
(* Sequences that are joined.                                               *)

\* A function over 1 .. n is a sequence of length n.
LEMMA SequenceOfLength ==
  ASSUME NEW S, NEW n \in Nat, NEW f \in [1 .. n -> S]
  PROVE  f \in Seq(S) /\ Len(f) = n /\ DOMAIN f = 1 .. n
OBVIOUS

\* r is s and behind it t.
IsJoined(r, s, t) == r = s \o t

\* r is s, t and v, one behind the other.
AreJoined(r, s, t, v) == r = (s \o t) \o v

\* Where the characters of three joined sequences are.
LEMMA JoinedPlaces ==
  ASSUME NEW S, NEW f \in Seq(S), NEW u \in Seq(S), NEW g \in Seq(S), NEW x,
         AreJoined(x, f, u, g)
  PROVE  /\ x \in Seq(S) /\ Len(x) = (Len(f) + Len(u)) + Len(g)
         /\ \A i \in 1 .. Len(f) : x[i] = f[i]
         /\ \A i \in 1 .. Len(u) : x[Len(f) + i] = u[i]
         /\ \A i \in 1 .. Len(g) : x[(Len(f) + Len(u)) + i] = g[i]
<1> DEFINE a == Len(f)
           m == Len(u)
           l == Len(g)
           y == f \o u
<1>1. a \in Nat /\ m \in Nat /\ l \in Nat
  OBVIOUS
<1>2. /\ y \in Seq(S) /\ Len(y) = a + m
      /\ \A i \in 1 .. a + m : y[i] = IF i <= a THEN f[i] ELSE u[i - a]
  BY ConcatProperties
<1> HIDE DEF y
<1>3. /\ y \o g \in Seq(S) /\ Len(y \o g) = (a + m) + l
      /\ \A i \in 1 .. (a + m) + l : (y \o g)[i] = IF i <= a + m THEN y[i] ELSE g[i - (a + m)]
  <2>1. /\ y \o g \in Seq(S) /\ Len(y \o g) = Len(y) + l
        /\ \A i \in 1 .. Len(y) + l : (y \o g)[i] = IF i <= Len(y) THEN y[i] ELSE g[i - Len(y)]
    <3>1. y \in Seq(S)
      BY <1>2
    <3> QED
      BY <3>1, ConcatProperties
  <2> HIDE DEF a, m, l
  <2> QED
    BY <1>2, <2>1
<1>4. x = y \o g
  BY DEF AreJoined, y
<1> HIDE DEF a, m, l
<1>5. \A i \in 1 .. a : i \in 1 .. a + m /\ i \in 1 .. (a + m) + l /\ i <= a + m /\ i <= a
  BY <1>1
<1>6. \A i \in 1 .. m : /\ a + i \in 1 .. a + m /\ a + i \in 1 .. (a + m) + l
                        /\ a + i <= a + m /\ ~ (a + i <= a) /\ (a + i) - a = i
  BY <1>1
<1>7. \A i \in 1 .. l : /\ (a + m) + i \in 1 .. (a + m) + l
                        /\ ~ ((a + m) + i <= a + m) /\ ((a + m) + i) - (a + m) = i
  BY <1>1
<1>8. \A i \in 1 .. a : x[i] = f[i]
  BY <1>2, <1>3, <1>4, <1>5
<1>9. \A i \in 1 .. m : x[a + i] = u[i]
  BY <1>2, <1>3, <1>4, <1>6
<1>10. \A i \in 1 .. l : x[(a + m) + i] = g[i]
  BY <1>3, <1>4, <1>7
<1> QED
  BY <1>3, <1>4, <1>8, <1>9, <1>10 DEF a, m, l

\* It does not matter which sequences are joined first.
LEMMA JoinedInAnyOrder ==
  ASSUME NEW S, NEW a \in Seq(S), NEW b \in Seq(S), NEW c \in Seq(S)
  PROVE  IsJoined((a \o b) \o c, a, b \o c)
<1>1. (a \o b) \o c = a \o (b \o c)
  BY ConcatAssociative
<1> QED
  BY <1>1 DEF IsJoined

\* Two elements are joined to a pair.
LEMMA PairIsJoined ==
  ASSUME NEW S, NEW c \in S, NEW d \in S
  PROVE  IsJoined(<<c, d>>, <<c>>, <<d>>)
<1> DEFINE a == <<c>>
           b == <<d>>
           r == <<c, d>>
           j == a \o b
<1>1. a \in Seq(S) /\ Len(a) = 1 /\ a[1] = c
  OBVIOUS
<1>2. b \in Seq(S) /\ Len(b) = 1 /\ b[1] = d
  OBVIOUS
<1>3. r \in Seq(S) /\ Len(r) = 2 /\ r[1] = c /\ r[2] = d
  OBVIOUS
<1> HIDE DEF a, b, r
<1>4. /\ j \in Seq(S) /\ Len(j) = 1 + 1
      /\ \A i \in 1 .. 1 + 1 : j[i] = IF i <= 1 THEN a[i] ELSE b[i - 1]
  BY <1>1, <1>2, ConcatProperties
<1> HIDE DEF j
<1>5. \A i \in 1 .. Len(r) : r[i] = j[i]
  <2>1. \A i \in 1 .. 2 : i = 1 \/ i = 2
    OBVIOUS
  <2>2. j[1] = c /\ j[2] = d
    BY <1>1, <1>2, <1>4
  <2> QED
    BY <1>3, <2>1, <2>2
<1>6. r = j
  BY <1>3, <1>4, <1>5, SeqEqual
<1> QED
  BY <1>6 DEF IsJoined, r, a, b, j

\* The characters of a part of a sequence.
LEMMA PartPlaces ==
  ASSUME NEW S, NEW s \in Seq(S), NEW a \in Nat, NEW b \in Nat, a <= b, b <= Len(s)
  PROVE  /\ SubSeq(s, a + 1, b) \in Seq(S) /\ Len(SubSeq(s, a + 1, b)) = b - a
         /\ \A i \in 1 .. b - a : SubSeq(s, a + 1, b)[i] = s[a + i]
<1> DEFINE u == SubSeq(s, a + 1, b)
           p == a + 1
           n == Len(s)
<1>1. n \in Nat /\ b <= n /\ \A i \in 1 .. n : s[i] \in S
  OBVIOUS
<1> HIDE DEF n
<1>2. p \in Int /\ b \in Int /\ \A i \in p .. b : s[i] \in S
  BY <1>1
<1>3. u = SubSeq(s, p, b)
  OBVIOUS
<1> HIDE DEF u
<1>4. /\ u \in Seq(S) /\ Len(u) = (IF p <= b THEN (b - p) + 1 ELSE 0)
      /\ \A i \in 1 .. (b - p) + 1 : u[i] = s[(p + i) - 1]
  <2> HIDE DEF p
  <2> QED
    BY <1>2, <1>3, SubSeqProperties
<1>5. Len(u) = b - a
  BY <1>4
<1>6. \A i \in 1 .. b - a : i \in 1 .. (b - p) + 1 /\ (p + i) - 1 = a + i
  OBVIOUS
<1>7. \A i \in 1 .. b - a : u[i] = s[a + i]
  BY <1>4, <1>6
<1> QED
  BY <1>4, <1>5, <1>7 DEF u

\* What follows a sequence at the front of others, and how it is joined.
LEMMA JoinedApart ==
  ASSUME NEW S, NEW c \in Seq(S), NEW front \in Seq(S), NEW u \in Seq(S),
         NEW back \in Seq(S), NEW before, IsJoined(before, c, front),
         NEW whole, AreJoined(whole, before, u, back)
  PROVE  \E x : AreJoined(x, front, u, back) /\ IsJoined(whole, c, x)
<1> DEFINE y == front \o u
           x == y \o back
<1>1. y \in Seq(S)
  BY ConcatProperties
<1>2. IsJoined((c \o front) \o u, c, y)
  BY JoinedInAnyOrder
<1> HIDE DEF y
<1>3. IsJoined((c \o y) \o back, c, x)
  BY <1>1, JoinedInAnyOrder
<1>4. whole = ((c \o front) \o u) \o back
  BY DEF IsJoined, AreJoined
<1>5. IsJoined(whole, c, x)
  BY <1>2, <1>3, <1>4, Zenon DEF IsJoined
<1>6. AreJoined(x, front, u, back)
  BY DEF AreJoined, y
<1> QED
  BY <1>5, <1>6

\* f[i] is the first i sequences of F, joined.
Joins(f, F, n, S) ==
  /\ f \in [0 .. n -> Seq(S)]
  /\ f[0] = <<>>
  /\ \A i \in 1 .. n : f[i] = f[i - 1] \o F[i]
  /\ FlattenSeq(F) = f[n]

\* FlattenSeq joins its sequences from the first to the last.
LEMMA FlattenRule ==
  ASSUME NEW S, NEW n \in Nat, NEW F \in [1 .. n -> Seq(S)]
  PROVE  \E f : Joins(f, F, n, S)
<1> DEFINE U == Seq(S)
           step == [kb \in (1 .. n) \X U |-> kb[2] \o F[kb[1]]]
<1>0. <<>> \in U
  OBVIOUS
<1>1. step \in [(1 .. n) \X U -> U]
  OBVIOUS
<1>2. PICK f \in [0 .. n -> U] : Recurs(f, n, <<>>, step)
  <2> HIDE DEF step, U
  <2> QED
    BY <1>0, <1>1, RecursionOnRange
<1>3. \A k \in 0 .. n : f[k] = IF k = 0 THEN <<>> ELSE f[k - 1] \o F[k]
  <2>1. TAKE k \in 0 .. n
  <2>2. f[k] = IF k = 0 THEN <<>> ELSE step[<<k, f[k - 1]>>]
    BY <1>2 DEF Recurs
  <2>3. CASE k # 0
    <3>1. k \in 1 .. n /\ f[k - 1] \in U
      <4> HIDE DEF U
      <4> QED
        BY <2>3
    <3>2. step[<<k, f[k - 1]>>] = f[k - 1] \o F[k]
      BY <3>1
    <3> HIDE DEF step, U
    <3> QED
      BY <2>2, <2>3, <3>2
  <2> QED
    BY <2>2, <2>3
<1>4. f[0] = <<>> /\ \A i \in 1 .. n : f[i] = f[i - 1] \o F[i]
  <2> HIDE DEF U, step
  <2> QED
    BY <1>3
<1>5. Len(F) = n /\ F \in Seq(U)
  <2> HIDE DEF U
  <2> QED
    BY SequenceOfLength DEF U
<1>6. FlattenSeq(F) = f[n]
  <2>1. CASE n = 0
    <3>1. F = <<>>
      <4> HIDE DEF U
      <4> QED
        BY <1>5, <2>1
    <3> QED
      BY <1>4, <1>5, <2>1, <3>1 DEF FlattenSeq
  <2>2. CASE n # 0
    <3> DEFINE Rule(h) == h = [i \in 1 .. n |-> IF i = 1 THEN F[i] ELSE h[i - 1] \o F[i]]
               g == [i \in 1 .. n |-> f[i]]
               flatten == CHOOSE h : Rule(h)
    <3>1. Rule(g)
      <4>1. ASSUME NEW i \in 1 .. n
            PROVE  g[i] = IF i = 1 THEN F[i] ELSE g[i - 1] \o F[i]
        <5>1. CASE i = 1
          <6>1. i - 1 = 0 /\ F[i] \in Seq(S)
            BY <5>1
          <6>2. f[i] = <<>> \o F[i]
            BY <1>4, <6>1
          <6>3. <<>> \o F[i] = F[i]
            BY <6>1, ConcatEmptySeq
          <6> QED
            BY <5>1, <6>2, <6>3
        <5>2. CASE i # 1
          <6>1. i - 1 \in 1 .. n
            BY <5>2
          <6> QED
            BY <1>4, <5>2, <6>1
        <5> QED
          BY <5>1, <5>2
      <4>2. g = [i \in 1 .. n |-> g[i]]
        OBVIOUS
      <4> HIDE DEF g
      <4> QED
        BY <4>1, <4>2, Zenon
    <3>2. Rule(flatten)
      <4> HIDE DEF Rule
      <4> QED
        BY <3>1
    <3>3. FlattenSeq(F) = flatten[n]
      <4> HIDE DEF U
      <4> QED
        BY <1>5, <2>2 DEF FlattenSeq
    <3> HIDE DEF flatten
    <3>4. \A i \in 1 .. n : flatten[i] = IF i = 1 THEN F[i] ELSE flatten[i - 1] \o F[i]
      BY <3>2, Zenon
    <3>5. \A i \in 1 .. n : g[i] = IF i = 1 THEN F[i] ELSE g[i - 1] \o F[i]
      <4> HIDE DEF g
      <4> QED
        BY <3>1, Zenon
    <3> DEFINE T == {i \in 1 .. n : flatten[i] # g[i]}
    <3>6. ASSUME T # {}
          PROVE  FALSE
      <4>1. PICK i \in T : \A j \in T : i <= j
        <5>1. T \in SUBSET Nat
          OBVIOUS
        <5> HIDE DEF T
        <5> QED
          BY <3>6, <5>1, LeastNumber
      <4>2. i \in 1 .. n /\ flatten[i] # g[i]
        OBVIOUS
      <4>3. i # 1 => i - 1 \in 1 .. n /\ i - 1 \notin T
        BY <4>1, <4>2
      <4>4. i # 1 => flatten[i - 1] = g[i - 1]
        BY <4>3
      <4> HIDE DEF g, T
      <4> QED
        BY <3>4, <3>5, <4>2, <4>4
    <3>7. n \in 1 .. n
      BY <2>2
    <3> QED
      BY <3>3, <3>6, <3>7
  <2> QED
    BY <2>1, <2>2
<1> QED
  BY <1>2, <1>4, <1>6 DEF Joins

\* To join single elements gives back their sequence.
LEMMA FlattenSingles ==
  ASSUME NEW S, NEW s \in Seq(S), NEW F, F = [i \in 1 .. Len(s) |-> <<s[i]>>]
  PROVE  FlattenSeq(F) = s
<1> DEFINE n == Len(s)
<1>1. n \in Nat /\ F \in [1 .. n -> Seq(S)]
  OBVIOUS
<1>2a. PICK f : Joins(f, F, n, S)
  <2> HIDE DEF n
  <2> QED
    BY <1>1, FlattenRule
<1>2. /\ f \in [0 .. n -> Seq(S)]
      /\ f[0] = <<>>
      /\ \A i \in 1 .. n : f[i] = f[i - 1] \o F[i]
      /\ FlattenSeq(F) = f[n]
  BY <1>2a DEF Joins
<1> DEFINE T == {i \in 0 .. n : f[i] # SubSeq(s, 1, i)}
<1>3. ASSUME T # {}
      PROVE  FALSE
  <2>1. PICK i \in T : \A j \in T : i <= j
    <3>1. T \in SUBSET Nat
      OBVIOUS
    <3> HIDE DEF T
    <3> QED
      BY <1>3, <3>1, LeastNumber
  <2>2. i \in 0 .. n /\ f[i] # SubSeq(s, 1, i)
    OBVIOUS
  <2>3. CASE i = 0
    <3>1. SubSeq(s, 1, 0) = <<>>
      BY SubSeqEmpty
    <3> QED
      BY <1>2, <2>2, <2>3, <3>1
  <2>4. CASE i # 0
    <3>1. i - 1 \in 0 .. n /\ i - 1 \notin T /\ i \in 1 .. n
      BY <2>1, <2>2, <2>4
    <3>2. f[i - 1] = SubSeq(s, 1, i - 1)
      BY <3>1
    <3>3. f[i] = SubSeq(s, 1, i - 1) \o <<s[i]>>
      BY <1>2, <3>1, <3>2
    <3>4. 1 \in 1 .. Len(s) /\ i \in 1 .. Len(s)
      BY <3>1
    <3>5. SubSeq(s, 1, i) = SubSeq(s, 1, i - 1) \o <<s[i]>>
      BY <3>4, SubSeqRecursiveSecond
    <3> QED
      BY <2>2, <3>3, <3>5
  <2> QED
    BY <2>3, <2>4
<1>4. f[n] = SubSeq(s, 1, n)
  BY <1>1, <1>3
<1> QED
  BY <1>2, <1>4, SubSeqFull

\* To join sequences gives a sequence.
LEMMA FlattenType ==
  ASSUME NEW S, NEW n \in Nat, NEW F \in [1 .. n -> Seq(S)]
  PROVE  FlattenSeq(F) \in Seq(S)
<1>1a. PICK f : Joins(f, F, n, S)
  BY FlattenRule
<1>1. /\ f \in [0 .. n -> Seq(S)]
      /\ f[0] = <<>>
      /\ \A i \in 1 .. n : f[i] = f[i - 1] \o F[i]
      /\ FlattenSeq(F) = f[n]
  BY <1>1a DEF Joins
<1> DEFINE U == Seq(S)
<1>2. f \in [0 .. n -> U] /\ n \in 0 .. n
  BY <1>1
<1>3. f[n] \in U
  <2> HIDE DEF U
  <2> QED
    BY <1>2
<1> QED
  BY <1>1, <1>3

\* The n elements of F and behind them the m elements of G are those of H.
Follow(H, F, n, G, m) ==
  (\A i \in 1 .. n : H[i] = F[i]) /\ \A i \in 1 .. m : H[n + i] = G[i]

\* Two lists of sequences are joined one behind the other.
LEMMA FlattenBoth ==
  ASSUME NEW S, NEW n \in Nat, NEW m \in Nat,
         NEW F \in [1 .. n -> Seq(S)], NEW G \in [1 .. m -> Seq(S)],
         NEW H \in [1 .. n + m -> Seq(S)], Follow(H, F, n, G, m)
  PROVE  /\ FlattenSeq(F) \in Seq(S) /\ FlattenSeq(G) \in Seq(S)
         /\ IsJoined(FlattenSeq(H), FlattenSeq(F), FlattenSeq(G))
<1>0. (\A i \in 1 .. n : H[i] = F[i]) /\ \A i \in 1 .. m : H[n + i] = G[i]
  BY DEF Follow
<1>1a. PICK f : Joins(f, F, n, S)
  BY FlattenRule
<1>1. /\ f \in [0 .. n -> Seq(S)]
      /\ f[0] = <<>>
      /\ \A i \in 1 .. n : f[i] = f[i - 1] \o F[i]
      /\ FlattenSeq(F) = f[n]
  BY <1>1a DEF Joins
<1>2a. PICK g : Joins(g, G, m, S)
  BY FlattenRule
<1>2. /\ g \in [0 .. m -> Seq(S)]
      /\ g[0] = <<>>
      /\ \A i \in 1 .. m : g[i] = g[i - 1] \o G[i]
      /\ FlattenSeq(G) = g[m]
  BY <1>2a DEF Joins
<1>3. n + m \in Nat
  OBVIOUS
<1>4a. PICK h : Joins(h, H, n + m, S)
  BY <1>3, FlattenRule
<1>4. /\ h \in [0 .. n + m -> Seq(S)]
      /\ h[0] = <<>>
      /\ \A i \in 1 .. n + m : h[i] = h[i - 1] \o H[i]
      /\ FlattenSeq(H) = h[n + m]
  BY <1>4a DEF Joins
<1> DEFINE T == {i \in 0 .. n : h[i] # f[i]}
           V == {i \in 0 .. m : h[n + i] # f[n] \o g[i]}
<1>5. ASSUME T # {}
      PROVE  FALSE
  <2>1. PICK i \in T : \A j \in T : i <= j
    <3>1. T \in SUBSET Nat
      OBVIOUS
    <3> HIDE DEF T
    <3> QED
      BY <1>5, <3>1, LeastNumber
  <2>2. i \in 0 .. n /\ h[i] # f[i]
    OBVIOUS
  <2>3. CASE i # 0
    <3>1. i - 1 \in 0 .. n /\ i - 1 \notin T /\ i \in 1 .. n /\ i \in 1 .. n + m
      <4>1. i \in 0 .. n
        BY <2>2
      <4>2. i - 1 \in 0 .. n /\ i \in 1 .. n /\ i \in 1 .. n + m /\ ~ (i <= i - 1)
        BY <2>3, <4>1
      <4> HIDE DEF T
      <4> QED
        BY <2>1, <4>2
    <3>2. h[i - 1] = f[i - 1]
      BY <3>1
    <3> HIDE DEF T
    <3> QED
      BY <1>0, <1>1, <1>4, <2>2, <3>1, <3>2
  <2> QED
    BY <1>1, <1>4, <2>2, <2>3
<1>6. h[n] = f[n]
  <2>1. n \in 0 .. n
    OBVIOUS
  <2> QED
    BY <1>5, <2>1, Zenon
<1>7. f[n] \in Seq(S) /\ g[m] \in Seq(S)
  <2>1. n \in 0 .. n /\ m \in 0 .. m
    OBVIOUS
  <2> QED
    BY <1>1, <1>2, <2>1, Zenon
<1>8. ASSUME V # {}
      PROVE  FALSE
  <2>1. PICK i \in V : \A j \in V : i <= j
    <3>1. V \in SUBSET Nat
      <4>1. V \subseteq 0 .. m
        BY Zenon
      <4> HIDE DEF V
      <4> QED
        BY <4>1
    <3> HIDE DEF V
    <3> QED
      BY <1>8, <3>1, LeastNumber
  <2>2. i \in 0 .. m /\ h[n + i] # f[n] \o g[i]
    OBVIOUS
  <2>3. CASE i = 0
    <3>1. f[n] \o <<>> = f[n]
      BY <1>7, ConcatEmptySeq
    <3>2. n + i = n
      BY <2>3
    <3> QED
      BY <1>2, <1>6, <2>2, <2>3, <3>1, <3>2
  <2>4. CASE i # 0
    <3>1. i - 1 \in 0 .. m /\ i - 1 \notin V /\ i \in 1 .. m
      <4>1. i \in 0 .. m
        BY <2>2
      <4>2. i - 1 \in 0 .. m /\ i \in 1 .. m /\ ~ (i <= i - 1)
        BY <2>4, <4>1
      <4> HIDE DEF V
      <4> QED
        BY <2>1, <4>2
    <3>2. n + i \in 1 .. n + m /\ (n + i) - 1 = n + (i - 1)
      BY <3>1
    <3>3. h[n + (i - 1)] = f[n] \o g[i - 1]
      BY <3>1
    <3>4. h[n + i] = (f[n] \o g[i - 1]) \o G[i]
      <4>1. \A k \in 1 .. n + m : h[k] = h[k - 1] \o H[k]
        BY <1>4
      <4>2. h[n + i] = h[(n + i) - 1] \o H[n + i]
        BY ONLY <3>2, <4>1, Zenon
      <4> QED
        BY <1>0, <3>1, <3>2, <3>3, <4>2
    <3>5. g[i - 1] \in Seq(S) /\ G[i] \in Seq(S)
      BY <1>2, <3>1, Zenon
    <3>6. h[n + i] = f[n] \o (g[i - 1] \o G[i])
      <4> DEFINE a == f[n]
                 b == g[i - 1]
                 c == G[i]
      <4>1. a \in Seq(S) /\ b \in Seq(S) /\ c \in Seq(S)
        BY <1>7, <3>5
      <4> HIDE DEF a, b, c
      <4>2. (a \o b) \o c = a \o (b \o c)
        BY ONLY <4>1, ConcatAssociative
      <4> QED
        BY <3>4, <4>2 DEF a, b, c
    <3>7. g[i] = g[i - 1] \o G[i]
      BY <1>2, <3>1
    <3> QED
      BY <2>2, <3>6, <3>7
  <2> QED
    BY <2>3, <2>4
<1>9. IsJoined(h[n + m], f[n], g[m])
  <2>1. m \in 0 .. m
    OBVIOUS
  <2> QED
    BY <1>8, <2>1, Zenon DEF IsJoined
<1> QED
  BY <1>1, <1>2, <1>4, <1>7, <1>9

\* One more sequence is joined behind the others.
LEMMA FlattenOneMore ==
  ASSUME NEW S, NEW n \in Nat, NEW F \in [1 .. n + 1 -> Seq(S)],
         NEW G \in [1 .. n -> Seq(S)], \A i \in 1 .. n : F[i] = G[i]
  PROVE  /\ FlattenSeq(G) \in Seq(S)
         /\ IsJoined(FlattenSeq(F), FlattenSeq(G), F[n + 1])
<1> DEFINE one == [i \in 1 .. 1 |-> F[n + 1]]
<1>1. F[n + 1] \in Seq(S) /\ 1 \in Nat
  OBVIOUS
<1>2. one \in [1 .. 1 -> Seq(S)] /\ \A i \in 1 .. 1 : F[n + i] = one[i]
  BY <1>1
<1>3. FlattenSeq(one) = F[n + 1]
  <2>1. PICK f : Joins(f, one, 1, S)
    <3> HIDE DEF one
    <3> QED
      BY <1>1, <1>2, FlattenRule
  <2>2. f[0] = <<>> /\ f[1] = f[1 - 1] \o one[1] /\ FlattenSeq(one) = f[1]
    <3> HIDE DEF one
    <3> QED
      BY <2>1 DEF Joins
  <2>3. one[1] = F[n + 1] /\ 1 - 1 = 0
    OBVIOUS
  <2>4. <<>> \o F[n + 1] = F[n + 1]
    BY <1>1, ConcatEmptySeq
  <2> HIDE DEF one
  <2> QED
    BY <2>2, <2>3, <2>4
<1> HIDE DEF one
<1>5. Follow(F, G, n, one, 1)
  BY <1>2 DEF Follow
<1>4. /\ FlattenSeq(G) \in Seq(S) /\ FlattenSeq(one) \in Seq(S)
      /\ IsJoined(FlattenSeq(F), FlattenSeq(G), FlattenSeq(one))
  BY <1>1, <1>2, <1>5, FlattenBoth
<1> QED
  BY <1>3, <1>4

\* The sequences H are the m sequences of G behind the first a elements of z, and in
\* front of its last ones, each a sequence of its own.
Surround(H, G, z, a, m) ==
  /\ a + m <= Len(z)
  /\ \A i \in 1 .. Len(z) : ~ (a < i /\ i <= a + m) => H[i] = <<z[i]>>
  /\ \A i \in 1 .. m : H[a + i] = G[i]

\* The sequence c between the first a elements of z and those behind the next m.
Surrounded(t, c, S, z, a, m) ==
  \E f, g \in Seq(S) :
    /\ AreJoined(t, f, c, g)
    /\ Len(f) = a /\ Len(g) = Len(z) - (a + m)
    /\ \A i \in 1 .. a : f[i] = z[i]
    /\ \A i \in 1 .. Len(z) - (a + m) : g[i] = z[(a + m) + i]

\* Single characters around other sequences, joined.
LEMMA FlattenAround ==
  ASSUME NEW S, NEW z \in Seq(S), NEW a \in Nat, NEW m \in Nat,
         NEW G \in [1 .. m -> Seq(S)], NEW H \in [1 .. Len(z) -> Seq(S)],
         Surround(H, G, z, a, m)
  PROVE  Surrounded(FlattenSeq(H), FlattenSeq(G), S, z, a, m)
<1> DEFINE n == Len(z)
           b == a + m
           l == n - b
           front == [i \in 1 .. a |-> z[i]]
           back == [i \in 1 .. l |-> z[b + i]]
           U == Seq(S)
           First == [i \in 1 .. a |-> H[i]]
           Both == [i \in 1 .. b |-> H[i]]
           Rest == [i \in 1 .. l |-> H[b + i]]
<1>1. n \in Nat /\ b \in Nat /\ l \in Nat /\ n = b + l /\ \A i \in 1 .. n : z[i] \in S
  BY DEF Surround
<1>2. /\ \A i \in 1 .. a : i \in 1 .. n /\ i \in 1 .. b /\ ~ (a < i /\ i <= b)
      /\ \A i \in 1 .. b : i \in 1 .. n
      /\ \A i \in 1 .. m : a + i \in 1 .. b
      /\ \A i \in 1 .. l : b + i \in 1 .. n /\ ~ (a < b + i /\ b + i <= b)
  BY <1>1
<1>3. H \in [1 .. n -> U]
  OBVIOUS
<1>4. /\ \A i \in 1 .. n : ~ (a < i /\ i <= b) => H[i] = <<z[i]>>
      /\ \A i \in 1 .. m : H[a + i] = G[i]
  BY DEF Surround
<1> HIDE DEF n, b, l
<1>5. front \in Seq(S) /\ Len(front) = a /\ \A i \in 1 .. a : front[i] = z[i]
  <2>1. front \in [1 .. a -> S] /\ \A i \in 1 .. a : front[i] = z[i]
    BY <1>1, <1>2
  <2> HIDE DEF front
  <2> QED
    BY <2>1, SequenceOfLength
<1>6. back \in Seq(S) /\ Len(back) = l /\ \A i \in 1 .. l : back[i] = z[b + i]
  <2>1. back \in [1 .. l -> S] /\ \A i \in 1 .. l : back[i] = z[b + i]
    BY <1>1, <1>2
  <2> HIDE DEF back
  <2> QED
    BY <1>1, <2>1, SequenceOfLength
<1>7. /\ First \in [1 .. a -> U] /\ \A i \in 1 .. a : First[i] = H[i]
      /\ Both \in [1 .. b -> U] /\ \A i \in 1 .. b : Both[i] = H[i]
      /\ Rest \in [1 .. l -> U] /\ \A i \in 1 .. l : Rest[i] = H[b + i]
  <2> HIDE DEF U
  <2> QED
    BY <1>2, <1>3
<1>8. FlattenSeq(First) = front
  <2>1. \A i \in 1 .. a : H[i] = <<front[i]>>
    BY <1>2, <1>4, <1>5
  <2>2. First = [i \in 1 .. Len(front) |-> <<front[i]>>]
    BY <1>5, <2>1
  <2> HIDE DEF front, First
  <2> QED
    BY <1>5, <2>2, FlattenSingles
<1>9. FlattenSeq(Rest) = back
  <2>1. \A i \in 1 .. l : H[b + i] = <<back[i]>>
    BY <1>2, <1>4, <1>6
  <2>2. Rest = [i \in 1 .. Len(back) |-> <<back[i]>>]
    BY <1>6, <2>1
  <2> HIDE DEF back, Rest
  <2> QED
    BY <1>6, <2>2, FlattenSingles
<1> HIDE DEF First, Both, Rest
<1>10. /\ IsJoined(FlattenSeq(Both), FlattenSeq(First), FlattenSeq(G))
       /\ FlattenSeq(G) \in Seq(S)
  <2>1. Follow(Both, First, a, G, m)
    BY <1>2, <1>4, <1>7 DEF Follow, b
  <2>2. Both \in [1 .. a + m -> Seq(S)] /\ First \in [1 .. a -> Seq(S)]
    BY <1>7 DEF b
  <2> QED
    BY <2>1, <2>2, FlattenBoth
<1>11. IsJoined(FlattenSeq(H), FlattenSeq(Both), FlattenSeq(Rest))
  <2>1. Follow(H, Both, b, Rest, l)
    BY <1>7 DEF Follow
  <2>2. /\ Both \in [1 .. b -> Seq(S)] /\ Rest \in [1 .. l -> Seq(S)]
        /\ H \in [1 .. b + l -> Seq(S)]
    BY <1>1, <1>3, <1>7
  <2> QED
    BY <1>1, <2>1, <2>2, FlattenBoth
<1>12. AreJoined(FlattenSeq(H), front, FlattenSeq(G), back)
  BY <1>8, <1>9, <1>10, <1>11 DEF IsJoined, AreJoined
<1>13. /\ Len(front) = a /\ Len(back) = Len(z) - (a + m)
       /\ \A i \in 1 .. a : front[i] = z[i]
       /\ \A i \in 1 .. Len(z) - (a + m) : back[i] = z[(a + m) + i]
  <2> HIDE DEF front, back
  <2> QED
    BY <1>5, <1>6 DEF b, l, n
<1>14. front \in Seq(S) /\ back \in Seq(S)
  BY <1>5, <1>6
<1> HIDE DEF front, back
<1> QED
  BY <1>12, <1>13, <1>14 DEF Surrounded
=============================================================================
