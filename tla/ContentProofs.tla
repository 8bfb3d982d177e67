---------------------------- MODULE ContentProofs ----------------------------
(***************************************************************************)
(* Files stay whole and apart, reads are exact and writes are stored, for  *)
(* any number of clusters, handles, names and cells, any offset and size:  *)
(* proofs for Content.                                                     *)
(*                                                                         *)
(* Chain and Loop are recursive functions.  A solution of either equation  *)
(* is given, and an argument by the least number where two of them would   *)
(* differ shows that it is the only one (ChainIs, LoopIs); from then on    *)
(* chains are sequences, and the places of cells are numbers.              *)
(***************************************************************************)
EXTENDS Content, FiniteSetTheorems, SequenceTheorems, WellFoundedInduction, TLAPS

\* Small numbers: a set of them has a least one.
LEMMA LeastNumber ==
  ASSUME NEW S, S \subseteq Nat, S # {}
  PROVE  \E m \in S : \A k \in S : m <= k
  <1> DEFINE Below == {0 .. n : n \in S}
  <1>1. Below \subseteq FiniteSubsetsOf(Nat) /\ Below # {}
    <2>1. ASSUME NEW n \in S  PROVE 0 .. n \in FiniteSubsetsOf(Nat)
      <3>1. IsFiniteSet(0 .. n)
        BY FS_Interval
      <3> QED  BY <3>1 DEF FiniteSubsetsOf
    <2> QED  BY <2>1
  <1>2. PICK b \in Below : \A a \in Below : <<a, b>> \notin StrictSubsetOrdering(Nat)
    BY <1>1, FS_StrictSubsetOrderingWellFounded, WFMin
  <1>3. PICK m \in S : b = 0 .. m
    OBVIOUS
  <1>4. ASSUME NEW k \in S, k < m  PROVE FALSE
    <2>1. 0 .. k \in Below /\ 0 .. k \subseteq 0 .. m /\ 0 .. k # 0 .. m
      <3>1. k \in Nat /\ m \in Nat /\ m \in 0 .. m /\ m \notin 0 .. k
        BY <1>4
      <3> QED  BY <3>1, <1>4
    <2>2. <<0 .. k, 0 .. m>> \in StrictSubsetOrdering(Nat)
      BY <2>1 DEF StrictSubsetOrdering
    <2> QED  BY <2>1, <2>2, <1>2, <1>3
  <1> QED  BY <1>4

(* Recursion.  A step function can be iterated, and only in one way.       *)
LEMMA Iterate ==
  ASSUME NEW X, NEW a \in X, NEW g \in [X -> X]
  PROVE  \E w \in [Nat -> X] : w[0] = a /\ \A n \in Nat : w[n + 1] = g[w[n]]
  <1> DEFINE Part(n, p) == /\ p \in [0 .. n -> X] /\ p[0] = a
                           /\ \A i \in 0 .. n - 1 : p[i + 1] = g[p[i]]
  <1>1. \A n \in Nat : \E p : Part(n, p)
    <2> DEFINE Bad == {n \in Nat : ~ \E p : Part(n, p)}
    <2> SUFFICES ASSUME Bad # {}  PROVE FALSE
      OBVIOUS
    <2>1. PICK n \in Bad : \A m \in Bad : n <= m
      BY LeastNumber
    <2>2. n # 0
      <3> DEFINE q == [i \in 0 .. 0 |-> a]
      <3>1. Part(0, q)
        OBVIOUS
      <3> QED  BY <2>1, <3>1
    <2>3. n \in Nat /\ n - 1 \in Nat /\ n - 1 \notin Bad
      <3>1. n \in Nat /\ n - 1 \in Nat /\ ~(n <= n - 1)
        BY <2>1, <2>2
      <3> HIDE DEF Bad
      <3> QED  BY <2>1, <3>1
    <2>4. PICK p : Part(n - 1, p)
      BY <2>3
    <2> DEFINE q == [i \in 0 .. n |-> IF i = n THEN g[p[n - 1]] ELSE p[i]]
    <2>5. \A i \in 0 .. n : i # n => i \in 0 .. n - 1
      BY <2>3
    <2>6. p[n - 1] \in X /\ g[p[n - 1]] \in X
      BY <2>3, <2>4
    <2>7. q \in [0 .. n -> X] /\ q[0] = a
      BY <2>2, <2>3, <2>4, <2>5, <2>6
    <2>8. ASSUME NEW i \in 0 .. n - 1  PROVE q[i + 1] = g[q[i]]
      <3>1. i \in 0 .. n /\ i + 1 \in 0 .. n /\ i # n /\ q[i] = p[i]
        BY <2>3
      <3>2. CASE i = n - 1
        BY <2>3, <3>1, <3>2
      <3>3. CASE i # n - 1
        <4>1. i \in 0 .. (n - 1) - 1 /\ i + 1 # n
          BY <2>3, <3>3
        <4>2. p[i + 1] = g[p[i]]
          BY <2>4, <4>1
        <4> QED  BY <3>1, <4>1, <4>2
      <3> QED  BY <3>2, <3>3
    <2>9. Part(n, q)
      BY <2>7, <2>8
    <2> HIDE DEF q, Part
    <2> QED  BY <2>1, <2>9
  <1>2. ASSUME NEW n \in Nat, NEW p, Part(n, p), NEW m \in Nat, n <= m, NEW q, Part(m, q),
               NEW i \in 0 .. n
        PROVE  p[i] = q[i]
    <2> DEFINE Bad == {j \in 0 .. n : p[j] # q[j]}
    <2> SUFFICES ASSUME Bad # {}  PROVE FALSE
      OBVIOUS
    <2>0. Bad \subseteq Nat
      OBVIOUS
    <2>1. PICK k \in Bad : \A j \in Bad : k <= j
      BY <2>0, LeastNumber
    <2>2. k # 0
      BY <1>2, <2>1
    <2>3. k - 1 \in 0 .. n /\ k - 1 \in 0 .. n - 1 /\ k - 1 \in 0 .. m - 1 /\ (k - 1) + 1 = k
      BY <1>2, <2>1, <2>2
    <2>4. k - 1 \notin Bad
      BY <2>1, <2>3
    <2>5. p[k - 1] = q[k - 1]
      BY <2>3, <2>4
    <2>6. p[(k - 1) + 1] = g[p[k - 1]] /\ q[(k - 1) + 1] = g[q[k - 1]]
      BY <1>2, <2>3
    <2> QED  BY <2>1, <2>3, <2>5, <2>6
  <1> DEFINE P(n) == CHOOSE p : Part(n, p)
  <1> DEFINE w == [n \in Nat |-> P(n)[n]]
  <1> HIDE DEF Part
  <1>3. ASSUME NEW n \in Nat  PROVE Part(n, P(n))
    BY <1>1
  <1> HIDE DEF P
  <1>4. w \in [Nat -> X] /\ w[0] = a
    <2>1. \A n \in Nat : n \in 0 .. n
      OBVIOUS
    <2>2. \A n \in Nat : P(n) \in [0 .. n -> X] /\ P(n)[0] = a
      BY <1>3 DEF Part
    <2> QED  BY <2>1, <2>2
  <1>5. ASSUME NEW n \in Nat  PROVE w[n + 1] = g[w[n]]
    <2>1. n + 1 \in Nat /\ n \in 0 .. (n + 1) - 1 /\ n \in 0 .. n /\ n <= n + 1
      OBVIOUS
    <2>2. P(n + 1)[n + 1] = g[P(n + 1)[n]]
      BY <1>3, <2>1 DEF Part
    <2>3. P(n)[n] = P(n + 1)[n]
      BY <1>2, <1>3, <2>1
    <2> QED  BY <2>1, <2>2, <2>3
  <1> HIDE DEF w
  <1> QED  BY <1>4, <1>5

-----------------------------------------------------------------------------
(* Chains.  A whole chain of table T links its clusters one after another, *)
(* none of them twice, and ends.                                           *)
IsChain(T, s) ==
  /\ s \in Seq(Clusters) /\ s # <<>>
  /\ \A i, j \in 1 .. Len(s) : s[i] = s[j] => i = j
  /\ \A i \in 1 .. Len(s) - 1 : T[s[i]] = s[i + 1]
  /\ T[s[Len(s)]] = END

\* One round of the walk.
Extend(s) == IF fat[s[Len(s)]] \in Clusters THEN Append(s, fat[s[Len(s)]]) ELSE s

\* The walk of Chain is an iteration of its round.
LEMMA Walks ==
  ASSUME NEW c \in Clusters
  PROVE  \E w \in [Nat -> Seq(Clusters) \ {<<>>}] :
           /\ w[0] = <<c>> /\ \A n \in Nat : w[n + 1] = Extend(w[n])
           /\ Chain(c) = w[Cardinality(Clusters) - 1]
  <1> DEFINE X == Seq(Clusters) \ {<<>>}
  <1> DEFINE g == [s \in X |-> Extend(s)]
  <1> DEFINE Solves(w) == w = [n \in Nat |->
        IF n = 0 THEN <<c>>
        ELSE LET s == w[n - 1] IN
             IF fat[s[Len(s)]] \in Clusters THEN Append(s, fat[s[Len(s)]]) ELSE s]
  <1>1. <<c>> \in X /\ g \in [X -> X]
    <2>1. ASSUME NEW s \in X  PROVE Extend(s) \in X
      BY DEF Extend
    <2> HIDE DEF X
    <2> QED  BY <2>1 DEF X
  <1>2. PICK w \in [Nat -> X] : w[0] = <<c>> /\ \A n \in Nat : w[n + 1] = g[w[n]]
    <2> HIDE DEF X, g
    <2>1. \E w \in [Nat -> X] : w[0] = <<c>> /\ \A n \in Nat : w[n + 1] = g[w[n]]
      <3>1. <<c>> \in X
        BY <1>1
      <3>2. g \in [X -> X]
        BY <1>1
      <3>3. \A a \in X : \E w \in [Nat -> X] : w[0] = a /\ \A n \in Nat : w[n + 1] = g[w[n]]
        BY <3>2, Iterate
      <3> QED  BY <3>1, <3>3
    <2> QED  BY <2>1
  <1>3. \A n \in Nat : w[n] \in X /\ w[n + 1] = Extend(w[n])
    <2> HIDE DEF X
    <2> QED  BY <1>2
  <1>4. Solves(w)
    <2>1. ASSUME NEW n \in Nat  PROVE w[n] = IF n = 0 THEN <<c>> ELSE Extend(w[n - 1])
      <3>1. CASE n = 0
        BY <1>2, <3>1
      <3>2. CASE n # 0
        <4>1. n - 1 \in Nat /\ (n - 1) + 1 = n
          BY <3>2
        <4> QED  BY <1>3, <3>2, <4>1
      <3> QED  BY <3>1, <3>2
    <2>2. w = [n \in Nat |-> w[n]]
      BY <1>2
    <2> HIDE DEF X
    <2> QED  BY <2>1, <2>2 DEF Extend
  <1> DEFINE r == CHOOSE v : Solves(v)
  <1>5. Solves(r)
    <2> HIDE DEF Solves
    <2> QED  BY <1>4
  <1>6. \A n \in Nat : r[n] = IF n = 0 THEN <<c>> ELSE Extend(r[n - 1])
    <2> HIDE DEF r
    <2> QED  BY <1>5 DEF Extend
  <1>7. Chain(c) = r[Cardinality(Clusters) - 1]
    BY DEF Chain
  <1>8. \A n \in Nat : r[n] = w[n]
    <2> DEFINE Bad == {n \in Nat : r[n] # w[n]}
    <2> SUFFICES ASSUME Bad # {}  PROVE FALSE
      OBVIOUS
    <2>1. PICK k \in Bad : \A m \in Bad : k <= m
      BY LeastNumber
    <2> HIDE DEF r
    <2>2. k # 0
      BY <1>2, <1>6, <2>1
    <2>3. k - 1 \in Nat /\ (k - 1) + 1 = k /\ k - 1 \notin Bad
      <3>1. k \in Nat
        BY <2>1
      <3>2. k - 1 \in Nat /\ (k - 1) + 1 = k /\ ~(k <= k - 1)
        BY <2>2, <3>1
      <3> HIDE DEF Bad
      <3> QED  BY <2>1, <3>2
    <2>4. r[k - 1] = w[k - 1]
      BY <2>3
    <2> QED  BY <1>3, <1>6, <2>1, <2>2, <2>3, <2>4
  <1>9. Cardinality(Clusters) - 1 \in Nat
    <2>1. Cardinality(Clusters) \in Nat /\ Cardinality(Clusters) # 0
      BY ContentAssumption, FS_CardinalityType, FS_EmptySet
    <2> QED  BY <2>1
  <1> HIDE DEF r, X
  <1> QED  BY <1>2, <1>3, <1>7, <1>8, <1>9 DEF X

\* Whatever the table holds, a walk visits clusters, and c first.
LEMMA ChainTypes ==
  ASSUME NEW c \in Clusters
  PROVE  Chain(c) \in Seq(Clusters) /\ Chain(c) # <<>> /\ Chain(c)[1] = c
  <1>1. PICK w \in [Nat -> Seq(Clusters) \ {<<>>}] :
           /\ w[0] = <<c>> /\ \A n \in Nat : w[n + 1] = Extend(w[n])
           /\ Chain(c) = w[Cardinality(Clusters) - 1]
    BY Walks
  <1>2. Cardinality(Clusters) - 1 \in Nat
    <2>1. Cardinality(Clusters) \in Nat /\ Cardinality(Clusters) # 0
      BY ContentAssumption, FS_CardinalityType, FS_EmptySet
    <2> QED  BY <2>1
  <1>3. \A n \in Nat : w[n][1] = c
    <2> DEFINE Bad == {n \in Nat : w[n][1] # c}
    <2> SUFFICES ASSUME Bad # {}  PROVE FALSE
      OBVIOUS
    <2>1. PICK k \in Bad : \A m \in Bad : k <= m
      BY LeastNumber
    <2>2. k # 0
      BY <1>1, <2>1
    <2>3. k - 1 \in Nat /\ (k - 1) + 1 = k /\ k - 1 \notin Bad
      <3>1. k \in Nat
        BY <2>1
      <3>2. k - 1 \in Nat /\ (k - 1) + 1 = k /\ ~(k <= k - 1)
        BY <2>2, <3>1
      <3> HIDE DEF Bad
      <3> QED  BY <2>1, <3>2
    <2>4. w[k - 1][1] = c /\ w[k] = Extend(w[k - 1]) /\ w[k - 1] \in Seq(Clusters) \ {<<>>}
      BY <1>1, <2>3
    <2>5. ASSUME NEW s \in Seq(Clusters) \ {<<>>}  PROVE Extend(s)[1] = s[1]
      BY DEF Extend
    <2> QED  BY <2>1, <2>4, <2>5
  <1> QED  BY <1>1, <1>2, <1>3

\* A whole chain is no longer than the volume has clusters.
LEMMA ChainLength ==
  ASSUME NEW T, NEW s, IsChain(T, s)
  PROVE  /\ s \in Seq(Clusters) /\ s \in [1 .. Len(s) -> Clusters] /\ s # <<>>
         /\ Len(s) \in Nat /\ Len(s) >= 1 /\ s[1] \in Clusters
         /\ Cardinality(Clusters) \in Nat /\ Len(s) <= Cardinality(Clusters)
  <1>1. s \in Seq(Clusters) /\ s # <<>>
    BY DEF IsChain
  <1>2. Len(s) \in Nat /\ s \in [1 .. Len(s) -> Clusters]
    BY <1>1, LenProperties
  <1>3. Len(s) >= 1
    BY <1>1, EmptySeq
  <1>4. s[1] \in Clusters
    <2>1. 1 \in 1 .. Len(s)
      BY <1>2, <1>3
    <2> QED  BY <1>2, <2>1
  <1>5. s \in Injection(1 .. Len(s), Clusters)
    <2>1. \A i, j \in 1 .. Len(s) : s[i] = s[j] => i = j
      BY DEF IsChain
    <2> QED  BY <1>2, <2>1 DEF Injection, IsInjective
  <1>6. IsFiniteSet(1 .. Len(s)) /\ Cardinality(1 .. Len(s)) = Len(s)
    <2>1. Cardinality(1 .. Len(s)) = IF 1 > Len(s) THEN 0 ELSE Len(s) - 1 + 1
      BY <1>2, FS_Interval
    <2>2. IsFiniteSet(1 .. Len(s))
      BY <1>2, FS_Interval
    <2> QED  BY <1>2, <1>3, <2>1, <2>2
  <1>7. Cardinality(1 .. Len(s)) <= Cardinality(Clusters)
    BY <1>5, <1>6, ContentAssumption, FS_Injection
  <1>8. Cardinality(Clusters) \in Nat
    BY ContentAssumption, FS_CardinalityType
  <1> QED  BY <1>1, <1>2, <1>3, <1>4, <1>6, <1>7, <1>8

\* The lesser of a number and a bound, at and before the bound.
LEMMA LeastIs ==
  ASSUME NEW k \in Nat, NEW l \in Nat
  PROVE  /\ k < l => Least(k, l) = k /\ Least(k + 1, l) = k + 1
         /\ ~(k < l) => Least(k, l) = l /\ Least(k + 1, l) = l
  BY DEF Least

\* Following the links of a whole chain finds the chain.
LEMMA ChainIs ==
  \A s : IsChain(fat, s) => Chain(s[1]) = s
  <1> SUFFICES ASSUME NEW s, IsChain(fat, s)  PROVE Chain(s[1]) = s
    OBVIOUS
  <1> DEFINE L == Len(s)
  <1> DEFINE C == Cardinality(Clusters)
  <1>1. /\ s \in Seq(Clusters) /\ s \in [1 .. L -> Clusters] /\ s # <<>>
        /\ L \in Nat /\ L >= 1 /\ s[1] \in Clusters
        /\ C \in Nat /\ L <= C
    BY ChainLength
  <1>2. /\ \A i \in 1 .. L - 1 : fat[s[i]] = s[i + 1]
        /\ fat[s[L]] = END
    BY DEF IsChain
  <1>3. PICK w \in [Nat -> Seq(Clusters) \ {<<>>}] :
           /\ w[0] = <<s[1]>> /\ \A n \in Nat : w[n + 1] = Extend(w[n])
           /\ Chain(s[1]) = w[C - 1]
    BY <1>1, Walks
  <1> HIDE DEF C
  <1>4. \A n \in Nat : w[n] = SubSeq(s, 1, Least(n + 1, L))
    <2> DEFINE Bad == {n \in Nat : w[n] # SubSeq(s, 1, Least(n + 1, L))}
    <2> SUFFICES ASSUME Bad # {}  PROVE FALSE
      OBVIOUS
    <2>1. PICK k \in Bad : \A n \in Bad : k <= n
      BY LeastNumber
    <2>2. k \in Nat /\ w[k] # SubSeq(s, 1, Least(k + 1, L))
      BY <2>1
    <2>3. k # 0
      <3>1. SUFFICES ASSUME k = 0  PROVE FALSE
        OBVIOUS
      <3>2. Least(0 + 1, L) = 1
        <4> HIDE DEF L
        <4> QED  BY <1>1 DEF Least
      <3>3. SubSeq(s, 1, 1) = <<s[1]>>
        <4>1. 1 \in 1 .. Len(s) /\ 1 \in 1 .. Len(s)
          BY <1>1
        <4>2. SubSeq(s, 1, 1) = <<s[1]>> \o SubSeq(s, 1 + 1, 1)
          BY <1>1, <4>1, SubSeqRecursiveFirst
        <4>3. SubSeq(s, 1 + 1, 1) = <<>>
          BY SubSeqEmpty
        <4>4. <<s[1]>> \in Seq(Clusters)
          BY <1>1
        <4> QED  BY <4>2, <4>3, <4>4, ConcatEmptySeq
      <3> QED  BY <1>3, <2>2, <3>1, <3>2, <3>3
    <2>4. k - 1 \in Nat /\ (k - 1) + 1 = k /\ k - 1 \notin Bad
      <3>1. k - 1 \in Nat /\ (k - 1) + 1 = k /\ ~(k <= k - 1)
        BY <2>2, <2>3
      <3> HIDE DEF Bad
      <3> QED  BY <2>1, <3>1
    <2> DEFINE m == Least(k, L)
    <2>5. m \in Nat /\ m >= 1 /\ m <= L
      <3> HIDE DEF L
      <3> QED  BY <1>1, <2>2, <2>3 DEF Least
    <2> DEFINE u == SubSeq(s, 1, m)
    <2>6. w[k - 1] = u /\ w[k] = Extend(u)
      <3>1. w[k - 1] = SubSeq(s, 1, Least((k - 1) + 1, L))
        BY <2>4
      <3>2. w[(k - 1) + 1] = Extend(w[k - 1])
        BY <1>3, <2>4
      <3> QED  BY <2>4, <3>1, <3>2
    <2>7. u \in Seq(Clusters) /\ Len(u) = m /\ u[m] = s[m]
      <3>1. \A i \in 1 .. m : s[i] \in Clusters
        <4> HIDE DEF m, L
        <4>1. \A i \in 1 .. m : i \in 1 .. L
          BY <1>1, <2>5
        <4> QED  BY <1>1, <4>1
      <3> HIDE DEF m
      <3>2. /\ u \in Seq(Clusters) /\ Len(u) = (IF 1 <= m THEN m - 1 + 1 ELSE 0)
            /\ \A i \in 1 .. m - 1 + 1 : u[i] = s[1 + i - 1]
        BY <2>5, <3>1, SubSeqProperties
      <3>3. m \in 1 .. m - 1 + 1 /\ 1 + m - 1 = m /\ m - 1 + 1 = m
        BY <2>5
      <3> HIDE DEF u
      <3> QED  BY <2>5, <3>2, <3>3
    <2>8. CASE k < L
      <3>1. m = k /\ Least(k + 1, L) = k + 1 /\ k \in 1 .. L - 1 /\ k + 1 \in 1 .. L
        <4> HIDE DEF L
        <4>1. L \in Nat /\ k \in Nat
          BY <1>1, <2>2
        <4> HIDE DEF m
        <4>2. Least(k, L) = k /\ Least(k + 1, L) = k + 1
          BY <2>8, <4>1, LeastIs
        <4>3. m = k
          BY <4>2 DEF m
        <4> QED  BY <2>3, <2>8, <4>1, <4>2, <4>3
      <3>2. fat[s[k]] = s[k + 1] /\ s[k + 1] \in Clusters
        BY <1>1, <1>2, <3>1
      <3>3. w[k] = Append(u, s[k + 1])
        <4> HIDE DEF u
        <4> QED  BY <2>6, <2>7, <3>1, <3>2 DEF Extend
      <3>4. Append(u, s[k + 1]) = SubSeq(s, 1, k + 1)
        <4>1. Append(u, s[k + 1]) = u \o <<s[k + 1]>>
          <5> HIDE DEF u
          <5> QED  BY <2>7, <3>2, AppendIsConcat
        <4>2. 1 \in 1 .. Len(s) /\ k + 1 \in 1 .. Len(s) /\ (k + 1) - 1 = k
          BY <1>1, <2>2, <3>1
        <4>3. SubSeq(s, 1, k + 1) = SubSeq(s, 1, (k + 1) - 1) \o <<s[k + 1]>>
          BY <1>1, <4>2, SubSeqRecursiveSecond
        <4> QED  BY <3>1, <4>1, <4>2, <4>3
      <3> QED  BY <2>2, <3>1, <3>3, <3>4
    <2>9. CASE ~(k < L)
      <3>1. m = L /\ Least(k + 1, L) = L
        <4> HIDE DEF L
        <4>1. L \in Nat /\ k \in Nat
          BY <1>1, <2>2
        <4> QED  BY <2>9, <4>1, LeastIs
      <3>2. fat[s[m]] \notin Clusters
        BY <1>2, <3>1, ContentAssumption
      <3>3. w[k] = u
        <4> HIDE DEF u, m
        <4> QED  BY <2>6, <2>7, <3>2 DEF Extend
      <3> QED  BY <2>2, <3>1, <3>3
    <2> QED  BY <2>8, <2>9
  <1>5. C - 1 \in Nat /\ Least((C - 1) + 1, L) = L
    <2> HIDE DEF L
    <2> QED  BY <1>1 DEF Least
  <1>6. SubSeq(s, 1, L) = s
    BY <1>1, SubSeqFull
  <1> QED  BY <1>3, <1>4, <1>5, <1>6

\* No entry of a whole chain is FREE, and only these entries make it one.
LEMMA ChainUsed ==
  ASSUME NEW T, NEW s, IsChain(T, s)
  PROVE  /\ \A c \in Range(s) : c \in Clusters /\ T[c] # FREE
         /\ s[1] \in Range(s)
         /\ \A U : (\A c \in Range(s) : U[c] = T[c]) => IsChain(U, s)
  <1> DEFINE L == Len(s)
  <1>1. /\ s \in Seq(Clusters) /\ s \in [1 .. L -> Clusters] /\ L \in Nat /\ L >= 1
    BY ChainLength
  <1>2. Range(s) = {s[i] : i \in 1 .. L}
    BY <1>1, RangeEquality
  <1>3. 1 \in 1 .. L /\ L \in 1 .. L /\ \A i \in 1 .. L : i # L => i \in 1 .. L - 1 /\ i + 1 \in 1 .. L
    <2> HIDE DEF L
    <2> QED  BY <1>1
  <1>4. /\ \A i \in 1 .. L - 1 : T[s[i]] = s[i + 1]
        /\ T[s[L]] = END /\ s # <<>>
        /\ \A i, j \in 1 .. L : s[i] = s[j] => i = j
    BY DEF IsChain
  <1> HIDE DEF L
  <1>5. ASSUME NEW c \in Range(s)  PROVE c \in Clusters /\ T[c] # FREE
    <2>1. PICK i \in 1 .. L : c = s[i]
      BY <1>2
    <2>2. CASE i = L
      BY <1>1, <1>4, <2>1, <2>2, ContentAssumption
    <2>3. CASE i # L
      <3>1. T[c] = s[i + 1] /\ s[i + 1] \in Clusters
        BY <1>1, <1>3, <1>4, <2>1, <2>3
      <3> QED  BY <1>1, <2>1, <3>1, ContentAssumption
    <2> QED  BY <2>2, <2>3
  <1>6. ASSUME NEW U, \A c \in Range(s) : U[c] = T[c]  PROVE IsChain(U, s)
    <2>1. \A i \in 1 .. L : U[s[i]] = T[s[i]]
      BY <1>2, <1>6
    <2>2. \A i \in 1 .. L - 1 : i \in 1 .. L
      BY <1>1
    <2> QED  BY <1>1, <1>3, <1>4, <2>1, <2>2 DEF IsChain, L
  <1> QED  BY <1>2, <1>3, <1>5, <1>6

\* What alloc_cluster yields in several calls.
LEMMA FreshIs ==
  ASSUME NEW n, NEW new \in Fresh(n)
  PROVE  /\ new \in Seq(Clusters) /\ Range(new) \subseteq Free
         /\ Len(new) \in Nat /\ (n \in Nat => Len(new) <= n)
         /\ \A i, j \in 1 .. Len(new) : new[i] = new[j] => i = j
  <1>1. PICK k \in 0 .. Least(n, Cardinality(Free)) : new \in Injection(1 .. k, Free)
    BY DEF Fresh
  <1>2. new \in [1 .. k -> Free] /\ (\A i, j \in 1 .. k : new[i] = new[j] => i = j) /\ k \in Nat
    BY <1>1 DEF Injection, IsInjective
  <1>3. new \in Seq(Free) /\ Len(new) = k
    BY <1>2
  <1>4. Free \subseteq Clusters
    BY DEF Free
  <1>5. Range(new) \subseteq Free
    BY <1>3, RangeOfSeq
  <1>6. n \in Nat => k <= n
    <2>1. IsFiniteSet(Free)
      BY <1>4, ContentAssumption, FS_Subset
    <2>2. Cardinality(Free) \in Nat
      BY <2>1, FS_CardinalityType
    <2> QED  BY <1>1, <2>2 DEF Least
  <1> QED  BY <1>2, <1>3, <1>4, <1>5, <1>6, SeqMonotonic

(* What an append makes of the table.  The clusters of s \o new from the   *)
(* last one of s on are rewritten, the others are left alone.              *)
LEMMA AppendedIs ==
  ASSUME NEW s \in Seq(Clusters), NEW new \in Seq(Clusters),
         \A i, j \in 1 .. Len(s \o new) : (s \o new)[i] = (s \o new)[j] => i = j
  PROVE  /\ \A i \in 1 .. Len(s \o new) - 1 :
              i >= Len(s) => Appended(s, new)[(s \o new)[i]] = (s \o new)[i + 1]
         /\ new # <<>> => Appended(s, new)[(s \o new)[Len(s \o new)]] = END
         /\ \A c \in Clusters :
              new = <<>> \/ (\A i \in 1 .. Len(s \o new) : i >= Len(s) => (s \o new)[i] # c)
                => Appended(s, new)[c] = fat[c]
  <1> DEFINE all == s \o new
  <1> DEFINE L == Len(all)
  <1> DEFINE K == Len(s)
  <1>1. /\ all \in Seq(Clusters) /\ all \in [1 .. L -> Clusters] /\ L \in Nat
        /\ K \in Nat /\ K <= L /\ (new = <<>> => L = K) /\ (new # <<>> => K < L)
    <2>1. /\ all \in Seq(Clusters) /\ L = K + Len(new) /\ K \in Nat /\ Len(new) \in Nat
          /\ (new = <<>> => Len(new) = 0) /\ (new # <<>> => Len(new) # 0)
      BY ConcatProperties, LenProperties, EmptySeq
    <2>2. all \in [1 .. L -> Clusters]
      <3> HIDE DEF all
      <3> QED  BY <2>1, LenProperties
    <2> HIDE DEF all, L, K
    <2> QED  BY <2>1, <2>2
  <1> DEFINE At(c, i) == i \in K .. L - 1 /\ i > 0 /\ all[i] = c
  <1>2. Appended(s, new) =
          [c \in Clusters |->
             CASE new # <<>> /\ c = all[L] -> END
               [] \E i \in K .. L - 1 : i > 0 /\ all[i] = c ->
                    all[1 + CHOOSE i \in K .. L - 1 : i > 0 /\ all[i] = c]
               [] OTHER -> fat[c]]
    BY DEF Appended
  <1>3. \A i, j \in 1 .. L : all[i] = all[j] => i = j
    OBVIOUS
  <1> HIDE DEF all, L, K
  <1>4. ASSUME NEW i \in 1 .. L - 1, i >= K  PROVE Appended(s, new)[all[i]] = all[i + 1]
    <2>1. i \in K .. L - 1 /\ i > 0 /\ i \in 1 .. L /\ L \in 1 .. L /\ i # L
      BY <1>1, <1>4
    <2>2. all[i] # all[L] /\ all[i] \in Clusters
      BY <1>1, <1>3, <2>1
    <2>3. ASSUME NEW j \in K .. L - 1, j > 0, all[j] = all[i]  PROVE j = i
      <3>1. j \in 1 .. L
        BY <1>1, <2>3
      <3> QED  BY <1>3, <2>1, <2>3, <3>1
    <2>4. (CHOOSE j \in K .. L - 1 : j > 0 /\ all[j] = all[i]) = i
      BY <2>1, <2>3
    <2>5. Appended(s, new)[all[i]] = all[1 + CHOOSE j \in K .. L - 1 : j > 0 /\ all[j] = all[i]]
      BY <1>2, <2>1, <2>2
    <2>6. 1 + i = i + 1
      BY <2>1
    <2> QED  BY <2>4, <2>5, <2>6
  <1>5. ASSUME new # <<>>  PROVE Appended(s, new)[all[L]] = END
    <2>1. all[L] \in Clusters
      <3>1. L \in 1 .. L
        BY <1>1, <1>5
      <3> QED  BY <1>1, <3>1
    <2>2. ~ \E i \in K .. L - 1 : i > 0 /\ all[i] = all[L]
      <3>1. ASSUME NEW i \in K .. L - 1, i > 0  PROVE all[i] # all[L]
        <4>1. i \in 1 .. L /\ L \in 1 .. L /\ i # L
          BY <1>1, <3>1
        <4> QED  BY <1>3, <4>1
      <3> QED  BY <3>1
    <2>3. Appended(s, new)[all[L]] =
             CASE new # <<>> /\ all[L] = all[L] -> END
               [] \E i \in K .. L - 1 : i > 0 /\ all[i] = all[L] ->
                    all[1 + CHOOSE i \in K .. L - 1 : i > 0 /\ all[i] = all[L]]
               [] OTHER -> fat[all[L]]
      BY <1>2, <2>1
    <2> QED  BY <1>5, <2>2, <2>3
  <1>6. ASSUME NEW c \in Clusters,
               new = <<>> \/ (\A i \in 1 .. L : i >= K => all[i] # c)
        PROVE  Appended(s, new)[c] = fat[c]
    <2>1. ~ \E i \in K .. L - 1 : i > 0 /\ all[i] = c
      <3>1. CASE new = <<>>
        BY <1>1, <3>1
      <3>2. CASE \A i \in 1 .. L : i >= K => all[i] # c
        <4>1. \A i \in K .. L - 1 : i > 0 => i \in 1 .. L /\ i >= K
          BY <1>1
        <4> QED  BY <3>2, <4>1
      <3> QED  BY <1>6, <3>1, <3>2
    <2>2. ~(new # <<>> /\ c = all[L])
      <3>1. new # <<>> => L \in 1 .. L /\ L >= K
        BY <1>1
      <3> QED  BY <1>6, <3>1
    <2> QED  BY <1>2, <2>1, <2>2
  <1> QED  BY <1>4, <1>5, <1>6 DEF all, L, K

\* A chain that has been appended to is a chain.
LEMMA AppendedChain ==
  ASSUME NEW s \in Seq(Clusters), NEW new \in Seq(Clusters),
         \A i, j \in 1 .. Len(s \o new) : (s \o new)[i] = (s \o new)[j] => i = j,
         \A i \in 1 .. Len(s) - 1 : fat[s[i]] = s[i + 1],
         s \o new # <<>>,
         new = <<>> => fat[s[Len(s)]] = END
  PROVE  IsChain(Appended(s, new), s \o new)
  <1> DEFINE all == s \o new
  <1> DEFINE L == Len(all)
  <1> DEFINE K == Len(s)
  <1> DEFINE A == Appended(s, new)
  <1>1. /\ all \in Seq(Clusters) /\ L \in Nat /\ L >= 1 /\ K \in Nat /\ K <= L
        /\ all \in [1 .. L -> Clusters]
        /\ \A i \in 1 .. K : all[i] = s[i]
        /\ new = <<>> => L = K /\ all = s
    <2>1. /\ all \in Seq(Clusters) /\ L = K + Len(new) /\ K \in Nat /\ Len(new) \in Nat
          /\ new = <<>> => Len(new) = 0 /\ all = s
      BY ConcatProperties, LenProperties, EmptySeq, ConcatEmptySeq
    <2>2. \A i \in 1 .. K + Len(new) : all[i] = IF i <= K THEN s[i] ELSE new[i - K]
      BY ConcatProperties
    <2>3. all \in [1 .. L -> Clusters] /\ L \in Nat /\ L # 0
      <3> HIDE DEF all
      <3> QED  BY <2>1, LenProperties, EmptySeq DEF all
    <2> HIDE DEF all, L, K
    <2> QED  BY <2>1, <2>2, <2>3
  <1>2. /\ \A i \in 1 .. L - 1 : i >= K => A[all[i]] = all[i + 1]
        /\ new # <<>> => A[all[L]] = END
        /\ \A c \in Clusters : new = <<>> \/ (\A i \in 1 .. L : i >= K => all[i] # c)
                                 => A[c] = fat[c]
    BY AppendedIs
  <1>3. \A i, j \in 1 .. L : all[i] = all[j] => i = j
    OBVIOUS
  <1>4. \A i \in 1 .. K - 1 : fat[s[i]] = s[i + 1]
    OBVIOUS
  <1>5. new = <<>> => fat[s[K]] = END
    OBVIOUS
  <1> HIDE DEF all, L, K, A
  <1>6. ASSUME NEW i \in 1 .. L - 1  PROVE A[all[i]] = all[i + 1]
    <2>1. CASE i >= K
      BY <1>2, <2>1
    <2>2. CASE ~(i >= K)
      <3>1. i \in 1 .. K - 1 /\ i \in 1 .. K /\ i + 1 \in 1 .. K /\ i \in 1 .. L
        BY <1>1, <2>2
      <3>2. \A j \in 1 .. L : j >= K => all[j] # all[i]
        BY <1>3, <2>2, <3>1
      <3>3. all[i] \in Clusters
        BY <1>1, <3>1
      <3>4. A[all[i]] = fat[all[i]]
        BY <1>2, <3>2, <3>3
      <3> QED  BY <1>1, <1>4, <3>1, <3>4
    <2> QED  BY <2>1, <2>2
  <1>7. A[all[L]] = END
    <2>1. CASE new = <<>>
      <3>1. L \in 1 .. L /\ all[L] \in Clusters /\ all[L] = s[K]
        BY <1>1, <2>1
      <3> QED  BY <1>2, <1>5, <2>1, <3>1
    <2> QED  BY <1>2, <2>1
  <1>8. all # <<>>
    BY DEF all
  <1> QED  BY <1>1, <1>3, <1>6, <1>7, <1>8 DEF IsChain, A, all, L

-----------------------------------------------------------------------------
(* Types.                                                                  *)
LEMMA AppendedTypes ==
  ASSUME TypeOK, NEW s \in Seq(Clusters), NEW new \in Seq(Clusters)
  PROVE  Appended(s, new) \in [Clusters -> Clusters \cup {FREE, END}]
  <1> DEFINE all == s \o new
  <1> DEFINE L == Len(all)
  <1> DEFINE K == Len(s)
  <1>1. all \in [1 .. L -> Clusters] /\ L \in Nat /\ K \in Nat
    <2>1. all \in Seq(Clusters) /\ K \in Nat
      BY ConcatProperties, LenProperties
    <2> HIDE DEF all
    <2> QED  BY <2>1, LenProperties
  <1>2. Appended(s, new) =
          [c \in Clusters |->
             CASE new # <<>> /\ c = all[L] -> END
               [] \E i \in K .. L - 1 : i > 0 /\ all[i] = c ->
                    all[1 + CHOOSE i \in K .. L - 1 : i > 0 /\ all[i] = c]
               [] OTHER -> fat[c]]
    BY DEF Appended
  <1> HIDE DEF all, L, K
  <1>3. ASSUME NEW c \in Clusters, \E i \in K .. L - 1 : i > 0 /\ all[i] = c
        PROVE  all[1 + CHOOSE i \in K .. L - 1 : i > 0 /\ all[i] = c] \in Clusters
    <2> DEFINE j == CHOOSE i \in K .. L - 1 : i > 0 /\ all[i] = c
    <2>1. j \in K .. L - 1 /\ j > 0
      BY <1>3
    <2> HIDE DEF j
    <2>2. 1 + j \in 1 .. L
      BY <1>1, <2>1
    <2>3. all[1 + j] \in Clusters
      BY <1>1, <2>2
    <2> QED  BY <2>3 DEF j
  <1>4. ASSUME NEW c \in Clusters
        PROVE  Appended(s, new)[c] \in Clusters \cup {FREE, END}
    <2>1. fat[c] \in Clusters \cup {FREE, END}
      BY DEF TypeOK
    <2> QED  BY <1>2, <1>3, <2>1
  <1> QED  BY <1>2, <1>4

\* Giving clusters back keeps the type of the table.
LEMMA FreedTypes ==
  ASSUME TypeOK, NEW s
  PROVE  Freed(s) \in [Clusters -> Clusters \cup {FREE, END}]
  BY DEF Freed, TypeOK

\* An open handle holds an entry.
LEMMA OpenTypes ==
  ASSUME TypeOK, NEW h \in Handles, table[h].open
  PROVE  /\ table[h] \in Opened /\ table[h].entry \in Entries
         /\ table[h].entry.dca \in Clusters
  <1>1. table[h] \in Opened \cup {Closed} /\ table[h] # Closed
    BY DEF TypeOK, Closed
  <1>2. table[h] \in Opened
    BY <1>1
  <1>3. table[h].entry \in Entries
    BY <1>2 DEF Opened
  <1> QED  BY <1>2, <1>3 DEF Entries

\* The bytes of a write are numbered.
LEMMA KeptTypes ==
  ASSUME NEW left, NEW n \in Nat, NEW old, NEW all, NEW kept \in Kept(left, n, old, all)
  PROVE  kept \subseteq Nat
  BY DEF Kept

\* What is left to be shown of a step that leaves most of the state alone.
LEMMA AgingTypes ==
  ASSUME NEW own, AgingBut(own)
  PROVE  stale' \subseteq {h \in Handles : table'[h].open}
  BY DEF AgingBut

\* Opening and creating files keeps the types.
LEMMA CallTypes ==
  ASSUME TypeOK, NEW d \in Dirs, NEW n \in Names,
         \/ \E m \in Modes : Open(d, n, m) \/ OpenCreate(d, n, m)
         \/ \E size \in Sizes : Put(d, n, size)
  PROVE  TypeOK'
  <1>1. CASE \E m \in Modes : Open(d, n, m) \/ OpenCreate(d, n, m)
    <2>1. PICK m \in Modes : Open(d, n, m) \/ OpenCreate(d, n, m)
      BY <1>1
    <2>2. PICK e \in Entries : Setup(e, m) /\ (entries' = entries \/ entries' = entries \cup {e})
      <3>1. CASE Open(d, n, m)
        BY <3>1 DEF Open, Found, TypeOK
      <3>2. CASE OpenCreate(d, n, m)
        BY <3>2 DEF OpenCreate, Free, Entries
      <3> QED  BY <2>1, <3>1, <3>2
    <2>3. table' \in [Handles -> Opened \cup {Closed}]
      <3>1. [open |-> TRUE, entry |-> e, mode |-> m] \in Opened
        BY DEF Opened
      <3> QED  BY <2>2, <3>1 DEF Setup, TypeOK
    <2>4. fat' \in [Clusters -> Clusters \cup {FREE, END}] /\ UNCHANGED <<data, moves, world>>
      BY <2>1 DEF Open, OpenCreate, TypeOK
    <2>5. Aging
      BY <2>1 DEF Open, OpenCreate
    <2> QED  BY <2>2, <2>3, <2>4, <2>5, AgingTypes DEF TypeOK, Aging
  <1>2. CASE \E size \in Sizes : Put(d, n, size)
    <2>1. PICK size \in Sizes : Put(d, n, size)
      BY <1>2
    <2>2. PICK s \in Fresh(size) \ {<<>>} :
            /\ fat' = Appended(<<>>, s)
            /\ entries' = entries \cup {[dir |-> d, name |-> n, dca |-> s[1]]}
      BY <2>1 DEF Put
    <2>3. s \in Seq(Clusters) /\ s[1] \in Clusters
      <3>1. s \in Seq(Clusters)
        BY <2>2, FreshIs
      <3> QED  BY <2>2, <3>1
    <2>4. fat' \in [Clusters -> Clusters \cup {FREE, END}]
      <3>1. <<>> \in Seq(Clusters)
        OBVIOUS
      <3> QED  BY <2>2, <2>3, <3>1, AppendedTypes
    <2>5. entries' \subseteq Entries
      BY <2>2, <2>3 DEF TypeOK, Entries
    <2>6. Aging /\ UNCHANGED <<data, table, moves, world>>
      BY <2>1 DEF Put
    <2> QED  BY <2>4, <2>5, <2>6, AgingTypes DEF TypeOK, Aging
  <1> QED  BY <1>1, <1>2

\* So does closing, deleting and spoiling.
LEMMA ShortTypes ==
  ASSUME TypeOK, \/ \E h \in Handles : Close(h) \/ Delete(h) \/ ChangeMeta(h)
                 \/ Unload
  PROVE  TypeOK'
  <1>1. entries' \subseteq entries /\ UNCHANGED <<data, moves, world>> /\ Aging
    BY DEF Close, Delete, ChangeMeta, Unload
  <1>2. table' \in [Handles -> Opened \cup {Closed}]
    BY DEF Close, Delete, ChangeMeta, Unload, TypeOK
  <1>3. fat' \in [Clusters -> Clusters \cup {FREE, END}]
    BY FreedTypes DEF Close, Delete, ChangeMeta, Unload, TypeOK
  <1> QED  BY <1>1, <1>2, <1>3, AgingTypes DEF TypeOK, Aging

\* So does writing.
LEMMA WriteTypes ==
  ASSUME TypeOK, NEW h \in Handles, NEW off \in Offsets, NEW n \in Sizes, Write(h, off, n)
  PROVE  TypeOK'
  <1> DEFINE s == Chain(table[h].entry.dca)
  <1> DEFINE left == Loop(off, n)
  <1>1. PICK new \in Fresh(Cardinality(Clusters)) :
          /\ fat' = Appended(s, new)
          /\ \E kept \in Kept(left, n, Len(s), Len(s \o new)) :
               data' = [c \in Clusters |-> [i \in 1 .. CellsPer |->
                          LET to == {b \in kept : \E k \in DOMAIN (s \o new) :
                                       (s \o new)[k] = c /\ Byte(left, n, k, i) = b}
                          IN IF to = {} THEN data[c][i]
                             ELSE <<moves + 1, CHOOSE b \in to : TRUE>>]]
    BY DEF Write
  <1>2. fat' \in [Clusters -> Clusters \cup {FREE, END}]
    <2>1. s \in Seq(Clusters)
      BY OpenTypes, ChainTypes DEF Write, Writable, Usable
    <2>2. new \in Seq(Clusters)
      BY FreshIs
    <2> HIDE DEF s
    <2> QED  BY <1>1, <2>1, <2>2, AppendedTypes
  <1>3. moves' \in 0 .. MaxMoves /\ moves + 1 \in 0 .. MaxMoves
    BY ContentAssumption DEF Write, TypeOK
  <1>4. data' \in [Clusters -> [1 .. CellsPer -> Cells]]
    <2> DEFINE all == s \o new
    <2>1. PICK kept \in Kept(left, n, Len(s), Len(all)) :
            data' = [c \in Clusters |-> [i \in 1 .. CellsPer |->
                       LET to == {b \in kept : \E k \in DOMAIN all :
                                    all[k] = c /\ Byte(left, n, k, i) = b}
                       IN IF to = {} THEN data[c][i]
                          ELSE <<moves + 1, CHOOSE b \in to : TRUE>>]]
      BY <1>1
    <2>2. n \in Nat
      BY ContentAssumption
    <2> HIDE DEF all, left, s
    <2>3. kept \subseteq Nat
      BY <2>1, <2>2, KeptTypes
    <2>4. ASSUME NEW c \in Clusters, NEW i \in 1 .. CellsPer, NEW to \in SUBSET Nat
          PROVE  (IF to = {} THEN data[c][i] ELSE <<moves + 1, CHOOSE b \in to : TRUE>>) \in Cells
      <3>1. data[c][i] \in Cells
        BY DEF TypeOK
      <3>2. ASSUME to # {}  PROVE (CHOOSE b \in to : TRUE) \in Nat
        BY <3>2
      <3> QED  BY <1>3, <3>1, <3>2 DEF Cells
    <2>5. ASSUME NEW c \in Clusters, NEW i \in 1 .. CellsPer
          PROVE  {b \in kept : \E k \in DOMAIN all : all[k] = c /\ Byte(left, n, k, i) = b} \in SUBSET Nat
      BY <2>3
    <2> QED  BY <2>1, <2>4, <2>5
  <1>5. UNCHANGED <<entries, table, world>> /\ Aging
    BY DEF Write
  <1> QED  BY <1>2, <1>3, <1>4, <1>5, AgingTypes DEF TypeOK, Aging

\* Copies fill clusters with what clusters held.
LEMMA CopyTypes ==
  ASSUME TypeOK, NEW src \in Handles, NEW dst \in Handles,
         Usable(src), Usable(dst),
         NEW new \in Fresh(Len(Chain(table[src].entry.dca)) - 1),
         NEW C \in SUBSET Range(<<table[dst].entry.dca>> \o new),
         data' = [c \in Clusters |->
                    IF c \in C
                    THEN data[Chain(table[src].entry.dca)[CHOOSE k \in DOMAIN (<<table[dst].entry.dca>> \o new) :
                                             (<<table[dst].entry.dca>> \o new)[k] = c]]
                    ELSE data[c]]
  PROVE  data' \in [Clusters -> [1 .. CellsPer -> Cells]]
  <1> DEFINE s == Chain(table[src].entry.dca)
  <1> DEFINE to == <<table[dst].entry.dca>> \o new
  <1>1. s \in Seq(Clusters) /\ s # <<>>
    BY OpenTypes, ChainTypes DEF Usable
  <1>2. s \in [1 .. Len(s) -> Clusters] /\ Len(s) \in Nat /\ Len(s) - 1 \in Nat
    <2> HIDE DEF s
    <2>1. s \in [1 .. Len(s) -> Clusters] /\ Len(s) \in Nat /\ Len(s) # 0
      BY <1>1, LenProperties, EmptySeq
    <2> QED  BY <2>1
  <1>3. new \in Seq(Clusters) /\ Len(new) \in Nat /\ Len(new) <= Len(s) - 1
    BY <1>2, FreshIs
  <1>4. DOMAIN to = 1 .. Len(to) /\ Len(to) = 1 + Len(new)
    <2>1. <<table[dst].entry.dca>> \in Seq(Clusters) /\ Len(<<table[dst].entry.dca>>) = 1
      BY OpenTypes DEF Usable
    <2>2. to \in Seq(Clusters) /\ Len(to) = 1 + Len(new)
      BY <1>3, <2>1, ConcatProperties
    <2> HIDE DEF to
    <2> QED  BY <2>2, LenProperties
  <1>5. ASSUME NEW c \in C  PROVE s[CHOOSE k \in DOMAIN to : to[k] = c] \in Clusters
    <2> DEFINE k == CHOOSE k \in DOMAIN to : to[k] = c
    <2>1. k \in DOMAIN to
      BY DEF Range
    <2> HIDE DEF k, to, s
    <2>2. k \in 1 .. Len(s)
      BY <1>2, <1>3, <1>4, <2>1
    <2> QED  BY <1>2, <2>2 DEF k
  <1>6. \A c \in Clusters : data[c] \in [1 .. CellsPer -> Cells]
    BY DEF TypeOK
  <1> QED  BY <1>5, <1>6

\* So do truncations and copies, those that fail included.
LEMMA ChangeTypes ==
  ASSUME TypeOK, NEW h \in Handles,
         \/ \E off \in Offsets, size \in Sizes : Truncate(h, off, size)
         \/ \E dst \in Handles : DeepCopy(h, dst) \/ DeepCopyFails(h, dst) \/ ShallowCopy(h, dst)
  PROVE  TypeOK'
  <1>1. moves' \in 0 .. MaxMoves /\ world' = world
    <2>1. moves' = moves + 1 /\ moves < MaxMoves /\ world' = world
      BY DEF Truncate, DeepCopy, DeepCopyFails, ShallowCopy
    <2>2. moves \in 0 .. MaxMoves /\ MaxMoves \in Nat
      BY ContentAssumption DEF TypeOK
    <2> QED  BY <2>1, <2>2
  <1>2. stale' \subseteq {k \in Handles : table'[k].open}
    BY AgingTypes DEF Truncate, DeepCopy, DeepCopyFails, ShallowCopy, Aging
  <1>3. CASE \E off \in Offsets, size \in Sizes : Truncate(h, off, size)
    <2>1. PICK off \in Offsets, size \in Sizes : Truncate(h, off, size)
      BY <1>3
    <2>2. entries' \subseteq entries /\ UNCHANGED <<data, table>>
      BY <2>1 DEF Truncate
    <2>3. fat' \in [Clusters -> Clusters \cup {FREE, END}]
      BY <2>1, FreedTypes DEF Truncate, TypeOK
    <2> QED  BY <1>1, <1>2, <2>2, <2>3 DEF TypeOK
  <1>4. CASE \E dst \in Handles : DeepCopy(h, dst) \/ DeepCopyFails(h, dst)
    <2>1. PICK dst \in Handles : DeepCopy(h, dst) \/ DeepCopyFails(h, dst)
      BY <1>4
    <2> DEFINE s == Chain(table[h].entry.dca)
    <2> DEFINE d == table[dst].entry.dca
    <2>2. Usable(h) /\ Usable(dst) /\ UNCHANGED <<entries, table>>
      BY <2>1 DEF DeepCopy, DeepCopyFails
    <2>3. PICK new \in Fresh(Len(s) - 1) :
            /\ \/ fat' = Appended(<<d>>, new)
               \/ \E t : fat' = Freed(t)
            /\ \E C \in SUBSET Range(<<d>> \o new) :
                 data' = [c \in Clusters |->
                            IF c \in C
                            THEN data[s[CHOOSE k \in DOMAIN (<<d>> \o new) : (<<d>> \o new)[k] = c]]
                            ELSE data[c]]
      <3>1. CASE DeepCopy(h, dst)
        <4>1. PICK new \in Fresh(Len(s) - 1) :
                /\ fat' = Appended(<<d>>, new)
                /\ data' = [c \in Clusters |->
                              IF c \in Range(<<d>> \o new)
                              THEN data[s[CHOOSE k \in DOMAIN (<<d>> \o new) : (<<d>> \o new)[k] = c]]
                              ELSE data[c]]
          BY <3>1 DEF DeepCopy
        <4> QED  BY <4>1
      <3>2. CASE DeepCopyFails(h, dst)
        <4>1. PICK new \in Fresh(Len(s) - 1) :
                /\ fat' = Freed(IF new = <<>> THEN Chain(d) ELSE <<d>>)
                /\ data' = [c \in Clusters |->
                              IF \E k \in 1 .. Len(new) : (<<d>> \o new)[k] = c
                              THEN data[s[CHOOSE k \in DOMAIN (<<d>> \o new) : (<<d>> \o new)[k] = c]]
                              ELSE data[c]]
          BY <3>2 DEF DeepCopyFails
        <4> DEFINE C == {(<<d>> \o new)[k] : k \in 1 .. Len(new)}
        <4>2. C \subseteq Range(<<d>> \o new)
          <5>1. <<d>> \in Seq(Clusters) /\ Len(<<d>>) = 1
            BY <2>2, OpenTypes DEF Usable
          <5>2. new \in Seq(Clusters) /\ Len(new) \in Nat
            BY FreshIs
          <5>3. <<d>> \o new \in Seq(Clusters) /\ Len(<<d>> \o new) = 1 + Len(new)
            BY <5>1, <5>2, ConcatProperties
          <5>4. DOMAIN (<<d>> \o new) = 1 .. 1 + Len(new)
            BY <5>3, LenProperties
          <5> QED  BY <5>2, <5>4 DEF Range
        <4>3. \A c : c \in C <=> \E k \in 1 .. Len(new) : (<<d>> \o new)[k] = c
          OBVIOUS
        <4>4. data' = [c \in Clusters |->
                         IF c \in C
                         THEN data[s[CHOOSE k \in DOMAIN (<<d>> \o new) : (<<d>> \o new)[k] = c]]
                         ELSE data[c]]
          <5> DEFINE Old(c) == data[s[CHOOSE k \in DOMAIN (<<d>> \o new) : (<<d>> \o new)[k] = c]]
          <5>1. data' = [c \in Clusters |->
                           IF \E k \in 1 .. Len(new) : (<<d>> \o new)[k] = c THEN Old(c) ELSE data[c]]
            BY <4>1
          <5> HIDE DEF C, s, d, Old
          <5>2. data' = [c \in Clusters |-> IF c \in C THEN Old(c) ELSE data[c]]
            BY <4>3, <5>1
          <5> QED  BY <5>2 DEF Old
        <4> HIDE DEF C, s, d
        <4> QED  BY <4>1, <4>2, <4>4
      <3> QED  BY <2>1, <3>1, <3>2
    <2>4. fat' \in [Clusters -> Clusters \cup {FREE, END}]
      <3>1. <<d>> \in Seq(Clusters)
        BY <2>2, OpenTypes DEF Usable
      <3>2. new \in Seq(Clusters)
        BY FreshIs
      <3>3. CASE fat' = Appended(<<d>>, new)
        <4> HIDE DEF d
        <4> QED  BY <3>1, <3>2, <3>3, AppendedTypes
      <3>4. CASE \E t : fat' = Freed(t)
        BY <3>4, FreedTypes
      <3> QED  BY <2>3, <3>3, <3>4
    <2>5. data' \in [Clusters -> [1 .. CellsPer -> Cells]]
      <3>1. PICK C \in SUBSET Range(<<d>> \o new) :
              data' = [c \in Clusters |->
                         IF c \in C
                         THEN data[s[CHOOSE k \in DOMAIN (<<d>> \o new) : (<<d>> \o new)[k] = c]]
                         ELSE data[c]]
        BY <2>3
      <3> QED  BY <2>2, <3>1, CopyTypes
    <2> QED  BY <1>1, <1>2, <2>2, <2>4, <2>5 DEF TypeOK
  <1>5. CASE \E dst \in Handles : ShallowCopy(h, dst)
    <2>1. PICK dst \in Handles : ShallowCopy(h, dst)
      BY <1>5
    <2>2. fat' \in [Clusters -> Clusters \cup {FREE, END}] /\ data' = data
      BY <2>1, FreedTypes DEF ShallowCopy
    <2>3. entries' \subseteq Entries
      <3>1. PICK e \in entries, f \in entries : entries' = (entries \ {f}) \cup {[e EXCEPT !.dir = f.dir]}
        BY <2>1 DEF ShallowCopy, FoundBy, Found
      <3> QED  BY <3>1 DEF TypeOK, Entries
    <2>4. table' \in [Handles -> Opened \cup {Closed}]
      <3>1. /\ table[dst] \in Opened /\ table[h].entry.dca \in Clusters
            /\ table' = [table EXCEPT ![dst].entry.dca = table[h].entry.dca]
        BY <2>1, OpenTypes DEF ShallowCopy, Usable
      <3>2. [table[dst] EXCEPT !.entry.dca = table[h].entry.dca] \in Opened
        BY <3>1 DEF Opened, Entries
      <3> QED  BY <3>1, <3>2 DEF TypeOK
    <2> QED  BY <1>1, <1>2, <2>2, <2>3, <2>4 DEF TypeOK
  <1> QED  BY <1>3, <1>4, <1>5

\* Every step keeps the types.
LEMMA TypesHold ==
  TypeOK /\ [Next]_vars => TypeOK'
  <1>1. ASSUME TypeOK, UNCHANGED vars  PROVE TypeOK'
    BY <1>1 DEF vars, TypeOK
  <1>2. ASSUME TypeOK, Next  PROVE TypeOK'
    BY <1>2, CallTypes, ShortTypes, WriteTypes, ChangeTypes DEF Next
  <1> QED  BY <1>1, <1>2

-----------------------------------------------------------------------------
(* Files.  Each head begins a whole chain, of clusters that are on no      *)
(* other head's chain, and no cluster begins the files of two entries.     *)
Apart ==
  /\ \A c \in Heads : IsChain(fat, Chain(c))
  /\ \A c, d \in Heads : c # d => Range(Chain(c)) \cap Range(Chain(d)) = {}
  /\ \A e, f \in entries : e.dca = f.dca => e = f

(* While entries go with nothing but the files they lead to, a usable      *)
(* handle's entry is there, and what is not FREE belongs to an entry.      *)
Settled ==
  world \subseteq {"io"} =>
    /\ \A h \in Handles : Usable(h) => table[h].entry \in entries
    /\ Clusters \ Free = UNION {Range(Chain(e.dca)) : e \in entries}

ContentInv == TypeOK /\ (Orderly => Apart /\ Settled)

\* Heads are clusters.
LEMMA HeadsAre ==
  ASSUME TypeOK
  PROVE  /\ Heads \subseteq Clusters
         /\ \A e \in entries : e.dca \in Heads
         /\ \A h \in Handles : Usable(h) => table[h].entry.dca \in Heads
  <1>1. \A e \in entries : e.dca \in Clusters
    BY DEF TypeOK, Entries
  <1>2. \A h \in Handles : Usable(h) => table[h].entry.dca \in Clusters
    BY OpenTypes DEF Usable
  <1> QED  BY <1>1, <1>2 DEF Heads

\* The same of the state after a step.
LEMMA ChainIsNext == (\A s : IsChain(fat, s) => Chain(s[1]) = s)'
  BY ChainIs, PTL

\* What an undisturbed head's chain is to the table and to its next state.
LEMMA HeadChain ==
  ASSUME TypeOK, Apart, NEW c \in Heads
  PROVE  /\ c \in Clusters /\ IsChain(fat, Chain(c)) /\ Chain(c)[1] = c /\ c \in Range(Chain(c))
         /\ \A y \in Range(Chain(c)) : y \in Clusters /\ fat[y] # FREE
         /\ (\A y \in Range(Chain(c)) : fat'[y] = fat[y]) =>
              IsChain(fat', Chain(c)) /\ Chain(c)' = Chain(c)
  <1>1. (\A s : IsChain(fat, s) => Chain(s[1]) = s)'
    BY ChainIsNext
  <1>2. c \in Clusters /\ IsChain(fat, Chain(c))
    BY HeadsAre DEF Apart
  <1>3. Chain(c)[1] = c
    BY <1>2, ChainTypes
  <1> DEFINE s == Chain(c)
  <1>4. /\ \A y \in Range(s) : y \in Clusters /\ fat[y] # FREE
        /\ s[1] \in Range(s)
        /\ \A U : (\A y \in Range(s) : U[y] = fat[y]) => IsChain(U, s)
    <2> HIDE DEF s
    <2> QED  BY <1>2, ChainUsed DEF s
  <1>5. \A t : IsChain(fat', t) /\ t[1] = c => Chain(c)' = t
    BY <1>1
  <1> QED  BY <1>2, <1>3, <1>4, <1>5

(* A step leaves the heads it leads to apart if it leaves all chains but   *)
(* that of x alone, and makes of that a chain t which meets no other one.  *)
LEMMA Reshaped ==
  ASSUME TypeOK, Apart, NEW x, NEW t,
         IsChain(fat', t), t[1] = x,
         \A c \in Heads' \ {x} : /\ c \in Heads
                                 /\ \A y \in Range(Chain(c)) : fat'[y] = fat[y]
                                 /\ Range(Chain(c)) \cap Range(t) = {},
         (\A e, f \in entries : e.dca = f.dca => e = f)'
  PROVE  /\ Apart' /\ Chain(x)' = t
         /\ \A c \in Heads' \ {x} : Chain(c)' = Chain(c)
  <1>1. (\A s : IsChain(fat, s) => Chain(s[1]) = s)'
    BY ChainIsNext
  <1>2. Chain(x)' = t
    BY <1>1
  <1>3. ASSUME NEW c \in Heads' \ {x}
        PROVE  c \in Heads /\ IsChain(fat', Chain(c)) /\ Chain(c)' = Chain(c)
    BY HeadChain
  <1>4. (\A c \in Heads : IsChain(fat, Chain(c)))'
    BY <1>2, <1>3
  <1>5. (\A c, d \in Heads : c # d => Range(Chain(c)) \cap Range(Chain(d)) = {})'
    <2>1. ASSUME NEW c \in Heads', NEW d \in Heads', c # d
          PROVE  Range(Chain(c)') \cap Range(Chain(d)') = {}
      <3>1. CASE c # x /\ d # x
        <4>1. Range(Chain(c)) \cap Range(Chain(d)) = {}
          BY <1>3, <2>1, <3>1 DEF Apart
        <4> QED  BY <1>3, <3>1, <4>1
      <3>2. CASE c = x
        <4>1. Range(Chain(d)) \cap Range(t) = {} /\ Chain(d)' = Chain(d) /\ Chain(c)' = t
          BY <1>2, <1>3, <2>1, <3>2
        <4> QED  BY <4>1
      <3>3. CASE d = x
        <4>1. Range(Chain(c)) \cap Range(t) = {} /\ Chain(c)' = Chain(c) /\ Chain(d)' = t
          BY <1>2, <1>3, <2>1, <3>3
        <4> QED  BY <4>1
      <3> QED  BY <3>1, <3>2, <3>3
    <2> QED  BY <2>1
  <1> QED  BY <1>2, <1>3, <1>4, <1>5 DEF Apart

\* The same if there is no such chain.
LEMMA Reduced ==
  ASSUME TypeOK, Apart, entries' \subseteq entries,
         \A c \in Heads' : c \in Heads /\ \A y \in Range(Chain(c)) : fat'[y] = fat[y]
  PROVE  /\ Apart' /\ \A c \in Heads' : Chain(c)' = Chain(c)
  <1>1. ASSUME NEW c \in Heads'
        PROVE  c \in Heads /\ IsChain(fat', Chain(c)) /\ Chain(c)' = Chain(c)
    BY HeadChain
  <1>2. (\A c \in Heads : IsChain(fat, Chain(c)))'
    BY <1>1
  <1>3. (\A c, d \in Heads : c # d => Range(Chain(c)) \cap Range(Chain(d)) = {})'
    <2>1. ASSUME NEW c \in Heads', NEW d \in Heads', c # d
          PROVE  Range(Chain(c)') \cap Range(Chain(d)') = {}
      <3>1. Range(Chain(c)) \cap Range(Chain(d)) = {}
        BY <1>1, <2>1 DEF Apart
      <3> QED  BY <1>1, <3>1
    <2> QED  BY <2>1
  <1>4. (\A e, f \in entries : e.dca = f.dca => e = f)'
    BY DEF Apart
  <1> QED  BY <1>1, <1>2, <1>3, <1>4 DEF Apart

(* The history of stale handles: who was a user and still is was not       *)
(* given back under its handle.                                            *)
LEMMA StillUsable ==
  ASSUME TypeOK, NEW own, AgingBut(own), NEW h \in Handles, Usable(h)', table[h].open
  PROVE  /\ Usable(h)
         /\ h \notin own /\ fat[table'[h].entry.dca] # FREE => fat'[table'[h].entry.dca] # FREE
  BY DEF AgingBut, Usable

\* A step that opens no handle and adds no entry adds no head.
LEMMA HeadsShrink ==
  ASSUME TypeOK, NEW own, AgingBut(own), entries' \subseteq entries,
         \A h \in Handles : table'[h].open => table'[h] = table[h]
  PROVE  /\ Heads' \subseteq Heads
         /\ \A h \in Handles : Usable(h)' => Usable(h) /\ table'[h] = table[h]
  <1>1. ASSUME NEW h \in Handles, Usable(h)'  PROVE Usable(h) /\ table'[h] = table[h]
    <2>1. table'[h] = table[h] /\ table[h].open
      BY <1>1 DEF Usable
    <2> QED  BY <1>1, <2>1, StillUsable
  <1>2. (Heads = {e.dca : e \in entries} \cup {table[h].entry.dca : h \in {k \in Handles : Usable(k)}})'
    BY DEF Heads
  <1>3. ASSUME NEW c \in Heads'  PROVE c \in Heads
    <2>1. CASE \E e \in entries' : c = e.dca
      BY <2>1 DEF Heads
    <2>2. CASE \E h \in Handles : Usable(h)' /\ c = table'[h].entry.dca
      BY <1>1, <2>2 DEF Heads
    <2> QED  BY <1>2, <2>1, <2>2
  <1> QED  BY <1>1, <1>3

\* A handle is given to an entry: a closed one, and no other changes.
LEMMA SetupIs ==
  ASSUME TypeOK, NEW e, NEW m, Setup(e, m)
  PROVE  \E h \in Handles : /\ ~table[h].open
                            /\ table'[h] = [open |-> TRUE, entry |-> e, mode |-> m]
                            /\ \A k \in Handles \ {h} : table'[k] = table[k]
  <1> DEFINE empty == {h \in Handles : ~table[h].open}
  <1> DEFINE low == CHOOSE h \in empty : \A k \in empty : h <= k
  <1>1. empty \subseteq Nat /\ empty # {}
    BY ContentAssumption DEF Setup, Handles
  <1>2. low \in empty
    BY <1>1, LeastNumber
  <1>3. table' = [table EXCEPT ![low] = [open |-> TRUE, entry |-> e, mode |-> m]]
    BY DEF Setup
  <1> HIDE DEF low
  <1> QED  BY <1>2, <1>3 DEF TypeOK

-----------------------------------------------------------------------------
(* The calls, one after another.                                           *)
QuietCall(h) == Close(h) \/ ChangeMeta(h) \/ Unload

\* Closing handles, and spoiling an entry, moves no chain.
LEMMA QuietCalls ==
  ASSUME ContentInv, Orderly, NEW h \in Handles, QuietCall(h)
  PROVE  Apart' /\ Settled'
  <1>1. TypeOK /\ Apart /\ Settled
    BY DEF ContentInv
  <1>2. fat' = fat /\ world' = world /\ Aging /\ entries' \subseteq entries
    BY DEF QuietCall, Close, ChangeMeta, Unload
  <1>3. \A k \in Handles : table'[k].open => table'[k] = table[k]
    <2>1. ASSUME NEW k \in Handles, NEW g \in Handles  PROVE [table EXCEPT ![g] = Closed][k] \in {table[k], Closed}
      BY <1>1 DEF TypeOK
    <2>2. ASSUME NEW k \in Handles  PROVE table'[k] \in {table[k], Closed}
      BY <2>1 DEF QuietCall, Close, ChangeMeta, Unload
    <2> QED  BY <2>2 DEF Closed
  <1>4. /\ Heads' \subseteq Heads
        /\ \A k \in Handles : Usable(k)' => Usable(k) /\ table'[k] = table[k]
    BY <1>1, <1>2, <1>3, HeadsShrink DEF Aging
  <1>5. Apart' /\ \A c \in Heads' : Chain(c)' = Chain(c)
    BY <1>1, <1>2, <1>4, Reduced
  <1>6. ASSUME world' \subseteq {"io"}
        PROVE  /\ (\A k \in Handles : Usable(k) => table[k].entry \in entries)'
               /\ (Clusters \ Free = UNION {Range(Chain(e.dca)) : e \in entries})'
    <2>1. entries' = entries
      <3>1. ~ChangeMeta(h)
        BY <1>2, <1>6 DEF ChangeMeta
      <3> QED  BY <3>1 DEF QuietCall, Close, Unload
    <2>2. /\ \A k \in Handles : Usable(k) => table[k].entry \in entries
          /\ Clusters \ Free = UNION {Range(Chain(e.dca)) : e \in entries}
      BY <1>1, <1>2, <1>6 DEF Settled
    <2>3. \A k \in Handles : Usable(k)' => table'[k].entry \in entries'
      BY <1>4, <2>1, <2>2
    <2>4. \A e \in entries : Chain(e.dca)' = Chain(e.dca)
      BY <1>5, <2>1 DEF Heads
    <2>5. Free' = Free
      BY <1>2 DEF Free
    <2>6. {Range(Chain(e.dca)') : e \in entries'} = {Range(Chain(e.dca)) : e \in entries}
      BY <2>1, <2>4
    <2> QED  BY <2>2, <2>3, <2>5, <2>6
  <1> QED  BY <1>5, <1>6 DEF Settled

\* Opening a file that is there gives its entry one more handle.
LEMMA Opens ==
  ASSUME ContentInv, Orderly, NEW d \in Dirs, NEW n \in Names, NEW m \in Modes, Open(d, n, m)
  PROVE  Apart' /\ Settled'
  <1>1. TypeOK /\ Apart /\ Settled
    BY DEF ContentInv
  <1>2. fat' = fat /\ world' = world /\ Aging /\ entries' = entries
    BY DEF Open
  <1>3. PICK e \in entries : Setup(e, m)
    BY DEF Open, Found
  <1>4. PICK g \in Handles : /\ ~table[g].open
                             /\ table'[g] = [open |-> TRUE, entry |-> e, mode |-> m]
                             /\ \A k \in Handles \ {g} : table'[k] = table[k]
    BY <1>1, <1>3, SetupIs
  <1>5. ASSUME NEW k \in Handles, Usable(k)'
        PROVE  \/ Usable(k) /\ table'[k] = table[k]
               \/ table'[k].entry = e
    <2>1. CASE k = g
      BY <1>4, <2>1
    <2>2. CASE k # g
      <3>1. table'[k] = table[k] /\ table[k].open
        BY <1>4, <1>5, <2>2 DEF Usable
      <3> QED  BY <1>1, <1>2, <1>5, <3>1, StillUsable DEF Aging
    <2> QED  BY <2>1, <2>2
  <1>6. Heads' \subseteq Heads
    <2>1. ASSUME NEW c \in Heads'  PROVE c \in Heads
      <3>1. \/ \E f \in entries' : c = f.dca
            \/ \E k \in Handles : Usable(k)' /\ c = table'[k].entry.dca
        BY DEF Heads
      <3> QED  BY <1>2, <1>5, <3>1 DEF Heads
    <2> QED  BY <2>1
  <1>7. Apart' /\ \A c \in Heads' : Chain(c)' = Chain(c)
    BY <1>1, <1>2, <1>6, Reduced
  <1>8. ASSUME world' \subseteq {"io"}
        PROVE  /\ (\A k \in Handles : Usable(k) => table[k].entry \in entries)'
               /\ (Clusters \ Free = UNION {Range(Chain(f.dca)) : f \in entries})'
    <2>1. /\ \A k \in Handles : Usable(k) => table[k].entry \in entries
          /\ Clusters \ Free = UNION {Range(Chain(f.dca)) : f \in entries}
      BY <1>1, <1>2, <1>8 DEF Settled
    <2>2. \A k \in Handles : Usable(k)' => table'[k].entry \in entries'
      BY <1>2, <1>5, <2>1
    <2>3. \A f \in entries : Chain(f.dca)' = Chain(f.dca)
      BY <1>2, <1>7 DEF Heads
    <2>4. Free' = Free
      BY <1>2 DEF Free
    <2>5. {Range(Chain(f.dca)') : f \in entries'} = {Range(Chain(f.dca)) : f \in entries}
      BY <1>2, <2>3
    <2> QED  BY <2>1, <2>2, <2>4, <2>5
  <1> QED  BY <1>7, <1>8 DEF Settled

\* One more set in a union.
LEMMA UnionWith ==
  ASSUME NEW A, NEW B
  PROVE  UNION (A \cup {B}) = (UNION A) \cup B
  OBVIOUS

(* Creating a file: an entry e of a new chain t, of clusters that were     *)
(* free, and perhaps a handle on it.                                       *)
LEMMA Creates ==
  ASSUME ContentInv, Orderly, world' = world, NEW e, NEW t,
         IsChain(fat', t), Range(t) \subseteq Free, e.dca = t[1],
         \A y \in Clusters \ Range(t) : fat'[y] = fat[y],
         entries' = entries \cup {e},
         \A k \in Handles : Usable(k)' => \/ Usable(k) /\ table'[k] = table[k]
                                          \/ table'[k].entry = e
  PROVE  Apart' /\ Settled'
  <1>1. TypeOK /\ Apart /\ Settled
    BY DEF ContentInv
  <1>2. t[1] \in Range(t) /\ \A y \in Range(t) : y \in Clusters /\ fat'[y] # FREE
    BY ChainUsed
  <1>3. ASSUME NEW c \in Heads
        PROVE  /\ Range(Chain(c)) \cap Range(t) = {} /\ c # t[1]
               /\ \A y \in Range(Chain(c)) : fat'[y] = fat[y]
    <2>1. c \in Range(Chain(c)) /\ \A y \in Range(Chain(c)) : y \in Clusters /\ y \notin Free
      BY <1>1, HeadChain DEF Free
    <2> QED  BY <1>2, <2>1
  <1>4. Heads' \ {t[1]} \subseteq Heads
    <2>1. ASSUME NEW c \in Heads', c # t[1]  PROVE c \in Heads
      <3>1. \/ \E f \in entries' : c = f.dca
            \/ \E k \in Handles : Usable(k)' /\ c = table'[k].entry.dca
        BY DEF Heads
      <3> QED  BY <2>1, <3>1 DEF Heads
    <2> QED  BY <2>1
  <1>5. \A f \in entries : f.dca # t[1]
    BY <1>3 DEF Heads
  <1>6. (\A f, g \in entries : f.dca = g.dca => f = g)'
    <2>1. ASSUME NEW f \in entries', NEW g \in entries', f.dca = g.dca  PROVE f = g
      BY <1>1, <1>5, <2>1 DEF Apart
    <2> QED  BY <2>1
  <1>7. Apart' /\ Chain(t[1])' = t /\ \A c \in Heads' \ {t[1]} : Chain(c)' = Chain(c)
    <2> DEFINE x == t[1]
    <2>1. \A c \in Heads' \ {x} : /\ c \in Heads
                                  /\ \A y \in Range(Chain(c)) : fat'[y] = fat[y]
                                  /\ Range(Chain(c)) \cap Range(t) = {}
      BY <1>3, <1>4
    <2> QED  BY <1>1, <1>6, <2>1, Reshaped
  <1>8. ASSUME world' \subseteq {"io"}
        PROVE  /\ (\A k \in Handles : Usable(k) => table[k].entry \in entries)'
               /\ (Clusters \ Free = UNION {Range(Chain(f.dca)) : f \in entries})'
    <2>1. /\ \A k \in Handles : Usable(k) => table[k].entry \in entries
          /\ Clusters \ Free = UNION {Range(Chain(f.dca)) : f \in entries}
      BY <1>1, <1>8 DEF Settled
    <2>2. \A k \in Handles : Usable(k)' => table'[k].entry \in entries'
      BY <2>1
    <2>3. \A f \in entries : Chain(f.dca)' = Chain(f.dca)
      <3>1. \A f \in entries : f.dca \in Heads' /\ f.dca # t[1]
        BY <1>5 DEF Heads
      <3> QED  BY <1>7, <3>1
    <2>4. Chain(e.dca)' = t
      BY <1>7
    <2>5. \A y : y \in (Clusters \ Free)' <=> y \in Clusters \ Free \/ y \in Range(t)
      BY <1>2 DEF Free
    <2> DEFINE Q == {Range(Chain(f.dca)') : f \in entries'}
    <2> DEFINE P == {Range(Chain(f.dca)) : f \in entries}
    <2>6. Q = P \cup {Range(t)}
      BY <2>3, <2>4
    <2> DEFINE Left == Clusters \ Free
    <2>7. Left = UNION P
      BY <2>1
    <2>8. (UNION Q) = (UNION P) \cup Range(t)
      <3> HIDE DEF P, Q
      <3> QED  BY <2>6, UnionWith
    <2>9. Left' = Left \cup Range(t)
      BY <2>5
    <2>10. Left' = UNION Q
      <3> HIDE DEF Left, P, Q
      <3> QED  BY <2>7, <2>8, <2>9
    <2> QED  BY <2>2, <2>10
  <1> QED  BY <1>7, <1>8 DEF Settled

\* NIFAT32_open_content creates a file of one cluster.
LEMMA OpenCreates ==
  ASSUME ContentInv, Orderly, NEW d \in Dirs, NEW n \in Names, NEW m \in Modes, OpenCreate(d, n, m)
  PROVE  Apart' /\ Settled'
  <1>1. TypeOK /\ Apart /\ Settled
    BY DEF ContentInv
  <1> DEFINE new(c) == [dir |-> d, name |-> n, dca |-> c]
  <1>2. PICK c \in Free : /\ Setup(new(c), m)
                          /\ fat' = [fat EXCEPT ![c] = END] /\ entries' = entries \cup {new(c)}
    BY DEF OpenCreate, Orderly
  <1> DEFINE e == new(c)
  <1>3. world' = world /\ Aging /\ c \in Clusters
    BY DEF OpenCreate, Free
  <1>4. PICK g \in Handles : /\ ~table[g].open
                             /\ table'[g] = [open |-> TRUE, entry |-> e, mode |-> m]
                             /\ \A k \in Handles \ {g} : table'[k] = table[k]
    BY <1>1, <1>2, SetupIs
  <1>5. ASSUME NEW k \in Handles, Usable(k)'
        PROVE  (Usable(k) /\ table'[k] = table[k]) \/ table'[k].entry = e
    <2> HIDE DEF e
    <2>1. CASE k = g
      BY <1>4, <2>1
    <2>2. CASE k # g
      <3>1. table'[k] = table[k] /\ table[k].open
        BY <1>4, <1>5, <2>2 DEF Usable
      <3> QED  BY <1>1, <1>3, <1>5, <3>1, StillUsable DEF Aging
    <2> QED  BY <2>1, <2>2
  <1> DEFINE t == <<c>>
  <1>6. Range(t) = {c} /\ t[1] = c /\ e.dca = c
    BY DEF Range
  <1>7. fat'[c] = END /\ \A y \in Clusters \ {c} : fat'[y] = fat[y]
    BY <1>1, <1>2, <1>3 DEF TypeOK
  <1>8. IsChain(fat', t)
    BY <1>3, <1>7 DEF IsChain
  <1>9. entries' = entries \cup {e}
    BY <1>2
  <1> HIDE DEF t, e
  <1> QED  BY <1>3, <1>5, <1>6, <1>7, <1>8, <1>9, Creates

\* NIFAT32_put_content creates a file of all the clusters it could get.
LEMMA Puts ==
  ASSUME ContentInv, Orderly, NEW d \in Dirs, NEW n \in Names, NEW r \in Sizes, Put(d, n, r)
  PROVE  Apart' /\ Settled'
  <1>1. TypeOK /\ Apart /\ Settled
    BY DEF ContentInv
  <1>2. PICK t \in Fresh(r) \ {<<>>} :
          /\ fat' = Appended(<<>>, t)
          /\ entries' = entries \cup {[dir |-> d, name |-> n, dca |-> t[1]]}
    BY DEF Put
  <1>3. world' = world /\ Aging /\ table' = table
    BY DEF Put
  <1>4. /\ t \in Seq(Clusters) /\ Range(t) \subseteq Free /\ Len(t) \in Nat
        /\ \A i, j \in 1 .. Len(t) : t[i] = t[j] => i = j
    BY <1>2, FreshIs
  <1>5. PICK z \in Seq(Clusters) : z = <<>> /\ z \o t = t /\ Len(z) = 0
    <2> DEFINE z == <<>>
    <2>1. z \in Seq(Clusters) /\ z = <<>> /\ z \o t = t /\ Len(z) = 0
      BY <1>4, ConcatEmptySeq
    <2> HIDE DEF z
    <2> QED  BY <2>1
  <1>6. IsChain(fat', t)
    <2>1. \A i \in 1 .. Len(z) - 1 : fat[z[i]] = z[i + 1]
      BY <1>5
    <2>2. IsChain(Appended(z, t), z \o t)
      <3>1. \A i, j \in 1 .. Len(z \o t) : (z \o t)[i] = (z \o t)[j] => i = j
        BY <1>4, <1>5
      <3>2. z \o t # <<>> /\ t # <<>>
        BY <1>2, <1>5
      <3> QED  BY <1>4, <2>1, <3>1, <3>2, AppendedChain
    <2> QED  BY <1>2, <1>5, <2>2
  <1>7. \A y \in Clusters \ Range(t) : fat'[y] = fat[y]
    <2>1. \A y \in Clusters : (\A i \in 1 .. Len(t) : t[i] # y) => Appended(z, t)[y] = fat[y]
      <3>1. \A i, j \in 1 .. Len(z \o t) : (z \o t)[i] = (z \o t)[j] => i = j
        BY <1>4, <1>5
      <3>2. \A y \in Clusters :
              t = <<>> \/ (\A i \in 1 .. Len(z \o t) : i >= Len(z) => (z \o t)[i] # y)
                => Appended(z, t)[y] = fat[y]
        BY <1>4, <3>1, AppendedIs
      <3> QED  BY <1>5, <3>2
    <2>2. \A i \in 1 .. Len(t) : t[i] \in Range(t)
      BY <1>4, RangeEquality
    <2>3. fat' = Appended(z, t)
      BY <1>2, <1>5
    <2> QED  BY <2>1, <2>2, <2>3
  <1>8. \A k \in Handles : Usable(k)' => Usable(k) /\ table'[k] = table[k]
    BY <1>1, <1>3, StillUsable DEF Aging, Usable
  <1> DEFINE e == [dir |-> d, name |-> n, dca |-> t[1]]
  <1>9. e.dca = t[1] /\ entries' = entries \cup {e}
    BY <1>2
  <1> HIDE DEF e
  <1> QED  BY <1>3, <1>4, <1>6, <1>7, <1>8, <1>9, Creates

(* Deleting a file: nobody's clusters but its own are given back, and the  *)
(* handles on it go stale.                                                 *)
LEMMA Deletes ==
  ASSUME ContentInv, Orderly, NEW h \in Handles, Delete(h)
  PROVE  Apart' /\ Settled'
  <1>1. TypeOK /\ Apart /\ Settled
    BY DEF ContentInv
  <1>2. PICK e \in entries : fat' = Freed(Chain(e.dca)) /\ entries' = entries \ {e}
    BY DEF Delete, FoundBy, Found
  <1>3. table' = [table EXCEPT ![h] = Closed] /\ world' = world /\ Aging
    BY DEF Delete
  <1>4. \A k \in Handles : table'[k].open => table'[k] = table[k]
    BY <1>1, <1>3 DEF TypeOK, Closed
  <1>5. /\ Heads' \subseteq Heads
        /\ \A k \in Handles : Usable(k)' => Usable(k) /\ table'[k] = table[k]
    BY <1>1, <1>2, <1>3, <1>4, HeadsShrink DEF Aging
  <1> DEFINE gone == Range(Chain(e.dca))
  <1>6. /\ \A y \in Clusters \ gone : fat'[y] = fat[y]
        /\ \A y \in gone : y \in Clusters /\ fat'[y] = FREE /\ fat[y] # FREE
        /\ e.dca \in gone /\ e.dca \in Heads
    <2>1. e.dca \in Heads
      BY <1>1, HeadsAre
    <2>2. e.dca \in gone /\ \A y \in gone : y \in Clusters /\ fat[y] # FREE
      BY <1>1, <2>1, HeadChain
    <2> QED  BY <1>2, <2>1, <2>2 DEF Freed
  <1>7. ASSUME NEW k \in Handles, Usable(k)'  PROVE table'[k].entry.dca # e.dca
    <2>1. Usable(k) /\ table'[k] = table[k]
      BY <1>5, <1>7
    <2>2. fat[table'[k].entry.dca] # FREE
      <3>1. table[k].entry.dca \in Heads
        BY <1>1, <2>1, HeadsAre
      <3> QED  BY <1>1, <2>1, <3>1, HeadChain
    <2>3. fat'[table'[k].entry.dca] # FREE
      BY <1>1, <1>3, <1>7, <2>1, <2>2, StillUsable DEF Aging, Usable
    <2> QED  BY <1>6, <2>3
  <1>8. \A f \in entries' : f \in entries /\ f.dca # e.dca
    BY <1>1, <1>2 DEF Apart
  <1>9. ASSUME NEW c \in Heads'
        PROVE  c \in Heads /\ c # e.dca /\ Range(Chain(c)) \cap gone = {}
               /\ \A y \in Range(Chain(c)) : fat'[y] = fat[y]
    <2>1. c \in Heads
      BY <1>5
    <2>2. c # e.dca
      <3>1. \/ \E f \in entries' : c = f.dca
            \/ \E k \in Handles : Usable(k)' /\ c = table'[k].entry.dca
        BY DEF Heads
      <3> QED  BY <1>7, <1>8, <3>1
    <2>3. Range(Chain(c)) \cap gone = {}
      BY <1>1, <1>6, <2>1, <2>2 DEF Apart
    <2>4. \A y \in Range(Chain(c)) : y \in Clusters
      BY <1>1, <2>1, HeadChain
    <2> QED  BY <1>6, <2>1, <2>2, <2>3, <2>4
  <1>10. Apart' /\ \A c \in Heads' : Chain(c)' = Chain(c)
    <2>1. entries' \subseteq entries
      BY <1>2
    <2> QED  BY <1>1, <1>9, <2>1, Reduced
  <1>11. ASSUME world' \subseteq {"io"}
         PROVE  /\ (\A k \in Handles : Usable(k) => table[k].entry \in entries)'
                /\ (Clusters \ Free = UNION {Range(Chain(f.dca)) : f \in entries})'
    <2>1. /\ \A k \in Handles : Usable(k) => table[k].entry \in entries
          /\ Clusters \ Free = UNION {Range(Chain(f.dca)) : f \in entries}
      BY <1>1, <1>3, <1>11 DEF Settled
    <2>2. ASSUME NEW k \in Handles, Usable(k)'  PROVE table'[k].entry \in entries'
      <3>1. table'[k].entry \in entries
        BY <1>5, <2>1, <2>2
      <3>2. table'[k].entry # e
        BY <1>7, <2>2
      <3> QED  BY <1>2, <3>1, <3>2
    <2>3. \A f \in entries' : Chain(f.dca)' = Chain(f.dca) /\ Range(Chain(f.dca)) \cap gone = {}
      <3>1. \A f \in entries' : f.dca \in Heads'
        BY DEF Heads
      <3> QED  BY <1>9, <1>10, <3>1
    <2> DEFINE Q == {Range(Chain(f.dca)') : f \in entries'}
    <2> DEFINE P == {Range(Chain(f.dca)) : f \in entries}
    <2> DEFINE Left == Clusters \ Free
    <2>4. P = Q \cup {gone} /\ \A R \in Q : R \cap gone = {}
      BY <1>2, <2>3
    <2>5. Left = UNION P
      BY <2>1
    <2>6. Left' = Left \ gone
      BY <1>6 DEF Free
    <2>7. Left' = UNION Q
      <3> HIDE DEF P, Q, Left, gone
      <3>1. (UNION P) = (UNION Q) \cup gone
        BY <2>4, UnionWith
      <3>2. (UNION Q) \cap gone = {}
        BY <2>4
      <3> QED  BY <2>5, <2>6, <3>1, <3>2
    <2> QED  BY <2>2, <2>7
  <1> QED  BY <1>10, <1>11 DEF Settled

(* A file is grown, cut or overwritten: its chain becomes t, which is made *)
(* of clusters of its own and such as were free.                           *)
LEMMA Regrown ==
  ASSUME TypeOK, Apart, entries' \subseteq entries, Heads' \subseteq Heads,
         NEW x \in Heads, NEW t, IsChain(fat', t), t[1] = x,
         Range(t) \subseteq Range(Chain(x)) \cup Free,
         \A y \in Clusters \ (Range(Chain(x)) \cup Range(t)) : fat'[y] = fat[y]
  PROVE  Apart' /\ Chain(x)' = t /\ \A c \in Heads' \ {x} : Chain(c)' = Chain(c)
  <1>1. ASSUME NEW c \in Heads' \ {x}
        PROVE  /\ c \in Heads
               /\ \A y \in Range(Chain(c)) : fat'[y] = fat[y]
               /\ Range(Chain(c)) \cap Range(t) = {}
    <2>1. c \in Heads /\ Range(Chain(c)) \cap Range(Chain(x)) = {}
      BY DEF Apart
    <2>2. \A y \in Range(Chain(c)) : y \in Clusters /\ y \notin Free
      BY <2>1, HeadChain DEF Free
    <2> QED  BY <2>1, <2>2
  <1>2. (\A e, f \in entries : e.dca = f.dca => e = f)'
    BY DEF Apart
  <1> QED  BY <1>1, <1>2, Reshaped

\* The chain of a file that new clusters are appended to.
LEMMA Grown ==
  ASSUME TypeOK, NEW s \in Seq(Clusters), s # <<>>, NEW n, NEW new \in Fresh(n),
         \A i, j \in 1 .. Len(s) : s[i] = s[j] => i = j,
         \A i \in 1 .. Len(s) - 1 : fat[s[i]] = s[i + 1],
         Range(s) \cap Free = {},
         new = <<>> => fat[s[Len(s)]] = END
  PROVE  /\ IsChain(Appended(s, new), s \o new) /\ (s \o new)[1] = s[1]
         /\ Range(s \o new) = Range(s) \cup Range(new)
         /\ new \in Seq(Clusters) /\ Range(new) \subseteq Free
         /\ \A y \in Clusters \ (Range(s) \cup Range(new)) : Appended(s, new)[y] = fat[y]
         /\ \A y \in Range(s) \cup Range(new) : y \in Clusters
  <1>1. /\ new \in Seq(Clusters) /\ Range(new) \subseteq Free /\ Len(new) \in Nat
        /\ \A i, j \in 1 .. Len(new) : new[i] = new[j] => i = j
    BY FreshIs
  <1> DEFINE all == s \o new
  <1>2. /\ all \in Seq(Clusters) /\ Len(s) \in Nat /\ Len(s) >= 1 /\ Len(all) = Len(s) + Len(new)
        /\ \A i \in 1 .. Len(s) + Len(new) : all[i] = IF i <= Len(s) THEN s[i] ELSE new[i - Len(s)]
    <2>1. all \in Seq(Clusters) /\ Len(all) = Len(s) + Len(new)
      BY <1>1, ConcatProperties
    <2>2. \A i \in 1 .. Len(s) + Len(new) : all[i] = IF i <= Len(s) THEN s[i] ELSE new[i - Len(s)]
      BY <1>1, ConcatProperties
    <2>3. Len(s) \in Nat /\ Len(s) # 0
      BY LenProperties, EmptySeq
    <2> HIDE DEF all
    <2> QED  BY <2>1, <2>2, <2>3
  <1>3. /\ Range(s) = {s[i] : i \in 1 .. Len(s)} /\ Range(new) = {new[i] : i \in 1 .. Len(new)}
        /\ Range(all) = {all[i] : i \in 1 .. Len(all)}
    <2>1. \A u \in Seq(Clusters) : Range(u) = {u[i] : i \in 1 .. Len(u)}
      BY RangeEquality
    <2> HIDE DEF all
    <2> QED  BY <1>1, <1>2, <2>1
  <1> DEFINE K == Len(s)
  <1> DEFINE N == Len(new)
  <1> HIDE DEF all, K, N
  <1>4. Range(all) = Range(s) \cup Range(new)
    <2>1. ASSUME NEW y \in Range(all)  PROVE y \in Range(s) \cup Range(new)
      <3>1. PICK i \in 1 .. K + N : y = all[i]
        BY <1>2, <1>3 DEF K, N
      <3>2. CASE i <= K
        <4>1. i \in 1 .. K
          BY <3>2
        <4> QED  BY <1>2, <1>3, <3>1, <3>2, <4>1 DEF K, N
      <3>3. CASE ~(i <= K)
        <4>1. i - K \in 1 .. N
          BY <1>1, <1>2, <3>3 DEF K, N
        <4> QED  BY <1>2, <1>3, <3>1, <3>3, <4>1 DEF K, N
      <3> QED  BY <3>2, <3>3
    <2>2. ASSUME NEW y \in Range(s)  PROVE y \in Range(all)
      <3>1. PICK i \in 1 .. K : y = s[i]
        BY <1>3 DEF K
      <3>2. i \in 1 .. K + N /\ i <= K
        BY <1>1, <1>2 DEF K, N
      <3> QED  BY <1>2, <1>3, <3>1, <3>2 DEF K, N
    <2>3. ASSUME NEW y \in Range(new)  PROVE y \in Range(all)
      <3>1. PICK i \in 1 .. N : y = new[i]
        BY <1>3 DEF N
      <3>2. i + K \in 1 .. K + N /\ ~(i + K <= K) /\ (i + K) - K = i
        BY <1>1, <1>2 DEF K, N
      <3> QED  BY <1>2, <1>3, <3>1, <3>2 DEF K, N
    <2> QED  BY <2>1, <2>2, <2>3
  <1>5. ASSUME NEW i \in 1 .. K + N, NEW j \in 1 .. K + N, all[i] = all[j]  PROVE i = j
    <2>1. K \in Nat /\ N \in Nat
      BY <1>1, <1>2 DEF K, N
    <2>2. /\ i <= K => i \in 1 .. K /\ all[i] = s[i] /\ all[i] \in Range(s)
          /\ j <= K => j \in 1 .. K /\ all[j] = s[j] /\ all[j] \in Range(s)
      BY <1>2, <1>3, <2>1 DEF K, N
    <2>3. /\ ~(i <= K) => i - K \in 1 .. N /\ all[i] = new[i - K] /\ all[i] \in Range(new)
          /\ ~(j <= K) => j - K \in 1 .. N /\ all[j] = new[j - K] /\ all[j] \in Range(new)
      <3>1. /\ ~(i <= K) => i - K \in 1 .. N
            /\ ~(j <= K) => j - K \in 1 .. N
        BY <2>1
      <3> QED  BY <1>2, <1>3, <3>1 DEF K, N
    <2>4. i <= K <=> j <= K
      BY <1>1, <1>5, <2>2, <2>3
    <2>5. CASE i <= K
      BY <1>5, <2>2, <2>4, <2>5 DEF K
    <2>6. CASE ~(i <= K)
      <3>1. i - K = j - K
        BY <1>1, <1>5, <2>3, <2>4, <2>6 DEF N
      <3> QED  BY <2>1, <3>1
    <2> QED  BY <2>5, <2>6
  <1>6. IsChain(Appended(s, new), all)
    <2>1. \A i, j \in 1 .. Len(s \o new) : (s \o new)[i] = (s \o new)[j] => i = j
      BY <1>2, <1>5 DEF all, K, N
    <2>2. s \o new # <<>>
      <3>1. Len(all) # 0
        BY <1>1, <1>2
      <3> QED  BY <1>2, <3>1, EmptySeq DEF all
    <2>3. IsChain(Appended(s, new), s \o new)
      BY <1>1, <2>1, <2>2, AppendedChain
    <2> QED  BY <2>3 DEF all
  <1>7. ASSUME NEW y \in Clusters, y \notin Range(s) \cup Range(new)
        PROVE  Appended(s, new)[y] = fat[y]
    <2>1. \A i \in 1 .. Len(all) : all[i] # y
      BY <1>3, <1>4, <1>7
    <2>2. \A i, j \in 1 .. Len(s \o new) : (s \o new)[i] = (s \o new)[j] => i = j
      BY <1>2, <1>5 DEF all, K, N
    <2>3. \A c \in Clusters :
            new = <<>> \/ (\A i \in 1 .. Len(s \o new) : i >= Len(s) => (s \o new)[i] # c)
              => Appended(s, new)[c] = fat[c]
      BY <1>1, <2>2, AppendedIs
    <2> QED  BY <2>1, <2>3 DEF all
  <1>8. all[1] = s[1]
    <2>1. 1 \in 1 .. Len(s) + Len(new) /\ 1 <= Len(s)
      BY <1>1, <1>2
    <2> QED  BY <1>2, <2>1
  <1>9. \A y \in Range(s) \cup Range(new) : y \in Clusters
    <2>1. Range(s) \subseteq Clusters /\ Range(new) \subseteq Clusters
      BY <1>1, RangeOfSeq
    <2> QED  BY <2>1
  <1> QED  BY <1>1, <1>4, <1>6, <1>7, <1>8, <1>9 DEF all

\* A whole chain as a sequence of clusters none of which is FREE.
LEMMA ChainParts ==
  ASSUME TypeOK, NEW s, IsChain(fat, s)
  PROVE  /\ s \in Seq(Clusters) /\ s # <<>> /\ s[1] \in Clusters /\ fat[s[Len(s)]] = END
         /\ \A i, j \in 1 .. Len(s) : s[i] = s[j] => i = j
         /\ \A i \in 1 .. Len(s) - 1 : fat[s[i]] = s[i + 1]
         /\ Range(s) \cap Free = {}
  <1>1. \A y \in Range(s) : fat[y] # FREE
    BY ChainUsed
  <1>2. s[1] \in Clusters
    BY ChainLength
  <1> QED  BY <1>1, <1>2 DEF IsChain, Free

(* What a write makes of the data: the bytes that reach the disk are in    *)
(* the chain all, which had old clusters before.                           *)
Written(old, all, off, n) ==
  \E kept \in Kept(Loop(off, n), n, old, Len(all)) :
    data' = [c \in Clusters |-> [i \in 1 .. CellsPer |->
               LET to == {b \in kept : \E k \in DOMAIN all :
                            all[k] = c /\ Byte(Loop(off, n), n, k, i) = b}
               IN IF to = {} THEN data[c][i]
                  ELSE <<moves + 1, CHOOSE b \in to : TRUE>>]]

(* Writing appends new clusters to the chain of the handle's file, and     *)
(* moves no other.                                                         *)
LEMMA WriteGrows ==
  ASSUME TypeOK, Apart, NEW h \in Handles, NEW off, NEW n, Write(h, off, n)
  PROVE  LET d == table[h].entry.dca
         IN /\ d \in Heads /\ Heads' \subseteq Heads
            /\ \E new \in Fresh(Cardinality(Clusters)) :
                 /\ IsChain(fat', Chain(d) \o new) /\ Chain(d)' = Chain(d) \o new
                 /\ Range(Chain(d) \o new) = Range(Chain(d)) \cup Range(new)
                 /\ Written(Len(Chain(d)), Chain(d) \o new, off, n)
                 /\ \A y \in Clusters \ Range(new) : fat'[y] = FREE <=> fat[y] = FREE
                 /\ \A c \in Heads \ {d} : Range(Chain(c)) \cap Range(Chain(d) \o new) = {}
            /\ Apart' /\ \A c \in Heads \ {d} : Chain(c)' = Chain(c)
            /\ \A k \in Handles : Usable(k)' => Usable(k)
  <1> DEFINE d == table[h].entry.dca
  <1> DEFINE s == Chain(d)
  <1>1. PICK new \in Fresh(Cardinality(Clusters)) :
          fat' = Appended(s, new) /\ Written(Len(s), s \o new, off, n)
    BY DEF Write, Written
  <1>2. Usable(h) /\ entries' = entries /\ table' = table /\ Aging
    BY DEF Write, Writable
  <1>3. d \in Heads
    BY <1>2, HeadsAre
  <1>4. /\ Heads' \subseteq Heads
        /\ \A k \in Handles : Usable(k)' => Usable(k)
    BY <1>2, HeadsShrink DEF Aging
  <1>5. IsChain(fat, s) /\ s[1] = d
    BY <1>3, HeadChain
  <1> HIDE DEF s, d
  <1>6. /\ IsChain(Appended(s, new), s \o new) /\ (s \o new)[1] = s[1]
        /\ Range(s \o new) = Range(s) \cup Range(new)
        /\ Range(new) \subseteq Free
        /\ \A y \in Clusters \ (Range(s) \cup Range(new)) : Appended(s, new)[y] = fat[y]
    BY <1>5, ChainParts, Grown
  <1> DEFINE t == s \o new
  <1>7. /\ IsChain(fat', t) /\ t[1] = d /\ Range(t) \subseteq Range(Chain(d)) \cup Free
        /\ \A y \in Clusters \ (Range(Chain(d)) \cup Range(t)) : fat'[y] = fat[y]
    BY <1>1, <1>5, <1>6 DEF s
  <1>8. Apart' /\ Chain(d)' = t
    <2> HIDE DEF t
    <2>1. entries' \subseteq entries
      BY <1>2
    <2>2. /\ IsChain(fat', t) /\ t[1] = d /\ Range(t) \subseteq Range(Chain(d)) \cup Free
          /\ \A y \in Clusters \ (Range(Chain(d)) \cup Range(t)) : fat'[y] = fat[y]
      BY <1>7
    <2>3. PICK x \in Heads : x = d
      BY <1>3
    <2>4. Apart' /\ Chain(x)' = t /\ \A c \in Heads' \ {x} : Chain(c)' = Chain(c)
      BY <1>4, <2>1, <2>2, <2>3, Regrown
    <2>5. d' = x
      BY <1>2, <2>3 DEF d
    <2> QED  BY <2>3, <2>4, <2>5
  <1>9. ASSUME NEW c \in Heads \ {d}
         PROVE  Chain(c)' = Chain(c) /\ Range(Chain(c)) \cap Range(t) = {}
    <2>1. \A y \in Range(Chain(c)) : y \in Clusters /\ y \notin Free
      BY HeadChain DEF Free
    <2>2. Range(Chain(c)) \cap Range(Chain(d)) = {}
      BY <1>3 DEF Apart
    <2> HIDE DEF t
    <2>3. \A y \in Range(Chain(c)) : fat'[y] = fat[y]
      BY <1>7, <2>1, <2>2
    <2>4. Chain(c)' = Chain(c)
      BY <2>3, HeadChain
    <2> QED  BY <1>7, <2>1, <2>2, <2>4
  <1>10. \A y \in Clusters \ Range(new) : fat'[y] = FREE <=> fat[y] = FREE
    <2>1. \A y \in Range(s) : fat[y] # FREE
      BY <1>5, ChainUsed
    <2>2. \A y \in Range(t) : fat'[y] # FREE
      <3> HIDE DEF t
      <3> QED  BY <1>7, ChainUsed
    <2> QED  BY <1>1, <1>6, <2>1, <2>2
  <1> QED  BY <1>1, <1>3, <1>4, <1>6, <1>7, <1>8, <1>10, <1>9 DEF s, d

\* After a write files are whole and apart.
LEMMA Writes ==
  ASSUME ContentInv, Orderly, NEW h \in Handles, NEW off, NEW n, Write(h, off, n)
  PROVE  Apart' /\ Settled'
  <1> DEFINE d == table[h].entry.dca
  <1>1. TypeOK /\ Apart /\ Settled
    BY DEF ContentInv
  <1>2. Usable(h) /\ entries' = entries /\ table' = table /\ world' = world
    BY DEF Write, Writable
  <1>3. /\ d \in Heads /\ Heads' \subseteq Heads
        /\ Apart' /\ \A c \in Heads \ {d} : Chain(c)' = Chain(c)
        /\ \A k \in Handles : Usable(k)' => Usable(k)
    BY <1>1, WriteGrows
  <1>4. PICK new \in Fresh(Cardinality(Clusters)) :
          /\ IsChain(fat', Chain(d) \o new) /\ Chain(d)' = Chain(d) \o new
          /\ Range(Chain(d) \o new) = Range(Chain(d)) \cup Range(new)
          /\ \A y \in Clusters \ Range(new) : fat'[y] = FREE <=> fat[y] = FREE
    BY <1>1, WriteGrows
  <1>5. ASSUME world' \subseteq {"io"}
        PROVE  /\ (\A k \in Handles : Usable(k) => table[k].entry \in entries)'
               /\ (Clusters \ Free = UNION {Range(Chain(f.dca)) : f \in entries})'
    <2>1. /\ \A k \in Handles : Usable(k) => table[k].entry \in entries
          /\ Clusters \ Free = UNION {Range(Chain(f.dca)) : f \in entries}
      BY <1>1, <1>2, <1>5 DEF Settled
    <2>2. \A k \in Handles : Usable(k)' => table'[k].entry \in entries'
      BY <1>2, <1>3, <2>1
    <2> DEFINE e == table[h].entry
    <2>3. e \in entries /\ e.dca = d /\ \A f \in entries : f.dca \in Heads'
      BY <1>2, <2>1 DEF Heads
    <2>4. /\ \A f \in entries : f.dca # d => Range(Chain(f.dca)') = Range(Chain(f.dca))
          /\ \A f \in entries : f.dca = d => Range(Chain(f.dca)') = Range(Chain(f.dca)) \cup Range(new)
      <3>1. ASSUME NEW f \in entries, f.dca # d  PROVE Range(Chain(f.dca)') = Range(Chain(f.dca))
        <4>1. Chain(f.dca)' = Chain(f.dca)
          BY <1>3, <2>3, <3>1
        <4> QED  BY <4>1
      <3>2. ASSUME NEW f \in entries, f.dca = d
            PROVE  Range(Chain(f.dca)') = Range(Chain(f.dca)) \cup Range(new)
        <4>1. Chain(f.dca)' = Chain(d) \o new
          BY <1>2, <1>4, <3>2
        <4> QED  BY <1>4, <3>2, <4>1
      <3> QED  BY <3>1, <3>2
    <2> DEFINE Q == {Range(Chain(f.dca)') : f \in entries'}
    <2> DEFINE P == {Range(Chain(f.dca)) : f \in entries}
    <2> DEFINE Left == Clusters \ Free
    <2>5. Left = UNION P
      BY <2>1
    <2>6. (UNION Q) = (UNION P) \cup Range(new)
      <3>1. \A y : y \in (UNION Q) <=> \E f \in entries : y \in Range(Chain(f.dca)')
        BY <1>2
      <3>2. \A y : y \in (UNION P) <=> \E f \in entries : y \in Range(Chain(f.dca))
        OBVIOUS
      <3> HIDE DEF P, Q, e, d
      <3> QED  BY <2>3, <2>4, <3>1, <3>2, ZenonT(60)
    <2>7. Left' = Left \cup Range(new)
      <3>1. \A y \in Range(new) : y \in Clusters /\ fat'[y] # FREE
        BY <1>4, ChainUsed
      <3> QED  BY <1>4, <3>1 DEF Free
    <2>8. Left' = UNION Q
      <3> HIDE DEF P, Q, Left
      <3> QED  BY <2>5, <2>6, <2>7
    <2> QED  BY <2>2, <2>8
  <1> QED  BY <1>3, <1>5 DEF Settled

\* The head of a chain is a chain once it ends there.
LEMMA Cut ==
  ASSUME TypeOK, NEW s, IsChain(fat, s), NEW k \in DOMAIN s, NEW T,
         T[s[k]] = END, \A y \in Clusters \ {s[k]} : T[y] = fat[y]
  PROVE  /\ IsChain(T, SubSeq(s, 1, k)) /\ SubSeq(s, 1, k)[1] = s[1]
         /\ Range(SubSeq(s, 1, k)) \subseteq Range(s) /\ s[k] \in Range(s)
  <1>1. /\ s \in Seq(Clusters) /\ s \in [1 .. Len(s) -> Clusters]
        /\ \A i, j \in 1 .. Len(s) : s[i] = s[j] => i = j
        /\ \A i \in 1 .. Len(s) - 1 : fat[s[i]] = s[i + 1]
    BY ChainParts, ChainLength
  <1>2. k \in 1 .. Len(s) /\ Len(s) \in Nat /\ k \in Nat /\ k >= 1
    BY <1>1, LenProperties
  <1> DEFINE u == SubSeq(s, 1, k)
  <1> DEFINE L == Len(s)
  <1>3. u \in Seq(Clusters) /\ Len(u) = k /\ \A i \in 1 .. k : u[i] = s[i]
    <2>1. \A i \in 1 .. k : i \in 1 .. L /\ s[i] \in Clusters
      <3>1. \A i \in 1 .. k : i \in 1 .. L
        BY <1>2 DEF L
      <3> QED  BY <1>1, <3>1 DEF L
    <2>2. /\ u \in Seq(Clusters) /\ Len(u) = (IF 1 <= k THEN k - 1 + 1 ELSE 0)
          /\ \A i \in 1 .. k - 1 + 1 : u[i] = s[1 + i - 1]
      BY <1>2, <2>1, SubSeqProperties
    <2>3. k - 1 + 1 = k /\ 1 <= k /\ \A i \in 1 .. k : 1 + i - 1 = i
      BY <1>2
    <2> HIDE DEF u
    <2> QED  BY <2>2, <2>3
  <1> HIDE DEF u, L
  <1>4. \A i \in 1 .. k : i \in 1 .. L /\ (i # k => i \in 1 .. k - 1 /\ i \in 1 .. L - 1 /\ i + 1 \in 1 .. k)
    BY <1>2 DEF L
  <1>5. ASSUME NEW i \in 1 .. k - 1  PROVE T[u[i]] = u[i + 1]
    <2>1. i \in 1 .. k /\ i # k /\ i \in 1 .. L - 1 /\ i + 1 \in 1 .. k /\ i \in 1 .. L
      BY <1>2, <1>4
    <2>2. s[i] # s[k] /\ s[i] \in Clusters
      BY <1>1, <1>2, <2>1 DEF L
    <2> QED  BY <1>1, <1>3, <2>1, <2>2 DEF L
  <1>6. T[u[k]] = END /\ u # <<>> /\ 1 \in 1 .. k
    <2>1. k \in 1 .. k /\ 1 \in 1 .. k /\ k # 0
      BY <1>2
    <2> QED  BY <1>3, <2>1, EmptySeq
  <1>7. \A i, j \in 1 .. k : u[i] = u[j] => i = j
    BY <1>1, <1>3, <1>4 DEF L
  <1>8. Range(u) \subseteq Range(s) /\ s[k] \in Range(s)
    <2>1. Range(u) = {u[i] : i \in 1 .. k} /\ Range(s) = {s[i] : i \in 1 .. L}
      BY <1>1, <1>3, RangeEquality DEF L
    <2> QED  BY <1>2, <1>3, <1>4, <2>1 DEF L
  <1>9. IsChain(T, u)
    BY <1>3, <1>5, <1>6, <1>7 DEF IsChain
  <1> QED  BY <1>3, <1>6, <1>8, <1>9 DEF u

\* Truncating a file within its first cluster keeps the head of its chain.
LEMMA Truncates ==
  ASSUME ContentInv, Orderly, NEW h \in Handles, NEW off \in Offsets, NEW size \in Sizes,
         Truncate(h, off, size)
  PROVE  Apart' /\ Settled'
  <1>1. TypeOK /\ Apart /\ Settled
    BY DEF ContentInv
  <1> DEFINE d == table[h].entry.dca
  <1> DEFINE s == Chain(d)
  <1> DEFINE k == size \div CellsPer + 1
  <1>2. fat' = IF k \in DOMAIN s THEN [fat EXCEPT ![s[k]] = END] ELSE fat
    BY DEF Truncate, Orderly
  <1>3. /\ Usable(h) /\ entries' \subseteq entries /\ table' = table
        /\ world' = world /\ "trunc" \in world /\ AgingBut({h})
    BY DEF Truncate, Writable
  <1>4. d \in Heads /\ Heads' \subseteq Heads
    <2>1. Heads' \subseteq Heads
      BY <1>1, <1>3, HeadsShrink
    <2> QED  BY <1>1, <1>3, <2>1, HeadsAre
  <1>5. IsChain(fat, s) /\ s[1] = d
    BY <1>1, <1>4, HeadChain
  <1> HIDE DEF d, s, k
  <1>6. Apart'
    <2>1. CASE k \in DOMAIN s
      <3> DEFINE t == SubSeq(s, 1, k)
      <3>1. s[k] \in Clusters
        BY <1>1, <1>5, <2>1, ChainLength
      <3>2. fat'[s[k]] = END /\ \A y \in Clusters \ {s[k]} : fat'[y] = fat[y]
        BY <1>1, <1>2, <2>1, <3>1 DEF TypeOK
      <3>3. /\ IsChain(fat', t) /\ t[1] = s[1] /\ Range(t) \subseteq Range(s) /\ s[k] \in Range(s)
        BY <1>1, <1>5, <2>1, <3>2, Cut
      <3> HIDE DEF t
      <3> QED  BY <1>1, <1>3, <1>4, <1>5, <3>2, <3>3, Regrown DEF s
    <2>2. CASE k \notin DOMAIN s
      BY <1>1, <1>2, <1>3, <1>4, <2>2, Reduced
    <2> QED  BY <2>1, <2>2
  <1> QED  BY <1>3, <1>6 DEF Settled

(* A deep copy links the new clusters behind the first one of its          *)
(* destination, whose other clusters are nobody's then.                    *)
LEMMA DeepCopies ==
  ASSUME ContentInv, Orderly, NEW src \in Handles, NEW dst \in Handles, DeepCopy(src, dst)
  PROVE  Apart' /\ Settled'
  <1>1. TypeOK /\ Apart /\ Settled
    BY DEF ContentInv
  <1> DEFINE d == table[dst].entry.dca
  <1>2. /\ Usable(dst) /\ entries' = entries /\ table' = table
        /\ world' = world /\ "deep" \in world /\ Aging
    BY DEF DeepCopy
  <1>3. PICK n : \E new \in Fresh(n) : fat' = Appended(<<d>>, new)
    BY DEF DeepCopy
  <1>4. PICK new \in Fresh(n) : fat' = Appended(<<d>>, new)
    BY <1>3
  <1>5. d \in Heads /\ Heads' \subseteq Heads
    BY <1>1, <1>2, HeadsAre, HeadsShrink DEF Aging
  <1>6. d \in Clusters /\ d \in Range(Chain(d)) /\ d \notin Free /\ \A y \in Range(Chain(d)) : y \in Clusters
    BY <1>1, <1>5, HeadChain DEF Free
  <1> HIDE DEF d
  <1> DEFINE r == <<d>>
  <1>7. /\ r \in Seq(Clusters) /\ Len(r) = 1 /\ r # <<>> /\ r[1] = d /\ Range(r) = {d}
        /\ \A i, j \in 1 .. Len(r) : r[i] = r[j] => i = j
        /\ \A i \in 1 .. Len(r) - 1 : fat[r[i]] = r[i + 1]
    BY <1>6 DEF Range
  <1> HIDE DEF r
  <1>8. Apart'
    <2>1. CASE new = <<>>
      <3>1. \A y \in Clusters : fat'[y] = fat[y]
        <4>1. new \in Seq(Clusters) /\ Len(r) \in Nat /\ r \o new = r
          BY <1>7, FreshIs, ConcatEmptySeq, <2>1
        <4>2. \A i, j \in 1 .. Len(r \o new) : (r \o new)[i] = (r \o new)[j] => i = j
          BY <1>7, <4>1
        <4>3. \A c \in Clusters : new = <<>> \/ (\A i \in 1 .. Len(r \o new) : i >= Len(r) => (r \o new)[i] # c)
                                    => Appended(r, new)[c] = fat[c]
          BY <1>7, <4>1, <4>2, AppendedIs
        <4> QED  BY <1>4, <2>1, <4>3 DEF r
      <3>2. \A c \in Heads : \A y \in Range(Chain(c)) : y \in Clusters
        BY <1>1, HeadChain
      <3> QED  BY <1>1, <1>2, <1>5, <3>1, <3>2, Reduced
    <2>2. CASE new # <<>>
      <3>1. /\ IsChain(Appended(r, new), r \o new) /\ (r \o new)[1] = r[1]
            /\ Range(r \o new) = Range(r) \cup Range(new)
            /\ Range(new) \subseteq Free
            /\ \A y \in Clusters \ (Range(r) \cup Range(new)) : Appended(r, new)[y] = fat[y]
        <4>1. Range(r) \cap Free = {}
          BY <1>6, <1>7
        <4> QED  BY <1>1, <1>7, <2>2, <4>1, Grown
      <3> DEFINE t == r \o new
      <3>2. /\ IsChain(fat', t) /\ t[1] = d /\ Range(t) \subseteq Range(Chain(d)) \cup Free
            /\ \A y \in Clusters \ (Range(Chain(d)) \cup Range(t)) : fat'[y] = fat[y]
        BY <1>4, <1>6, <1>7, <3>1 DEF r
      <3> HIDE DEF t
      <3> QED  BY <1>1, <1>2, <1>5, <3>2, Regrown
    <2> QED  BY <2>1, <2>2
  <1> QED  BY <1>2, <1>8 DEF Settled

-----------------------------------------------------------------------------
LEMMA ContentInvHolds == Spec => []ContentInv
  <1>1. Init => ContentInv
    <2> SUFFICES ASSUME Init  PROVE ContentInv
      OBVIOUS
    <2>1. TypeOK
      BY ContentAssumption DEF Init, TypeOK, Cells, Closed
    <2>2. Heads = {} /\ entries = {} /\ Free = Clusters /\ \A h \in Handles : ~Usable(h)
      BY DEF Init, Heads, Usable, Free, Closed
    <2> QED  BY <2>1, <2>2 DEF ContentInv, Apart, Settled
  <1>2. ContentInv /\ [Next]_vars => ContentInv'
    <2> SUFFICES ASSUME ContentInv, [Next]_vars  PROVE ContentInv'
      OBVIOUS
    <2>1. TypeOK'
      BY TypesHold DEF ContentInv
    <2>2. ASSUME Orderly'  PROVE Apart' /\ Settled'
      <3>1. CASE UNCHANGED vars
        <4>1. Orderly
          BY <2>2, <3>1 DEF vars, Orderly
        <4>2. Apart /\ Settled
          BY <4>1 DEF ContentInv
        <4>3. UNCHANGED <<Heads, Free>> /\ \A h \in Handles : Usable(h)' <=> Usable(h)
          BY <3>1 DEF vars, Heads, Usable, Free
        <4>4. Apart' /\ \A c \in Heads' : Chain(c)' = Chain(c)
          BY <3>1, <4>2, <4>3, Reduced DEF vars, ContentInv
        <4>5. \A e \in entries : Chain(e.dca)' = Chain(e.dca)
          BY <3>1, <4>4 DEF Heads, vars
        <4>6. {Range(Chain(f.dca)') : f \in entries'} = {Range(Chain(f.dca)) : f \in entries}
          BY <3>1, <4>5 DEF vars
        <4> QED  BY <3>1, <4>2, <4>3, <4>4, <4>6 DEF Settled, vars
      <3>2. CASE Next
        <4>1. world' = world
          BY <3>2, ZenonT(60) DEF Next, Open, OpenCreate, Put, Close, Delete, ChangeMeta, Write, Truncate,
                      DeepCopy, DeepCopyFails, ShallowCopy, Unload
        <4>2. Orderly
          BY <2>2, <4>1 DEF Orderly
        <4>3. ASSUME NEW h \in Handles
              PROVE  ~(\E dst \in Handles : DeepCopyFails(h, dst) \/ ShallowCopy(h, dst))
          BY <4>2 DEF Orderly, DeepCopyFails, ShallowCopy
        <4>4. ASSUME Unload  PROVE \E h \in Handles : QuietCall(h)
          BY <4>4 DEF QuietCall, Unload
        <4>5. ASSUME NEW h \in Handles, Close(h) \/ ChangeMeta(h)  PROVE QuietCall(h)
          BY <4>5 DEF QuietCall
        <4> QED  BY <3>2, <4>2, <4>3, <4>4, <4>5, QuietCalls, Opens, OpenCreates, Puts, Deletes,
                    Writes, Truncates, DeepCopies DEF Next
      <3> QED  BY <3>1, <3>2
    <2> QED  BY <2>1, <2>2 DEF ContentInv
  <1> QED  BY <1>1, <1>2, PTL DEF Spec

(* Through creating, writing, truncating, copying and deleting a file is a *)
(* whole chain and shares no cluster with another one; and where files are *)
(* only created, grown and deleted, no cluster leaks.                      *)
THEOREM FilesAreWhole == Spec => []FilesWhole
  <1>1. ContentInv => FilesWhole
    <2> SUFFICES ASSUME ContentInv  PROVE FilesWhole
      OBVIOUS
    <2>1. TypeOK
      BY DEF ContentInv
    <2>2. Orderly => \A c \in Heads :
            /\ fat[Chain(c)[Len(Chain(c))]] = END
            /\ \A d \in Heads \ {c} : Range(Chain(c)) \cap Range(Chain(d)) = {}
      BY DEF ContentInv, Apart, IsChain
    <2>3. world \subseteq {"io"} => Clusters \ Free = UNION {Range(Chain(e.dca)) : e \in entries}
      BY DEF ContentInv, Settled, Orderly
    <2> QED  BY <2>1, <2>2, <2>3 DEF FilesWhole
  <1> QED  BY <1>1, ContentInvHolds, PTL

-----------------------------------------------------------------------------
(* Offsets.  Where a cell lies in its file, by its cluster and its place   *)
(* there, and the way back.                                                *)
Place(k, i) == (k - 1) * CellsPer + i

\* Of two places in clusters of C cells, the later cluster's is the later.
LEMMA Later ==
  ASSUME NEW C \in Nat, NEW k \in Nat, NEW l \in Nat, k < l
  PROVE  k * C \in Nat /\ l * C \in Nat /\ k * C + C <= l * C
  <1>1. k * C \in Nat /\ l * C \in Nat
    OBVIOUS
  <1>2. PICK m \in Nat : l = k + 1 + m
    <2>1. l - k - 1 \in Nat /\ l = k + 1 + (l - k - 1)
      OBVIOUS
    <2> QED  BY <2>1
  <1>3. l * C = k * C + C + m * C /\ m * C \in Nat
    BY <1>2
  <1> QED  BY <1>1, <1>3

\* Quotient and remainder find the one cell that lies in a place.
LEMMA PlaceIs ==
  ASSUME NEW x \in Nat
  PROVE  LET k == (x \div CellsPer) + 1
             i == (x % CellsPer) + 1
         IN /\ k \in Nat \ {0} /\ i \in 1 .. CellsPer /\ Place(k, i) = x + 1
            /\ \A l \in Nat \ {0} : \A j \in 1 .. CellsPer : Place(l, j) = x + 1 => l = k /\ j = i
            /\ \A L \in Nat : x < L * CellsPer <=> k <= L
  <1> DEFINE q == x \div CellsPer
  <1> DEFINE r == x % CellsPer
  <1> DEFINE C == CellsPer
  <1>1. C \in Nat /\ C >= 1
    BY ContentAssumption
  <1>2. q \in Nat /\ r \in 0 .. C - 1 /\ q * C + r = x
    <2>1. q \in Nat /\ r \in 0 .. C - 1
      BY <1>1
    <2>2. x = C * q + r
      BY <1>1
    <2>3. C * q = q * C
      BY <1>1, <2>1
    <2> QED  BY <2>1, <2>2, <2>3
  <1> HIDE DEF q, r, C
  <1>3. q + 1 \in Nat \ {0} /\ r + 1 \in 1 .. C /\ ((q + 1) - 1) * C + (r + 1) = x + 1
    <2>1. (q + 1) - 1 = q
      BY <1>2
    <2>2. q * C \in Nat
      BY <1>1, <1>2
    <2> QED  BY <1>1, <1>2, <2>1, <2>2
  <1>4. ASSUME NEW l \in Nat \ {0}, NEW j \in 1 .. C, (l - 1) * C + j = x + 1
        PROVE  l = q + 1 /\ j = r + 1
    <2> DEFINE m == l - 1
    <2>1. m \in Nat /\ l = m + 1 /\ m * C + j = q * C + r + 1
      <3>1. q * C \in Nat /\ (l - 1) * C \in Nat
        BY <1>1, <1>2
      <3> QED  BY <1>2, <1>4, <3>1
    <2> HIDE DEF m
    <2>2. ~(m < q)
      <3>1. SUFFICES ASSUME m < q  PROVE FALSE
        OBVIOUS
      <3>2. m * C \in Nat /\ q * C \in Nat /\ m * C + C <= q * C
        BY <1>1, <1>2, <2>1, <3>1, Later
      <3> QED  BY <1>1, <1>2, <2>1, <3>2
    <2>3. ~(q < m)
      <3>1. SUFFICES ASSUME q < m  PROVE FALSE
        OBVIOUS
      <3>2. m * C \in Nat /\ q * C \in Nat /\ q * C + C <= m * C
        BY <1>1, <1>2, <2>1, <3>1, Later
      <3> QED  BY <1>1, <1>2, <2>1, <3>2
    <2>4. m = q
      BY <1>2, <2>1, <2>2, <2>3
    <2>5. j = r + 1
      <3>1. q * C \in Nat
        BY <1>1, <1>2
      <3> QED  BY <1>2, <2>1, <2>4, <3>1
    <2> QED  BY <2>1, <2>4, <2>5
  <1>5. ASSUME NEW L \in Nat  PROVE x < L * C <=> q + 1 <= L
    <2>1. CASE q < L
      <3>1. q * C \in Nat /\ L * C \in Nat /\ q * C + C <= L * C
        BY <1>1, <1>2, <2>1, Later
      <3> QED  BY <1>1, <1>2, <2>1, <3>1
    <2>2. CASE L < q
      <3>1. q * C \in Nat /\ L * C \in Nat /\ L * C + C <= q * C
        BY <1>1, <1>2, <2>2, Later
      <3> QED  BY <1>1, <1>2, <2>2, <3>1
    <2>3. CASE L = q
      <3>1. q * C \in Nat
        BY <1>1, <1>2
      <3> QED  BY <1>1, <1>2, <2>3, <3>1
    <2> QED  BY <1>2, <2>1, <2>2, <2>3
  <1> QED  BY <1>3, <1>4, <1>5 DEF Place, q, r, C

\* Places are numbers.
LEMMA PlaceType ==
  ASSUME NEW k \in Nat \ {0}, NEW i \in 1 .. CellsPer
  PROVE  Place(k, i) \in Nat
  <1>1. CellsPer \in Nat /\ k - 1 \in Nat
    BY ContentAssumption
  <1>2. (k - 1) * CellsPer \in Nat
    BY <1>1
  <1> QED  BY <1>1, <1>2 DEF Place

\* Two cells of a file lie in two places.
LEMMA PlacesDiffer ==
  ASSUME NEW k \in Nat \ {0}, NEW l \in Nat \ {0}, NEW i \in 1 .. CellsPer, NEW j \in 1 .. CellsPer,
         Place(k, i) = Place(l, j)
  PROVE  k = l /\ i = j
  <1>1. CellsPer \in Nat /\ k - 1 \in Nat
    BY ContentAssumption
  <1>2. (k - 1) * CellsPer \in Nat
    BY <1>1
  <1>3. PICK x \in Nat : Place(k, i) = x + 1
    <2>1. Place(k, i) - 1 \in Nat /\ Place(k, i) = (Place(k, i) - 1) + 1
      BY <1>1, <1>2 DEF Place
    <2> QED  BY <2>1
  <1> DEFINE q == (x \div CellsPer) + 1
  <1> DEFINE r == (x % CellsPer) + 1
  <1>4. \A m \in Nat \ {0} : \A g \in 1 .. CellsPer : Place(m, g) = x + 1 => m = q /\ g = r
    BY PlaceIs
  <1> HIDE DEF q, r
  <1>5. Place(l, j) = x + 1
    BY <1>3
  <1>6. k = q /\ i = r
    BY <1>3, <1>4
  <1>7. l = q /\ j = r
    BY <1>4, <1>5
  <1> QED  BY <1>6, <1>7

-----------------------------------------------------------------------------
(* Transfers.  What the loops leave of an offset and a size behind k       *)
(* clusters, without the loop.                                             *)
Behind(off, n, k) ==
  IF off > k * CellsPer THEN [off |-> off - k * CellsPer, size |-> n]
  ELSE [off |-> 0, size |-> n - Least(n, k * CellsPer - off)]

\* One round of the loops.
Round(l) ==
  IF l.off > CellsPer THEN [l EXCEPT !.off = @ - CellsPer]
  ELSE [off |-> 0, size |-> l.size - Least(l.size, CellsPer - l.off)]

\* One more round leads from one value of Behind to the next.
LEMMA RoundIs ==
  ASSUME NEW off \in Nat, NEW n \in Nat, NEW k \in Nat
  PROVE  Round(Behind(off, n, k)) = Behind(off, n, k + 1)
  <1> DEFINE m == k * CellsPer
  <1>1. CellsPer \in Nat /\ m \in Nat /\ (k + 1) * CellsPer = m + CellsPer
    BY ContentAssumption
  <1> HIDE DEF m
  <1>2. Behind(off, n, k) = IF off > m THEN [off |-> off - m, size |-> n]
                            ELSE [off |-> 0, size |-> n - Least(n, m - off)]
    BY DEF Behind, m
  <1>3. Behind(off, n, k + 1) = IF off > m + CellsPer THEN [off |-> off - (m + CellsPer), size |-> n]
                                ELSE [off |-> 0, size |-> n - Least(n, (m + CellsPer) - off)]
    BY <1>1 DEF Behind
  <1> DEFINE l == Behind(off, n, k)
  <1>4. CASE off > m
    <2>1. l = [off |-> off - m, size |-> n]
      BY <1>2, <1>4
    <2> HIDE DEF l
    <2>2. l.off = off - m /\ l.size = n
      BY <2>1
    <2>3. CASE off > m + CellsPer
      <3>1. off - m > CellsPer /\ (off - m) - CellsPer = off - (m + CellsPer)
        BY <1>1, <2>3
      <3>2. Round(l) = [off |-> (off - m) - CellsPer, size |-> n]
        BY <2>1, <2>2, <3>1 DEF Round
      <3> QED  BY <1>3, <2>3, <3>1, <3>2 DEF l
    <2>4. CASE ~(off > m + CellsPer)
      <3>1. ~(off - m > CellsPer) /\ CellsPer - (off - m) = (m + CellsPer) - off
        BY <1>1, <2>4
      <3>2. Round(l) = [off |-> 0, size |-> n - Least(n, CellsPer - (off - m))]
        BY <2>2, <3>1 DEF Round
      <3> QED  BY <1>3, <2>4, <3>1, <3>2 DEF l
    <2> QED  BY <2>3, <2>4
  <1>5. CASE ~(off > m)
    <2>1. l = [off |-> 0, size |-> n - Least(n, m - off)]
      BY <1>2, <1>5
    <2> HIDE DEF l
    <2>2. l.off = 0 /\ l.size = n - Least(n, m - off) /\ ~(l.off > CellsPer)
      BY <1>1, <2>1
    <2>3. Round(l) = [off |-> 0, size |-> l.size - Least(l.size, CellsPer - l.off)]
      BY <2>2 DEF Round
    <2>4. l.size - Least(l.size, CellsPer - l.off) = n - Least(n, (m + CellsPer) - off)
      BY <1>1, <1>5, <2>2 DEF Least
    <2>5. ~(off > m + CellsPer)
      BY <1>1, <1>5
    <2> QED  BY <1>3, <2>3, <2>4, <2>5 DEF l
  <1> QED  BY <1>4, <1>5

\* So the loops leave what Behind says.
LEMMA LoopIs ==
  ASSUME NEW off \in Nat, NEW n \in Nat
  PROVE  \A k \in Nat : Loop(off, n)[k] = Behind(off, n, k)
  <1> DEFINE Solves(w) == w = [k \in Nat |->
        IF k = 0 THEN [off |-> off, size |-> n]
        ELSE LET l == w[k - 1] IN
             IF l.off > CellsPer THEN [l EXCEPT !.off = @ - CellsPer]
             ELSE [off |-> 0, size |-> l.size - Least(l.size, CellsPer - l.off)]]
  <1> DEFINE w == [k \in Nat |-> Behind(off, n, k)]
  <1>1. w[0] = [off |-> off, size |-> n]
    <2>1. 0 * CellsPer = 0
      BY ContentAssumption
    <2>2. off > 0 => off - 0 = off
      OBVIOUS
    <2>3. Least(n, 0 - 0) = 0 /\ n - 0 = n
      BY DEF Least
    <2>4. CASE off > 0
      BY <2>1, <2>2, <2>4 DEF Behind
    <2>5. CASE off = 0
      BY <2>1, <2>3, <2>5 DEF Behind
    <2> QED  BY <2>4, <2>5
  <1>2. \A k \in Nat : w[k + 1] = Round(w[k])
    BY RoundIs
  <1>3. Solves(w)
    <2>1. ASSUME NEW k \in Nat
          PROVE  w[k] = IF k = 0 THEN [off |-> off, size |-> n] ELSE Round(w[k - 1])
      <3> HIDE DEF w
      <3>1. CASE k = 0
        BY <1>1, <3>1
      <3>2. CASE k # 0
        <4>1. k - 1 \in Nat /\ (k - 1) + 1 = k
          BY <3>2
        <4>2. w[(k - 1) + 1] = Round(w[k - 1])
          BY <1>2, <4>1
        <4> QED  BY <3>2, <4>1, <4>2
      <3> QED  BY <3>1, <3>2
    <2>2. w = [k \in Nat |-> w[k]]
      OBVIOUS
    <2> HIDE DEF w
    <2> QED  BY <2>1, <2>2 DEF Round
  <1> DEFINE r == CHOOSE v : Solves(v)
  <1>4. Solves(r)
    <2> HIDE DEF Solves, w
    <2> QED  BY <1>3
  <1>5. \A k \in Nat : r[k] = IF k = 0 THEN [off |-> off, size |-> n] ELSE Round(r[k - 1])
    <2> HIDE DEF r
    <2> QED  BY <1>4 DEF Round
  <1>6. Loop(off, n) = r
    BY DEF Loop
  <1> HIDE DEF r, w
  <1>7. \A k \in Nat : r[k] = w[k]
    <2> DEFINE Bad == {k \in Nat : r[k] # w[k]}
    <2> SUFFICES ASSUME Bad # {}  PROVE FALSE
      OBVIOUS
    <2>1. PICK k \in Bad : \A m \in Bad : k <= m
      BY LeastNumber
    <2>2. k # 0
      BY <1>1, <1>5, <2>1
    <2>3. k - 1 \in Nat /\ (k - 1) + 1 = k /\ k - 1 \notin Bad
      <3>1. k \in Nat
        BY <2>1
      <3>2. k - 1 \in Nat /\ (k - 1) + 1 = k /\ ~(k <= k - 1)
        BY <2>2, <3>1
      <3> HIDE DEF Bad
      <3> QED  BY <2>1, <3>2
    <2>4. r[k - 1] = w[k - 1]
      BY <2>3
    <2>5. w[(k - 1) + 1] = Round(w[k - 1])
      BY <1>2, <2>3
    <2>6. r[k] = Round(r[k - 1])
      BY <1>5, <2>1, <2>2
    <2> QED  BY <2>1, <2>3, <2>4, <2>5, <2>6
  <1> QED  BY <1>6, <1>7 DEF w

(* The transfers of the loop move byte b of the buffer from or to the cell *)
(* that lies b cells behind the offset, and no other.                      *)
LEMMA ByteIs ==
  ASSUME NEW off \in Nat, NEW n \in Nat, NEW k \in Nat \ {0}, NEW i \in 1 .. CellsPer
  PROVE  Byte(Loop(off, n), n, k, i) =
           IF off < Place(k, i) /\ Place(k, i) <= off + n THEN Place(k, i) - off ELSE 0
  <1> DEFINE m == (k - 1) * CellsPer
  <1> DEFINE l == Behind(off, n, k - 1)
  <1> DEFINE r == Behind(off, n, k)
  <1>1. k - 1 \in Nat /\ CellsPer \in Nat /\ m \in Nat /\ k * CellsPer = m + CellsPer
    BY ContentAssumption
  <1>2. Byte(Loop(off, n), n, k, i) =
          IF l.off < i /\ i <= l.off + l.size - r.size THEN n - l.size + i - l.off ELSE 0
    BY <1>1, LoopIs DEF Byte
  <1>3. Place(k, i) = m + i
    BY DEF Place
  <1> HIDE DEF m
  <1>4. l = IF off > m THEN [off |-> off - m, size |-> n]
            ELSE [off |-> 0, size |-> n - Least(n, m - off)]
    BY DEF Behind, m
  <1>5. r = IF off > m + CellsPer THEN [off |-> off - (m + CellsPer), size |-> n]
            ELSE [off |-> 0, size |-> n - Least(n, (m + CellsPer) - off)]
    BY <1>1 DEF Behind
  <1>6. r.size = IF off > m + CellsPer THEN n ELSE n - Least(n, (m + CellsPer) - off)
    BY <1>5
  <1> HIDE DEF l, r
  <1>7. CASE off > m
    <2>1. l.off = off - m /\ l.size = n
      BY <1>4, <1>7
    <2> QED  BY <1>1, <1>2, <1>3, <1>6, <1>7, <2>1 DEF Least
  <1>8. CASE ~(off > m)
    <2>1. l.off = 0 /\ l.size = n - Least(n, m - off)
      BY <1>4, <1>8
    <2> QED  BY <1>1, <1>2, <1>3, <1>6, <1>8, <2>1 DEF Least
  <1> QED  BY <1>7, <1>8

-----------------------------------------------------------------------------
(* Contents.  What the chain s holds where clusters hold D.                *)
Held(D, s) ==
  [i \in 1 .. CellsPer * Len(s) |->
     D[s[((i - 1) \div CellsPer) + 1]][((i - 1) % CellsPer) + 1]]

Contents == [Clusters -> [1 .. CellsPer -> Cells]]

\* A chain holds as many cells as its clusters do, each in one place.
LEMMA HeldIs ==
  ASSUME NEW D \in Contents, NEW s \in Seq(Clusters)
  PROVE  /\ Held(D, s) \in Seq(Cells) /\ Len(Held(D, s)) = CellsPer * Len(s)
         /\ CellsPer * Len(s) \in Nat /\ Len(s) * CellsPer = CellsPer * Len(s)
         /\ \A p \in 1 .. CellsPer * Len(s) :
              \E k \in 1 .. Len(s), i \in 1 .. CellsPer :
                p = Place(k, i) /\ Held(D, s)[p] = D[s[k]][i]
         /\ Held(D, s) \in [1 .. CellsPer * Len(s) -> Cells]
  <1> DEFINE N == CellsPer * Len(s)
  <1>1. Len(s) \in Nat /\ CellsPer \in Nat /\ s \in [1 .. Len(s) -> Clusters]
    BY LenProperties, ContentAssumption
  <1>2. N \in Nat /\ Len(s) * CellsPer = N
    BY <1>1
  <1> HIDE DEF N
  <1>3. ASSUME NEW p \in 1 .. N
        PROVE  LET k == ((p - 1) \div CellsPer) + 1
                   i == ((p - 1) % CellsPer) + 1
               IN k \in 1 .. Len(s) /\ i \in 1 .. CellsPer /\ p = Place(k, i) /\ D[s[k]][i] \in Cells
    <2> DEFINE x == p - 1
    <2>1. x \in Nat /\ x + 1 = p /\ x < Len(s) * CellsPer
      BY <1>2
    <2> HIDE DEF x
    <2> DEFINE k == (x \div CellsPer) + 1
    <2> DEFINE i == (x % CellsPer) + 1
    <2>2. /\ k \in Nat \ {0} /\ i \in 1 .. CellsPer /\ Place(k, i) = x + 1
          /\ \A L \in Nat : x < L * CellsPer <=> k <= L
      BY <2>1, PlaceIs
    <2> HIDE DEF k, i
    <2>3. k \in 1 .. Len(s)
      BY <1>1, <2>1, <2>2
    <2>4. D[s[k]][i] \in Cells
      BY <1>1, <2>2, <2>3 DEF Contents
    <2> QED  BY <2>1, <2>2, <2>3, <2>4 DEF k, i, x
  <1> DEFINE H == Held(D, s)
  <1>4. H \in [1 .. N -> Cells]
    BY <1>3 DEF Held, N
  <1>5. ASSUME NEW p \in 1 .. N
        PROVE  \E k \in 1 .. Len(s), i \in 1 .. CellsPer : p = Place(k, i) /\ H[p] = D[s[k]][i]
    <2>1. H[p] = D[s[((p - 1) \div CellsPer) + 1]][((p - 1) % CellsPer) + 1]
      BY DEF Held, N
    <2> HIDE DEF H
    <2> QED  BY <1>3, <2>1
  <1> HIDE DEF H
  <1>6. H \in Seq(Cells) /\ Len(H) = N
    BY <1>2, <1>4
  <1> QED  BY <1>2, <1>4, <1>5, <1>6 DEF H, N

\* The way back: the place of a cell in the file is one of these.
LEMMA HeldAt ==
  ASSUME NEW D \in Contents, NEW s \in Seq(Clusters),
         NEW k \in 1 .. Len(s), NEW i \in 1 .. CellsPer
  PROVE  /\ Place(k, i) \in 1 .. CellsPer * Len(s)
         /\ Held(D, s)[Place(k, i)] = D[s[k]][i]
  <1>1. Len(s) \in Nat /\ CellsPer \in Nat /\ k \in Nat \ {0}
    BY LenProperties, ContentAssumption
  <1> DEFINE m == (k - 1) * CellsPer
  <1>2. m \in Nat /\ CellsPer * Len(s) \in Nat /\ m + CellsPer <= CellsPer * Len(s)
    <2>1. k - 1 < Len(s) /\ k - 1 \in Nat
      BY <1>1
    <2>2. m \in Nat /\ Len(s) * CellsPer \in Nat /\ m + CellsPer <= Len(s) * CellsPer
      BY <1>1, <2>1, Later
    <2> QED  BY <1>1, <2>2
  <1> HIDE DEF m
  <1>3. Place(k, i) = m + i /\ m + i \in 1 .. CellsPer * Len(s)
    BY <1>1, <1>2 DEF Place, m
  <1>4. PICK l \in 1 .. Len(s), j \in 1 .. CellsPer :
          Place(k, i) = Place(l, j) /\ Held(D, s)[Place(k, i)] = D[s[l]][j]
    BY <1>3, HeldIs
  <1>5. l = k /\ j = i
    <2>1. l \in Nat \ {0}
      BY <1>1
    <2> QED  BY <1>1, <1>4, <2>1, PlacesDiffer
  <1> QED  BY <1>3, <1>4, <1>5

\* Whatever chain it is, a read delivers the cells from the offset on.
LEMMA Reads ==
  ASSUME TypeOK, NEW c \in Clusters, NEW off \in Nat, NEW n \in Nat
  PROVE  ReadOut(c, off, n) = SubSeq(File(c), off + 1, Least(off + n, Len(File(c))))
  <1> DEFINE s == Chain(c)
  <1> DEFINE F == File(c)
  <1> DEFINE L == Len(s)
  <1> DEFINE N == CellsPer * L
  <1> DEFINE left == Loop(off, n)
  <1>1. s \in Seq(Clusters) /\ L \in Nat /\ data \in Contents
    <2>1. s \in Seq(Clusters)
      BY ChainTypes
    <2> HIDE DEF s
    <2> QED  BY <2>1, LenProperties DEF TypeOK, Contents
  <1>2. F = Held(data, s)
    BY DEF File, Held
  <1>3. ReadOut(c, off, n) =
          [b \in 1 .. n - left[L].size |->
             LET p == CHOOSE p \in (1 .. L) \X (1 .. CellsPer) : Byte(left, n, p[1], p[2]) = b
             IN data[s[p[1]]][p[2]]]
    BY DEF ReadOut
  <1> HIDE DEF F, s
  <1>4. F \in Seq(Cells) /\ Len(F) = N /\ N \in Nat /\ L * CellsPer = N /\ F \in [1 .. N -> Cells]
    BY <1>1, <1>2, HeldIs
  <1> DEFINE m == n - left[L].size
  <1>5. m = IF off > N THEN 0 ELSE Least(n, N - off)
    <2>1. left[L] = Behind(off, n, L)
      BY <1>1, LoopIs
    <2> HIDE DEF left, L, N
    <2>2. CASE off > N
      <3>1. left[L].size = n
        BY <1>4, <2>1, <2>2 DEF Behind
      <3> QED  BY <2>2, <3>1
    <2>3. CASE ~(off > N)
      <3>1. left[L].size = n - Least(n, N - off)
        BY <1>4, <2>1, <2>3 DEF Behind
      <3> QED  BY <1>4, <2>3, <3>1 DEF Least
    <2> QED  BY <2>2, <2>3
  <1> DEFINE hi == Least(off + n, N)
  <1> DEFINE S == SubSeq(F, off + 1, hi)
  <1> HIDE DEF L, N, left, m
  <1>6. hi \in Nat /\ hi <= N /\ m \in Nat /\ (IF off + 1 <= hi THEN hi - (off + 1) + 1 ELSE 0) = m
        /\ \A b \in 1 .. m : off + b \in 1 .. N /\ b <= n /\ b \in 1 .. hi - (off + 1) + 1
    BY <1>4, <1>5 DEF Least
  <1> HIDE DEF hi
  <1>7. S \in Seq(Cells) /\ Len(S) = m /\ \A b \in 1 .. m : S[b] = F[off + b]
    <2>1. \A i \in off + 1 .. hi : F[i] \in Cells
      <3>1. \A i \in off + 1 .. hi : i \in 1 .. N
        BY <1>4, <1>6
      <3> QED  BY <1>4, <3>1
    <2>2. off + 1 \in Int /\ hi \in Int
      BY <1>6
    <2>3. /\ S \in Seq(Cells)
          /\ Len(S) = IF off + 1 <= hi THEN hi - (off + 1) + 1 ELSE 0
          /\ \A b \in 1 .. hi - (off + 1) + 1 : S[b] = F[(off + 1) + b - 1]
      BY <2>1, <2>2, SubSeqProperties
    <2>4. \A b \in 1 .. m : (off + 1) + b - 1 = off + b
      BY <1>6
    <2> HIDE DEF S
    <2> QED  BY <1>6, <2>3, <2>4
  <1>8. ASSUME NEW b \in 1 .. m
        PROVE  (LET p == CHOOSE p \in (1 .. L) \X (1 .. CellsPer) : Byte(left, n, p[1], p[2]) = b
                IN data[s[p[1]]][p[2]]) = F[off + b]
    <2>1. off + b \in 1 .. N /\ b <= n
      BY <1>6
    <2>2. PICK k \in 1 .. L, i \in 1 .. CellsPer :
            off + b = Place(k, i) /\ F[off + b] = data[s[k]][i]
      BY <1>1, <1>2, <2>1, HeldIs DEF N, L
    <2>3. ASSUME NEW l \in 1 .. L, NEW j \in 1 .. CellsPer
          PROVE  Byte(left, n, l, j) = IF off < Place(l, j) /\ Place(l, j) <= off + n
                                       THEN Place(l, j) - off ELSE 0
      BY <1>1, ByteIs DEF left, L
    <2>4. Byte(left, n, k, i) = b
      BY <1>6, <2>1, <2>2, <2>3
    <2>5. ASSUME NEW l \in 1 .. L, NEW j \in 1 .. CellsPer, Byte(left, n, l, j) = b
          PROVE  l = k /\ j = i
      <3>0. Place(l, j) \in Nat
        <4>1. l \in Nat \ {0}
          BY <1>1 DEF L
        <4> QED  BY <4>1, PlaceType
      <3>1. Place(l, j) = off + b
        BY <1>6, <2>1, <2>3, <2>5, <3>0
      <3>2. l \in Nat \ {0} /\ k \in Nat \ {0}
        BY <1>1 DEF L
      <3> QED  BY <2>2, <3>1, <3>2, PlacesDiffer
    <2> DEFINE P == (1 .. L) \X (1 .. CellsPer)
    <2> DEFINE q == CHOOSE p \in P : Byte(left, n, p[1], p[2]) = b
    <2>6. <<k, i>> \in P /\ Byte(left, n, <<k, i>>[1], <<k, i>>[2]) = b
      BY <2>4
    <2>7. q \in P /\ Byte(left, n, q[1], q[2]) = b
      <3> HIDE DEF P
      <3> QED  BY <2>6
    <2> HIDE DEF q
    <2>8. q[1] = k /\ q[2] = i
      BY <2>5, <2>7
    <2> QED  BY <2>2, <2>8 DEF q
  <1>9. ReadOut(c, off, n) = [b \in 1 .. m |-> F[off + b]]
    BY <1>3, <1>8 DEF m
  <1>10. S = [b \in 1 .. m |-> S[b]]
    <2> HIDE DEF S
    <2>1. S \in [1 .. Len(S) -> Cells]
      BY <1>7, LenProperties
    <2> QED  BY <1>7, <2>1
  <1>11. ReadOut(c, off, n) = S
    <2> HIDE DEF S
    <2> QED  BY <1>7, <1>9, <1>10
  <1> QED  BY <1>4, <1>11 DEF hi, F

(* NIFAT32_read_content2buffer delivers the cells of the file from an      *)
(* offset up to its end on, wherever cluster boundaries fall.              *)
THEOREM ReadsAreExact == Spec => []ReadExact
  <1>1. ContentInv => ReadExact
    <2> SUFFICES ASSUME ContentInv, NEW c \in Heads, NEW off \in Offsets, NEW n \in Sizes
                 PROVE  ReadOut(c, off, n) = SubSeq(File(c), off + 1, Least(off + n, Len(File(c))))
      BY DEF ReadExact
    <2>1. TypeOK /\ c \in Clusters /\ off \in Nat /\ n \in Nat
      BY HeadsAre, ContentAssumption DEF ContentInv
    <2> QED  BY <2>1, Reads
  <1> QED  BY <1>1, ContentInvHolds, PTL

\* What clusters hold that nobody wrote to stays what a chain of them holds.
LEMMA HeldSame ==
  ASSUME NEW D \in Contents, NEW E \in Contents, NEW s \in Seq(Clusters),
         \A y \in Range(s) : E[y] = D[y]
  PROVE  Held(E, s) = Held(D, s)
  <1> DEFINE N == CellsPer * Len(s)
  <1>1. Held(D, s) \in [1 .. N -> Cells] /\ Held(E, s) \in [1 .. N -> Cells]
    BY HeldIs
  <1>2. ASSUME NEW p \in 1 .. N  PROVE Held(E, s)[p] = Held(D, s)[p]
    <2>1. PICK k \in 1 .. Len(s), i \in 1 .. CellsPer : p = Place(k, i) /\ Held(D, s)[p] = D[s[k]][i]
      BY HeldIs
    <2>2. Held(E, s)[p] = E[s[k]][i]
      BY <2>1, HeldAt
    <2>3. s[k] \in Range(s)
      BY RangeEquality
    <2> QED  BY <2>1, <2>2, <2>3
  <1> DEFINE A == Held(E, s)
  <1> DEFINE B == Held(D, s)
  <1>3. A \in [1 .. N -> Cells] /\ B \in [1 .. N -> Cells] /\ \A p \in 1 .. N : A[p] = B[p]
    BY <1>1, <1>2
  <1> HIDE DEF A, B, N
  <1>4. A = B
    <2>1. A = [p \in 1 .. N |-> A[p]] /\ B = [p \in 1 .. N |-> B[p]]
      BY <1>3
    <2>2. [p \in 1 .. N |-> A[p]] = [p \in 1 .. N |-> B[p]]
      BY <1>3
    <2> QED  BY <2>1, <2>2
  <1> QED  BY <1>4 DEF A, B

\* The bytes are in the chain all from the offset on, and nowhere else.
InPlace(all, off, n) ==
  /\ \A k \in 1 .. Len(all), i \in 1 .. CellsPer :
       data'[all[k]][i] = IF off < Place(k, i) /\ Place(k, i) <= off + n
                          THEN <<moves + 1, Place(k, i) - off>> ELSE data[all[k]][i]
  /\ \A c \in Clusters \ Range(all) : data'[c] = data[c]

\* Where the bytes of a write end up if no transfer fails.
LEMMA WriteCells ==
  ASSUME TypeOK, "io" \notin world, NEW off \in Nat, NEW n \in Nat,
         NEW s \in Seq(Clusters), NEW all \in Seq(Clusters),
         \A k, l \in 1 .. Len(all) : all[k] = all[l] => k = l,
         Written(Len(s), all, off, n)
  PROVE  InPlace(all, off, n)
  <1>1. Kept(Loop(off, n), n, Len(s), Len(all)) = {1 .. n}
    BY DEF Kept
  <1>2. /\ Len(all) \in Nat /\ DOMAIN all = 1 .. Len(all) /\ all \in [1 .. Len(all) -> Clusters]
        /\ Range(all) = {all[k] : k \in 1 .. Len(all)}
    BY LenProperties, RangeEquality
  <1> DEFINE To(c, i) == {b \in 1 .. n : \E k \in 1 .. Len(all) :
                            all[k] = c /\ Byte(Loop(off, n), n, k, i) = b}
  <1>3. /\ \A c \in Clusters, i \in 1 .. CellsPer :
              data'[c][i] = IF To(c, i) = {} THEN data[c][i]
                            ELSE <<moves + 1, CHOOSE b \in To(c, i) : TRUE>>
        /\ \A c \in Clusters : data'[c] = [i \in 1 .. CellsPer |-> data'[c][i]]
    <2>1. PICK kept \in Kept(Loop(off, n), n, Len(s), Len(all)) :
            data' = [c \in Clusters |-> [i \in 1 .. CellsPer |->
                       LET to == {b \in kept : \E k \in DOMAIN all :
                                    all[k] = c /\ Byte(Loop(off, n), n, k, i) = b}
                       IN IF to = {} THEN data[c][i]
                          ELSE <<moves + 1, CHOOSE b \in to : TRUE>>]]
      BY DEF Written
    <2> DEFINE Of(c, i) == {b \in kept : \E k \in DOMAIN all :
                              all[k] = c /\ Byte(Loop(off, n), n, k, i) = b}
    <2>2. data' = [c \in Clusters |-> [i \in 1 .. CellsPer |->
                     IF Of(c, i) = {} THEN data[c][i] ELSE <<moves + 1, CHOOSE b \in Of(c, i) : TRUE>>]]
      BY <2>1
    <2>3. ASSUME NEW c, NEW i  PROVE Of(c, i) = To(c, i)
      <3>1. kept = 1 .. n /\ DOMAIN all = 1 .. Len(all)
        BY <1>1, <1>2
      <3> QED  BY <3>1
    <2> HIDE DEF Of, To
    <2>4. ASSUME NEW c \in Clusters, NEW i \in 1 .. CellsPer
          PROVE  data'[c][i] = IF To(c, i) = {} THEN data[c][i]
                               ELSE <<moves + 1, CHOOSE b \in To(c, i) : TRUE>>
      <3>1. data'[c][i] = IF Of(c, i) = {} THEN data[c][i]
                          ELSE <<moves + 1, CHOOSE b \in Of(c, i) : TRUE>>
        BY <2>2
      <3>2. Of(c, i) = To(c, i)
        BY <2>3
      <3> QED  BY <3>1, <3>2
    <2>5. \A c \in Clusters : data'[c] = [i \in 1 .. CellsPer |-> data'[c][i]]
      BY <2>2
    <2> QED  BY <2>4, <2>5
  <1>4. ASSUME NEW k \in 1 .. Len(all), NEW i \in 1 .. CellsPer
        PROVE  data'[all[k]][i] = IF off < Place(k, i) /\ Place(k, i) <= off + n
                                  THEN <<moves + 1, Place(k, i) - off>> ELSE data[all[k]][i]
    <2>1. all[k] \in Clusters
      BY <1>2
    <2>2. data'[all[k]][i] = IF To(all[k], i) = {} THEN data[all[k]][i]
                             ELSE <<moves + 1, CHOOSE b \in To(all[k], i) : TRUE>>
      BY <1>3, <2>1
    <2> DEFINE byte == Byte(Loop(off, n), n, k, i)
    <2>3. byte = IF off < Place(k, i) /\ Place(k, i) <= off + n THEN Place(k, i) - off ELSE 0
      <3>1. k \in Nat \ {0}
        BY <1>2
      <3> QED  BY <3>1, ByteIs
    <2>4. To(all[k], i) = {b \in 1 .. n : byte = b}
      <3>1. \A l \in 1 .. Len(all) : all[l] = all[k] => l = k
        OBVIOUS
      <3> QED  BY <3>1
    <2> HIDE DEF To, byte
    <2>5. Place(k, i) \in Nat
      <3>1. k \in Nat \ {0}
        BY <1>2
      <3> QED  BY <3>1, PlaceType
    <2>6. CASE off < Place(k, i) /\ Place(k, i) <= off + n
      <3>1. byte = Place(k, i) - off /\ byte \in 1 .. n
        BY <2>3, <2>5, <2>6
      <3>2. To(all[k], i) = {byte}
        BY <2>4, <3>1
      <3>3. (CHOOSE b \in To(all[k], i) : TRUE) = byte
        BY <3>2
      <3> QED  BY <2>2, <2>6, <3>1, <3>2, <3>3
    <2>7. CASE ~(off < Place(k, i) /\ Place(k, i) <= off + n)
      <3>1. byte = 0 /\ byte \notin 1 .. n
        BY <2>3, <2>7
      <3>2. To(all[k], i) = {}
        BY <2>4, <3>1
      <3> QED  BY <2>2, <2>7, <3>2
    <2> QED  BY <2>6, <2>7
  <1>5. ASSUME NEW c \in Clusters \ Range(all)  PROVE data'[c] = data[c]
    <2>1. \A i \in 1 .. CellsPer : To(c, i) = {}
      BY <1>2
    <2> HIDE DEF To
    <2>2. \A i \in 1 .. CellsPer : data'[c][i] = data[c][i]
      BY <1>3, <2>1
    <2>3. data[c] = [i \in 1 .. CellsPer |-> data[c][i]]
      BY DEF TypeOK
    <2>4. data'[c] = [i \in 1 .. CellsPer |-> data'[c][i]]
      BY <1>3
    <2>5. [i \in 1 .. CellsPer |-> data'[c][i]] = [i \in 1 .. CellsPer |-> data[c][i]]
      BY <2>2
    <2> QED  BY <2>3, <2>4, <2>5
  <1> QED  BY <1>4, <1>5 DEF InPlace

\* A write stores its buffer in the file, and in no other.
LEMMA Stores ==
  ASSUME TypeOK, Apart, "io" \notin world,
         NEW h \in Handles, NEW off \in Offsets, NEW n \in Sizes, Write(h, off, n)
  PROVE  /\ StoredAt(table[h].entry.dca, off, n)
         /\ \A c \in Heads \ {table[h].entry.dca} : File(c)' = File(c)
  <1>1. off \in Nat /\ n \in Nat
    BY ContentAssumption
  <1> DEFINE d == table[h].entry.dca
  <1>2. PICK s : s = Chain(d)
    OBVIOUS
  <1>3. d \in Heads /\ \A c \in Heads \ {d} : Chain(c)' = Chain(c)
    BY WriteGrows
  <1>4. PICK new \in Fresh(Cardinality(Clusters)) :
          /\ IsChain(fat', Chain(d) \o new) /\ Chain(d)' = Chain(d) \o new
          /\ Range(Chain(d) \o new) = Range(Chain(d)) \cup Range(new)
          /\ Written(Len(Chain(d)), Chain(d) \o new, off, n)
          /\ \A c \in Heads \ {d} : Range(Chain(c)) \cap Range(Chain(d) \o new) = {}
    BY WriteGrows
  <1>5. PICK all : all = s \o new
    OBVIOUS
  <1>6. /\ IsChain(fat', all) /\ Chain(d)' = all
         /\ \A c \in Heads \ {d} : Range(Chain(c)) \cap Range(all) = {}
    BY <1>2, <1>4, <1>5
  <1>7. Written(Len(s), all, off, n)
    BY <1>2, <1>4, <1>5
  <1>8. /\ s \in Seq(Clusters) /\ new \in Seq(Clusters) /\ all \in Seq(Clusters)
        /\ \A k, l \in 1 .. Len(all) : all[k] = all[l] => k = l
    <2>1. s \in Seq(Clusters)
      BY <1>2, <1>3, HeadChain DEF IsChain
    <2>2. new \in Seq(Clusters)
      BY FreshIs
    <2> QED  BY <1>6, <2>1, <2>2 DEF IsChain
  <1>9. /\ Len(s) \in Nat /\ Len(all) \in Nat /\ Len(s) <= Len(all)
        /\ \A k \in 1 .. Len(s) : k \in 1 .. Len(all) /\ all[k] = s[k]
    <2>1. /\ Len(all) = Len(s) + Len(new)
          /\ \A k \in 1 .. Len(s) + Len(new) : all[k] = IF k <= Len(s) THEN s[k] ELSE new[k - Len(s)]
      BY <1>5, <1>8, ConcatProperties
    <2>2. Len(s) \in Nat /\ Len(new) \in Nat
      BY <1>8, LenProperties
    <2> QED  BY <2>1, <2>2
  <1>10. /\ \A k \in 1 .. Len(all), i \in 1 .. CellsPer :
              data'[all[k]][i] = IF off < Place(k, i) /\ Place(k, i) <= off + n
                                 THEN <<moves + 1, Place(k, i) - off>> ELSE data[all[k]][i]
        /\ \A c \in Clusters \ Range(all) : data'[c] = data[c]
    <2>1. InPlace(all, off, n)
      BY <1>1, <1>8, <1>7, WriteCells
    <2> QED  BY <2>1 DEF InPlace
  <1>11. data \in Contents /\ data' \in Contents
    BY WriteTypes DEF TypeOK, Contents
  <1>12. moves' = moves + 1 /\ table' = table
    BY DEF Write
  <1>13. File(d) = Held(data, s) /\ File(d)' = Held(data', all)
    BY <1>2, <1>12, <1>6 DEF File, Held
  <1>14. StoredAt(d, off, n)
    <2> DEFINE old == Held(data, s)
    <2> DEFINE now == Held(data', all)
    <2> DEFINE N == CellsPer * Len(all)
    <2> DEFINE O == CellsPer * Len(s)
    <2>1. Len(old) = O /\ Len(now) = N /\ N \in Nat /\ O \in Nat
      BY <1>8, <1>11, HeldIs
    <2>2. O <= N
      <3>1. CellsPer \in Nat
        BY ContentAssumption
      <3>2. CASE Len(s) < Len(all)
        <4>1. Len(s) * CellsPer + CellsPer <= Len(all) * CellsPer
          BY <1>9, <3>1, <3>2, Later
        <4>2. Len(s) * CellsPer = O /\ Len(all) * CellsPer = N
          BY <1>8, <1>11, HeldIs
        <4> HIDE DEF N, O
        <4> QED  BY <2>1, <3>1, <4>1, <4>2
      <3>3. CASE Len(s) = Len(all)
        BY <2>1, <3>3
      <3> QED  BY <1>9, <3>2, <3>3
    <2>3. ASSUME NEW i \in 1 .. N
          PROVE  IF off < i /\ i <= off + n THEN now[i] = <<moves', i - off>>
                 ELSE i <= O => now[i] = old[i]
      <3>1. PICK k \in 1 .. Len(all), j \in 1 .. CellsPer : i = Place(k, j) /\ now[i] = data'[all[k]][j]
        BY <1>8, <1>11, HeldIs
      <3>2. data'[all[k]][j] = IF off < i /\ i <= off + n THEN <<moves', i - off>> ELSE data[all[k]][j]
        BY <1>10, <1>12, <3>1
      <3>3. ASSUME i <= O  PROVE old[i] = data[all[k]][j]
        <4>1. i \in 1 .. O
          <5> HIDE DEF N, O
          <5> QED  BY <2>1, <3>3
        <4>2. PICK l \in 1 .. Len(s), g \in 1 .. CellsPer : i = Place(l, g) /\ old[i] = data[s[l]][g]
          BY <1>8, <1>11, <4>1, HeldIs, SMTT(30)
        <4>3. l = k /\ g = j
          <5>1. l \in Nat \ {0} /\ k \in Nat \ {0}
            BY <1>9
          <5>2. Place(l, g) = Place(k, j)
            BY <3>1, <4>2
          <5> QED  BY <5>1, <5>2, PlacesDiffer
        <4> QED  BY <1>9, <4>2, <4>3
      <3> HIDE DEF N, O, old, now
      <3> QED  BY <3>1, <3>2, <3>3
    <2> HIDE DEF N, O, old, now, d
    <2>4. File(d) = old /\ File(d)' = now
      BY <1>13 DEF old, now
    <2> QED  BY <2>1, <2>2, <2>3, <2>4 DEF StoredAt
  <1>15. ASSUME NEW c \in Heads \ {d}  PROVE File(c)' = File(c)
    <2>1. Chain(c) \in Seq(Clusters) /\ \A y \in Range(Chain(c)) : y \in Clusters
      BY HeadChain DEF IsChain
    <2>2. \A y \in Range(Chain(c)) : data'[y] = data[y]
      BY <1>10, <1>6, <2>1
    <2>3. Held(data', Chain(c)) = Held(data, Chain(c))
      BY <1>11, <2>1, <2>2, HeldSame
    <2>4. Chain(c)' = Chain(c)
      BY <1>3
    <2>5. File(c)' = Held(data', Chain(c)) /\ File(c) = Held(data, Chain(c))
      BY <2>4 DEF File, Held
    <2> QED  BY <2>3, <2>5
  <1> QED  BY <1>14, <1>15

(* NIFAT32_write_buffer2content stores the buffer at its offset, as far as *)
(* the file reaches or can be made to reach, leaves the rest of the file   *)
(* as it was, and does not touch another file.                             *)
THEOREM WritesAreStored == Spec => WriteStores
  <1>1. ASSUME ContentInv, [Next]_vars
        PROVE  [\A h \in Handles, off \in Offsets, n \in Sizes :
                  Orderly /\ "io" \notin world /\ Write(h, off, n) =>
                    /\ StoredAt(table[h].entry.dca, off, n)
                    /\ \A c \in Heads \ {table[h].entry.dca} : File(c)' = File(c)]_vars
    BY <1>1, Stores DEF ContentInv
  <1> QED  BY <1>1, ContentInvHolds, PTL DEF Spec, WriteStores
=============================================================================
