--------------------------- MODULE Replay_proofs ---------------------------
(* Proofs about Replay, for every number of master threads, every batch,    *)
(* every episode length and every sampler.                                  *)
EXTENDS Replay, FiniteSums, FiniteSetTheorems, SequenceTheorems, TLAPS

------------------------------------------------------------------------------
(* Numbers of transitions                                                  *)

\* The transitions of the first n episodes of s, by the lengths that nd gives them.
Lengths(nd, s, n) == [k \in 1 .. n |-> nd[s[k]]]
SumUpTo(nd, s, n) == SumOf(Lengths(nd, s, n), 1 .. n)

LEMMA FoldIsSum ==
  ASSUME NEW f, NEW S, S = DOMAIN f
  PROVE  FoldFunction(+, 0, f) = SumOf(f, S)
BY DEF FoldFunction, FoldFunctionOnSet, SumOf, MapThenSumSet, MapThenFoldSet

LEMMA TotalIsSum == \A s, n : Total(s, n) = SumUpTo(ndata, s, n)
<1> TAKE s, n
<1>1. 1 .. n = DOMAIN Lengths(ndata, s, n)
  BY DEF Lengths
<1>2. FoldFunction(+, 0, Lengths(ndata, s, n)) = SumOf(Lengths(ndata, s, n), 1 .. n)
  BY <1>1, FoldIsSum
<1>3. Total(s, n) = FoldFunction(+, 0, Lengths(ndata, s, n))
  BY DEF Total, Lengths
<1> QED BY <1>2, <1>3 DEF SumUpTo

LEMMA SumsGrow ==
  ASSUME NEW M \in Nat, NEW nd, NEW s, \A k \in 1 .. M : nd[s[k]] \in Nat
  PROVE  /\ SumUpTo(nd, s, 0) = 0
         /\ \A n \in 0 .. M - 1 : SumUpTo(nd, s, n + 1) = SumUpTo(nd, s, n) + nd[s[n + 1]]
         /\ \A n \in 0 .. M : SumUpTo(nd, s, n) \in Nat
<1>0. \A n \in 0 .. M : IsFiniteSet(1 .. n) /\ Lengths(nd, s, n) \in [1 .. n -> Int]
  BY FS_Interval DEF Lengths
<1>1. SumUpTo(nd, s, 0) = 0
  <2>1. 1 .. 0 = {} /\ 0 \in 0 .. M
    OBVIOUS
  <2>2. SumOf(Lengths(nd, s, 0), {}) = 0
    <3> DEFINE f == Lengths(nd, s, 0)
    <3>1. f \in [{} -> Int] /\ IsFiniteSet({})
      BY <1>0, <2>1
    <3> HIDE DEF f
    <3>2. SumOf(f, {}) = 0
      BY <3>1, SumFacts
    <3> QED BY <3>2 DEF f
  <2> QED BY <2>1, <2>2 DEF SumUpTo
<1>2. ASSUME NEW n \in 0 .. M - 1
      PROVE  SumUpTo(nd, s, n + 1) = SumUpTo(nd, s, n) + nd[s[n + 1]]
             /\ SumUpTo(nd, s, n) \in Int
  <2> DEFINE f == Lengths(nd, s, n + 1)
             g == Lengths(nd, s, n)
             T == 1 .. n + 1
             S == 1 .. n
  <2>1. /\ IsFiniteSet(T) /\ f \in [T -> Int] /\ IsFiniteSet(S) /\ g \in [S -> Int]
        /\ S \in SUBSET T /\ n + 1 \in T /\ T \ {n + 1} = S
    <3>1. n \in 0 .. M /\ n + 1 \in 0 .. M /\ n \in Nat
      OBVIOUS
    <3>2. IsFiniteSet(T) /\ f \in [T -> Int] /\ IsFiniteSet(S) /\ g \in [S -> Int]
      BY <1>0, <3>1
    <3>3. S \in SUBSET T /\ n + 1 \in T /\ T \ {n + 1} = S
      BY <3>1
    <3> QED BY <3>2, <3>3
  <2>2. f[n + 1] = nd[s[n + 1]] /\ \A k \in S : f[k] = g[k]
    BY DEF Lengths
  <2> HIDE DEF f, g, S, T
  <2>3. SumOf(f, T) = f[n + 1] + SumOf(f, S) /\ SumOf(f, S) \in Int
    <3>1. T \in SUBSET T
      OBVIOUS
    <3>2. SumOf(f, T) = f[n + 1] + SumOf(f, T \ {n + 1})
      BY <2>1, <3>1, SumFacts
    <3>3. SumOf(f, S) \in Int
      BY <2>1, SumFacts
    <3> QED BY <2>1, <3>2, <3>3
  <2>4. SumOf(f, S) = SumOf(g, S)
    BY <2>1, <2>2, SumAgree
  <2>5. f[n + 1] \in Int
    BY <2>1
  <2>6. SumOf(f, T) = SumOf(g, S) + nd[s[n + 1]] /\ SumOf(g, S) \in Int
    BY <2>2, <2>3, <2>4, <2>5
  <2> QED BY <2>6 DEF SumUpTo, f, g, S, T
<1> DEFINE N == {n \in Nat : n <= M => SumUpTo(nd, s, n) \in Nat}
<1>3. N = Nat
  <2>1. 0 \in N
    BY <1>1
  <2>2. ASSUME NEW n \in N PROVE n + 1 \in N
    <3> SUFFICES ASSUME n + 1 <= M PROVE SumUpTo(nd, s, n + 1) \in Nat
      OBVIOUS
    <3>1. n \in 0 .. M - 1 /\ SumUpTo(nd, s, n) \in Nat /\ nd[s[n + 1]] \in Nat
      <4>1. n \in Nat /\ n <= M - 1 /\ n + 1 \in 1 .. M
        OBVIOUS
      <4> QED BY <4>1
    <3> QED BY <3>1, <1>2
  <2> HIDE DEF N
  <2>3. N \subseteq Nat
    BY DEF N
  <2> QED BY <2>1, <2>2, <2>3, UpFromZero
<1>4. \A n \in 0 .. M : SumUpTo(nd, s, n) \in Nat
  <2> TAKE n \in 0 .. M
  <2>1. n \in N /\ n <= M
    BY <1>3
  <2> QED BY <2>1
<1> QED BY <1>1, <1>2, <1>4

LEMMA SumsMonotone ==
  ASSUME NEW M \in Nat, NEW nd, NEW s, \A k \in 1 .. M : nd[s[k]] \in Nat,
         NEW m \in 0 .. M, NEW n \in m .. M
  PROVE  SumUpTo(nd, s, m) <= SumUpTo(nd, s, n)
<1> DEFINE N == {d \in Nat : m + d <= M => SumUpTo(nd, s, m) <= SumUpTo(nd, s, m + d)}
<1>1. 0 \in N
  BY SumsGrow
<1>2. ASSUME NEW d \in N PROVE d + 1 \in N
  <2> SUFFICES ASSUME m + (d + 1) <= M PROVE SumUpTo(nd, s, m) <= SumUpTo(nd, s, m + (d + 1))
    OBVIOUS
  <2>1. /\ m + d \in 0 .. M - 1 /\ m + d \in 0 .. M /\ (m + d) + 1 = m + (d + 1)
        /\ (m + d) + 1 \in 1 .. M
    OBVIOUS
  <2>2. SumUpTo(nd, s, (m + d) + 1) = SumUpTo(nd, s, m + d) + nd[s[(m + d) + 1]]
    BY <2>1, SumsGrow
  <2>3. SumUpTo(nd, s, m) \in Nat /\ SumUpTo(nd, s, m + d) \in Nat /\ nd[s[(m + d) + 1]] \in Nat
    BY <2>1, SumsGrow
  <2>4. SumUpTo(nd, s, m) <= SumUpTo(nd, s, m + d)
    BY <2>1
  <2> QED BY <2>1, <2>2, <2>3, <2>4
<1>3. N = Nat
  <2> HIDE DEF N
  <2>1. N \subseteq Nat
    BY DEF N
  <2> QED BY <1>1, <1>2, <2>1, UpFromZero
<1>4. n - m \in Nat /\ m + (n - m) = n /\ n <= M
  OBVIOUS
<1>5. n - m \in N
  BY <1>3, <1>4
<1> QED BY <1>4, <1>5

\* What the transitions are does not depend on the order of the episodes.
LEMMA SumsOfSet ==
  ASSUME NEW nd \in [Ids -> Nat], NEW s \in Seq(Ids), IsInjective(s), NEW n \in 0 .. Len(s)
  PROVE  SumUpTo(nd, s, n) = SumOf(nd, {s[k] : k \in 1 .. n})
<1> DEFINE E(m) == {s[k] : k \in 1 .. m}
           N == {m \in Nat : m <= Len(s) => SumUpTo(nd, s, m) = SumOf(nd, E(m))}
<1>0. /\ Len(s) \in Nat /\ IsFiniteSet(Ids) /\ nd \in [Ids -> Int]
      /\ \A k \in 1 .. Len(s) : s[k] \in Ids /\ nd[s[k]] \in Nat
  <2>1. IsFiniteSet(Ids)
    <3>1. 1 \in Int /\ MaxEpisodes \in Int
      BY ReplayAssumption
    <3> QED BY <3>1, FS_Interval DEF Ids
  <2>2. \A k \in 1 .. Len(s) : s[k] \in Ids
    OBVIOUS
  <2>3. nd \in [Ids -> Int] /\ \A e \in Ids : nd[e] \in Nat
    OBVIOUS
  <2> QED BY <2>1, <2>2, <2>3
<1>a. /\ SumUpTo(nd, s, 0) = 0
      /\ \A k \in 0 .. Len(s) - 1 : SumUpTo(nd, s, k + 1) = SumUpTo(nd, s, k) + nd[s[k + 1]]
  BY <1>0, SumsGrow
<1>1. 0 \in N
  <2>1. E(0) = {}
    OBVIOUS
  <2>2. SumOf(nd, {}) = 0
    BY <1>0, SumFacts
  <2>3. SumUpTo(nd, s, 0) = 0
    BY <1>a
  <2> QED BY <2>1, <2>2, <2>3
<1>2. ASSUME NEW m \in N PROVE m + 1 \in N
  <2> SUFFICES ASSUME m + 1 <= Len(s) PROVE SumUpTo(nd, s, m + 1) = SumOf(nd, E(m + 1))
    OBVIOUS
  <2>1. m \in Nat /\ m \in 0 .. Len(s) - 1 /\ m + 1 \in 1 .. Len(s)
        /\ SumUpTo(nd, s, m) = SumOf(nd, E(m))
    BY <1>0
  <2>2. SumUpTo(nd, s, m + 1) = SumUpTo(nd, s, m) + nd[s[m + 1]]
    BY <1>a, <2>1
  <2>3. E(m + 1) \in SUBSET Ids /\ s[m + 1] \in E(m + 1) /\ E(m) \in SUBSET Ids
    BY <1>0, <2>1
  <2>4. E(m + 1) \ {s[m + 1]} = E(m)
    <3>1. \A k \in 1 .. m : s[k] # s[m + 1]
      BY <1>0, <2>1 DEF IsInjective
    <3>2. \A k \in 1 .. m + 1 : k \in 1 .. m \/ k = m + 1
      BY <2>1
    <3>3. \A k \in 1 .. m : k \in 1 .. m + 1
      BY <2>1
    <3> QED BY <3>1, <3>2, <3>3
  <2> HIDE DEF E
  <2>5. SumOf(nd, E(m + 1)) = nd[s[m + 1]] + SumOf(nd, E(m)) /\ SumOf(nd, E(m)) \in Int
    BY <1>0, <2>3, <2>4, SumFacts
  <2>6. nd[s[m + 1]] \in Int
    BY <1>0, <2>1
  <2> QED BY <2>1, <2>2, <2>5, <2>6
<1>3. N = Nat
  <2> HIDE DEF N
  <2>1. N \subseteq Nat
    BY DEF N
  <2> QED BY <1>1, <1>2, <2>1, UpFromZero
<1>4. n \in N /\ n <= Len(s)
  <2>1. n \in Nat /\ n <= Len(s)
    BY <1>0
  <2> QED BY <1>3, <2>1
<1> QED BY <1>4

------------------------------------------------------------------------------
(* Steps of the episodes, one after the other                              *)

\* What FlattenSeq computes with: the sequences up to each place, put together.
Flattens(f, seqs) ==
  f = [i \in 1 .. Len(seqs) |-> IF i = 1 THEN seqs[i] ELSE f[i - 1] \o seqs[i]]

LEMMA FlattenIsChosen ==
  ASSUME NEW seqs, Len(seqs) # 0
  PROVE  FlattenSeq(seqs) = (CHOOSE f : Flattens(f, seqs))[Len(seqs)]
BY DEF FlattenSeq, Flattens

LEMMA FirstsOf ==
  ASSUME NEW V, NEW M \in Nat, NEW s \in [1 .. M -> V], NEW m \in 0 .. M
  PROVE  /\ [k \in 1 .. m |-> s[k]] \in Seq(V) /\ Len([k \in 1 .. m |-> s[k]]) = m
         /\ m = 0 => [k \in 1 .. m |-> s[k]] = <<>>
<1>1. m \in Nat /\ \A k \in 1 .. m : s[k] \in V
  OBVIOUS
<1>2. [k \in 1 .. m |-> s[k]] \in [1 .. m -> V]
  BY <1>1
<1>3. [k \in 1 .. m |-> s[k]] \in Seq(V) /\ Len([k \in 1 .. m |-> s[k]]) = m
  <2> DEFINE r == [k \in 1 .. m |-> s[k]]
  <2>1. r \in [1 .. m -> V] /\ m \in Nat
    BY <1>1, <1>2
  <2> HIDE DEF r
  <2>2. r \in Seq(V) /\ Len(r) = m
    BY <2>1
  <2> QED BY <2>2 DEF r
<1>4. ASSUME m = 0 PROVE [k \in 1 .. m |-> s[k]] = <<>>
  <2> DEFINE r == [k \in 1 .. m |-> s[k]]
  <2>1. r \in Seq(V) /\ Len(r) = 0
    BY <1>3, <1>4
  <2> HIDE DEF r
  <2>2. r = <<>>
    BY <2>1
  <2> QED BY <2>2 DEF r
<1> QED BY <1>3, <1>4

\* g[k] are the first k sequences of s.
PutTogether(g, s, V, m) ==
  /\ g[0] = <<>>
  /\ \A k \in 1 .. m : g[k] = g[k - 1] \o s[k]
  /\ \A k \in 0 .. m : g[k] \in Seq(V)

LEMMA TogetherExists ==
  ASSUME NEW V, NEW M \in Nat, NEW s \in [1 .. M -> Seq(V)]
  PROVE  \E g : PutTogether(g, s, V, M)
<1> DEFINE N == {m \in Nat : m <= M => \E g : PutTogether(g, s, V, m)}
<1>1. 0 \in N
  <2> DEFINE g == [i \in {0} |-> <<>>]
  <2>1. g[0] = <<>> /\ (\A k \in 1 .. 0 : FALSE) /\ \A k \in 0 .. 0 : k = 0
    OBVIOUS
  <2>2. <<>> \in Seq(V)
    OBVIOUS
  <2> HIDE DEF g
  <2>3. PutTogether(g, s, V, 0)
    BY <2>1, <2>2 DEF PutTogether
  <2> QED BY <2>3
<1>2. ASSUME NEW m \in N PROVE m + 1 \in N
  <2> SUFFICES ASSUME m + 1 <= M PROVE \E h : PutTogether(h, s, V, m + 1)
    OBVIOUS
  <2>1. m \in Nat /\ m <= M /\ m + 1 \in 1 .. M
    OBVIOUS
  <2>2. PICK g : PutTogether(g, s, V, m)
    BY <2>1
  <2> DEFINE h == [i \in 0 .. m + 1 |-> IF i <= m THEN g[i] ELSE g[m] \o s[m + 1]]
  <2>3. h[0] = <<>>
    BY <2>1, <2>2 DEF PutTogether
  <2>4. h[m + 1] = g[m] \o s[m + 1] /\ \A k \in 0 .. m : h[k] = g[k]
    <3>1. m + 1 \in 0 .. m + 1 /\ ~(m + 1 <= m)
      BY <2>1
    <3>2. \A k \in 0 .. m : k \in 0 .. m + 1 /\ k <= m
      BY <2>1
    <3>3. h[m + 1] = g[m] \o s[m + 1]
      BY <3>1
    <3> QED BY <3>2, <3>3
  <2> HIDE DEF h
  <2>5. ASSUME NEW k \in 1 .. m + 1 PROVE h[k] = h[k - 1] \o s[k]
    <3>1. CASE k <= m
      <4>1. k \in 1 .. m /\ k \in 0 .. m /\ k - 1 \in 0 .. m
        BY <2>1, <3>1
      <4>2. g[k] = g[k - 1] \o s[k]
        BY <2>2, <4>1 DEF PutTogether
      <4> QED BY <2>4, <4>1, <4>2
    <3>2. CASE ~(k <= m)
      <4>1. k = m + 1 /\ k - 1 = m /\ m \in 0 .. m
        BY <2>1, <3>2
      <4> QED BY <2>4, <4>1
    <3> QED BY <3>1, <3>2
  <2>6. ASSUME NEW k \in 0 .. m + 1 PROVE h[k] \in Seq(V)
    <3>1. CASE k <= m
      <4>1. k \in 0 .. m
        BY <2>1, <3>1
      <4> QED BY <2>2, <2>4, <4>1 DEF PutTogether
    <3>2. CASE ~(k <= m)
      <4>1. k = m + 1 /\ m \in 0 .. m
        BY <2>1, <3>2
      <4>2. g[m] \in Seq(V) /\ s[m + 1] \in Seq(V)
        BY <2>1, <2>2, <4>1 DEF PutTogether
      <4>3. g[m] \o s[m + 1] \in Seq(V)
        BY <4>2
      <4> QED BY <2>4, <4>1, <4>3
    <3> QED BY <3>1, <3>2
  <2>7. PutTogether(h, s, V, m + 1)
    BY <2>3, <2>5, <2>6 DEF PutTogether
  <2> QED BY <2>7
<1>3. N = Nat
  <2> HIDE DEF N
  <2>1. N \subseteq Nat
    BY DEF N
  <2> QED BY <1>1, <1>2, <2>1, UpFromZero
<1>4. M \in N
  <2> HIDE DEF N
  <2> QED BY <1>3
<1>5. M <= M
  OBVIOUS
<1> QED BY <1>4, <1>5

\* FlattenSeq puts the sequences together.
FirstsAre(r, s, V, M, m) ==
  /\ M \in Nat /\ m \in 0 .. M /\ s \in [1 .. M -> Seq(V)]
  /\ r \in Seq(Seq(V)) /\ Len(r) = m /\ \A k \in 1 .. m : r[k] = s[k]

LEMMA FlattenIs ==
  ASSUME NEW V, NEW M, NEW s, NEW g, PutTogether(g, s, V, M), NEW m, NEW r, FirstsAre(r, s, V, M, m)
  PROVE  FlattenSeq(r) = g[m]
<1> USE DEF FirstsAre
<1>1. m = 0 => r = <<>>
  OBVIOUS
<1>2. \A k \in 1 .. m : r[k] = s[k] /\ s[k] \in Seq(V)
  OBVIOUS
<1>3. CASE m = 0
  <2>1. FlattenSeq(r) = r /\ g[0] = <<>>
    BY <1>1, <1>3 DEF FlattenSeq, PutTogether
  <2> QED BY <1>1, <1>3, <2>1
<1>4. CASE m # 0
  <2>0. m \in Nat \ {0} /\ m <= M
    BY <1>4
  <2>1. FlattenSeq(r) = (CHOOSE f : Flattens(f, r))[m]
    BY <1>1, <1>4, FlattenIsChosen
  <2> DEFINE h == [i \in 1 .. m |-> g[i]]
  <2>2. Flattens(h, r)
    <3> SUFFICES ASSUME NEW i \in 1 .. m
                 PROVE  g[i] = IF i = 1 THEN r[i] ELSE h[i - 1] \o r[i]
      BY <1>1 DEF Flattens
    <3>1. i \in 1 .. M /\ g[i] = g[i - 1] \o s[i] /\ r[i] = s[i] /\ s[i] \in Seq(V)
      <4>1. i \in 1 .. M
        BY <2>0
      <4>2. g[i] = g[i - 1] \o s[i]
        BY <4>1 DEF PutTogether
      <4> QED BY <1>2, <4>1, <4>2
    <3>2. CASE i = 1
      <4>1. g[0] = <<>>
        BY DEF PutTogether
      <4>2. i - 1 = 0 /\ <<>> \o s[i] = s[i]
        BY <3>1, <3>2
      <4> QED BY <3>1, <3>2, <4>1, <4>2
    <3>3. CASE i # 1
      <4>1. i - 1 \in 1 .. m
        BY <2>0, <3>3
      <4> QED BY <3>1, <3>3, <4>1
    <3> QED BY <3>2, <3>3
  <2> HIDE DEF h
  <2>3. PICK f : f = (CHOOSE c : Flattens(c, r)) /\ Flattens(f, r)
    BY <2>2
  <2>4. \A i \in 1 .. m : f[i] = IF i = 1 THEN r[i] ELSE f[i - 1] \o r[i]
    <3>1. 1 .. Len(r) = 1 .. m
      OBVIOUS
    <3> QED BY <2>3, <3>1 DEF Flattens
  <2> DEFINE N == {i \in Nat : i + 1 <= m => f[i + 1] = g[i + 1]}
  <2>5. 0 \in N
    <3>1. 1 \in 1 .. m /\ 1 \in 1 .. M /\ 1 - 1 = 0
      BY <2>0
    <3>2. f[1] = s[1] /\ s[1] \in Seq(V)
      BY <1>2, <2>4, <3>1
    <3>3. g[1] = g[0] \o s[1] /\ g[0] = <<>>
      BY <3>1 DEF PutTogether
    <3>4. <<>> \o s[1] = s[1]
      BY <3>2
    <3> QED BY <3>2, <3>3, <3>4
  <2>6. ASSUME NEW i \in N PROVE i + 1 \in N
    <3> SUFFICES ASSUME i + 1 + 1 <= m PROVE f[i + 1 + 1] = g[i + 1 + 1]
      OBVIOUS
    <3>1. i + 1 <= m /\ i + 1 + 1 \in 1 .. m /\ i + 1 + 1 \in 1 .. M /\ (i + 1 + 1) - 1 = i + 1
          /\ i + 1 + 1 # 1
      BY <2>0
    <3>2. f[i + 1] = g[i + 1]
      BY <3>1
    <3>3. f[i + 1 + 1] = f[i + 1] \o s[i + 1 + 1]
      BY <1>2, <2>4, <3>1
    <3>4. g[i + 1 + 1] = g[i + 1] \o s[i + 1 + 1]
      BY <3>1 DEF PutTogether
    <3> QED BY <3>2, <3>3, <3>4
  <2>7. N = Nat
    <3> HIDE DEF N
    <3>1. N \subseteq Nat
      BY DEF N
    <3> QED BY <2>5, <2>6, <3>1, UpFromZero
  <2>8. f[m] = g[m]
    <3>1. m - 1 \in Nat /\ (m - 1) + 1 = m /\ m <= m
      BY <2>0
    <3>2. m - 1 \in N
      BY <2>7, <3>1
    <3> QED BY <3>1, <3>2
  <2> QED BY <2>1, <2>3, <2>8
<1> QED BY <1>3, <1>4

\* The steps of the first n episodes of s.
StepsOfEp(nd, e) == [t \in 1 .. nd[e] |-> <<e, t>>]
StepsUpTo(nd, s, n) == FlattenSeq([k \in 1 .. n |-> StepsOfEp(nd, s[k])])

LEMMA StepsInAre == \A n : StepsIn(n) = StepsUpTo(ndata, episodes, n)
BY DEF StepsIn, StepsUpTo, StepsOf, StepsOfEp

LEMMA Concatenated ==
  ASSUME NEW V, NEW a \in Seq(V), NEW b \in Seq(V)
  PROVE  /\ a \o b \in Seq(V) /\ Len(a \o b) = Len(a) + Len(b)
         /\ \A i \in 1 .. Len(a) : (a \o b)[i] = a[i]
         /\ \A t \in 1 .. Len(b) : (a \o b)[Len(a) + t] = b[t]
<1>1. a \o b \in Seq(V) /\ Len(a \o b) = Len(a) + Len(b) /\ Len(a) \in Nat /\ Len(b) \in Nat
  OBVIOUS
<1>2. \A i \in 1 .. Len(a) + Len(b) :
        (a \o b)[i] = IF i <= Len(a) THEN a[i] ELSE b[i - Len(a)]
  OBVIOUS
<1>3. \A i \in 1 .. Len(a) : (a \o b)[i] = a[i]
  BY <1>1, <1>2
<1>4. ASSUME NEW t \in 1 .. Len(b) PROVE (a \o b)[Len(a) + t] = b[t]
  <2>1. Len(a) + t \in 1 .. Len(a) + Len(b) /\ ~(Len(a) + t <= Len(a)) /\ (Len(a) + t) - Len(a) = t
    BY <1>1
  <2> QED BY <1>2, <2>1
<1> QED BY <1>1, <1>3, <1>4

LEMMA Joined ==
  ASSUME NEW a \in Seq(Ids \X Nat), NEW b \in Seq(Ids \X Nat), NEW r, r = a \o b
  PROVE  /\ r \in Seq(Ids \X Nat) /\ Len(r) = Len(a) + Len(b)
         /\ \A i \in 1 .. Len(a) : r[i] = a[i]
         /\ \A t \in 1 .. Len(b) : r[Len(a) + t] = b[t]
<1> DEFINE V == Ids \X Nat
<1>1. a \in Seq(V) /\ b \in Seq(V)
  OBVIOUS
<1> HIDE DEF V
<1>2. /\ a \o b \in Seq(V) /\ Len(a \o b) = Len(a) + Len(b)
      /\ \A i \in 1 .. Len(a) : (a \o b)[i] = a[i]
      /\ \A t \in 1 .. Len(b) : (a \o b)[Len(a) + t] = b[t]
  BY <1>1, Concatenated
<1> QED BY <1>2 DEF V

LEMMA EpisodeSteps ==
  ASSUME NEW nd \in [Ids -> Nat], NEW e \in Ids
  PROVE  /\ StepsOfEp(nd, e) \in Seq(Ids \X Nat) /\ Len(StepsOfEp(nd, e)) = nd[e]
         /\ \A t \in 1 .. nd[e] : StepsOfEp(nd, e)[t] = <<e, t>>
<1>1. nd[e] \in Nat
  OBVIOUS
<1>2. \A t \in 1 .. nd[e] : <<e, t>> \in Ids \X Nat
  BY <1>1
<1>3. StepsOfEp(nd, e) \in [1 .. nd[e] -> Ids \X Nat]
  BY <1>2 DEF StepsOfEp
<1>4. StepsOfEp(nd, e) \in Seq(Ids \X Nat) /\ Len(StepsOfEp(nd, e)) = nd[e]
  BY <1>1, <1>3
<1> QED BY <1>4 DEF StepsOfEp

LEMMA StepsGrow ==
  ASSUME NEW nd \in [Ids -> Nat], NEW s \in Seq(Ids)
  PROVE  /\ StepsUpTo(nd, s, 0) = <<>>
         /\ \A n \in 0 .. Len(s) : StepsUpTo(nd, s, n) \in Seq(Ids \X Nat)
         /\ \A n \in 0 .. Len(s) - 1 :
              StepsUpTo(nd, s, n + 1) = StepsUpTo(nd, s, n) \o StepsOfEp(nd, s[n + 1])
<1> DEFINE V == Ids \X Nat
           M == Len(s)
           q == [k \in 1 .. M |-> StepsOfEp(nd, s[k])]
<1>1. M \in Nat /\ \A k \in 1 .. M : s[k] \in Ids
  OBVIOUS
<1>2. q \in [1 .. M -> Seq(V)] /\ \A k \in 1 .. M : q[k] = StepsOfEp(nd, s[k])
  BY <1>1, EpisodeSteps
<1>3. ASSUME NEW n \in 0 .. M
      PROVE  [k \in 1 .. n |-> q[k]] = [k \in 1 .. n |-> StepsOfEp(nd, s[k])]
  <2>1. \A k \in 1 .. n : k \in 1 .. M
    BY <1>1
  <2>2. \A k \in 1 .. n : q[k] = StepsOfEp(nd, s[k])
    BY <1>2, <2>1
  <2> HIDE DEF q
  <2> QED BY <2>2
<1> HIDE DEF V, q
<1>4. PICK g : PutTogether(g, q, V, M)
  BY <1>1, <1>2, TogetherExists
<1>5. ASSUME NEW n \in 0 .. M PROVE StepsUpTo(nd, s, n) = g[n]
  <2>1. FlattenSeq([k \in 1 .. n |-> q[k]]) = g[n]
    <3>1. q \in [1 .. M -> Seq(V)] /\ PutTogether(g, q, V, M) /\ M \in Nat
      BY <1>1, <1>2, <1>4 DEF V
    <3> DEFINE r == [k \in 1 .. n |-> q[k]]
    <3>2. r \in Seq(Seq(V)) /\ Len(r) = n
      BY <3>1, FirstsOf
    <3>3. FirstsAre(r, q, V, M, n)
      BY <3>1, <3>2 DEF FirstsAre
    <3> HIDE DEF r
    <3>4. FlattenSeq(r) = g[n]
      BY <3>1, <3>3, FlattenIs
    <3> QED BY <3>4 DEF r
  <2>2. FlattenSeq([k \in 1 .. n |-> StepsOfEp(nd, s[k])]) = g[n]
    BY <1>3, <2>1
  <2> QED BY <2>2 DEF StepsUpTo
<1>6. StepsUpTo(nd, s, 0) = <<>>
  BY <1>1, <1>4, <1>5 DEF PutTogether
<1>7. \A n \in 0 .. M : StepsUpTo(nd, s, n) \in Seq(V)
  BY <1>4, <1>5 DEF PutTogether
<1>8. ASSUME NEW n \in 0 .. M - 1
      PROVE  StepsUpTo(nd, s, n + 1) = StepsUpTo(nd, s, n) \o StepsOfEp(nd, s[n + 1])
  <2>1. n \in 0 .. M /\ n + 1 \in 0 .. M /\ n + 1 \in 1 .. M /\ (n + 1) - 1 = n
    BY <1>1
  <2>2. g[n + 1] = g[n] \o q[n + 1]
    BY <1>4, <2>1 DEF PutTogether
  <2> QED BY <1>2, <1>5, <2>1, <2>2
<1> QED BY <1>6, <1>7, <1>8 DEF V

\* How many they are, which they are, and that none is there twice.
Listed(nd, s, n) ==
  LET q == StepsUpTo(nd, s, n) IN
  /\ q \in Seq(Ids \X Nat) /\ Len(q) = SumUpTo(nd, s, n)
  /\ \A i \in 1 .. Len(q) : \E k \in 1 .. n : \E t \in 1 .. nd[s[k]] : q[i] = <<s[k], t>>
  /\ \A i, j \in 1 .. Len(q) : q[i] = q[j] => i = j

LEMMA StepsListed ==
  ASSUME NEW nd \in [Ids -> Nat], NEW s \in Seq(Ids), IsInjective(s), NEW n \in 0 .. Len(s)
  PROVE  Listed(nd, s, n)
<1> DEFINE N == {m \in Nat : m <= Len(s) => Listed(nd, s, m)}
<1>0. /\ Len(s) \in Nat /\ \A k \in 1 .. Len(s) : s[k] \in Ids /\ nd[s[k]] \in Nat
  <2>1. \A k \in 1 .. Len(s) : s[k] \in Ids
    OBVIOUS
  <2> QED BY <2>1
<1>a. /\ SumUpTo(nd, s, 0) = 0
      /\ \A k \in 0 .. Len(s) - 1 : SumUpTo(nd, s, k + 1) = SumUpTo(nd, s, k) + nd[s[k + 1]]
  BY <1>0, SumsGrow
<1>1. 0 \in N
  <2>1. StepsUpTo(nd, s, 0) = <<>> /\ Len(<<>>) = 0 /\ <<>> \in Seq(Ids \X Nat)
    BY StepsGrow
  <2> DEFINE q == StepsUpTo(nd, s, 0)
  <2>3. q = <<>> /\ 1 .. 0 = {}
    BY <2>1
  <2> HIDE DEF q
  <2>4. q \in Seq(Ids \X Nat) /\ Len(q) = 0
    BY <2>1, <2>3
  <2>2. Listed(nd, s, 0)
    BY <1>a, <2>3, <2>4 DEF Listed, q
  <2> QED BY <2>2
<1>2. ASSUME NEW m \in N PROVE m + 1 \in N
  <2> SUFFICES ASSUME m + 1 <= Len(s) PROVE Listed(nd, s, m + 1)
    OBVIOUS
  <2>1. m \in Nat /\ m \in 0 .. Len(s) - 1 /\ m + 1 \in 1 .. Len(s) /\ Listed(nd, s, m)
    BY <1>0
  <2> DEFINE q == StepsUpTo(nd, s, m)
             r == StepsUpTo(nd, s, m + 1)
             x == StepsOfEp(nd, s[m + 1])
             c == nd[s[m + 1]]
  <2>2. r = q \o x
    BY <2>1, StepsGrow
  <2>3. /\ q \in Seq(Ids \X Nat) /\ Len(q) = SumUpTo(nd, s, m)
        /\ \A i \in 1 .. Len(q) : \E k \in 1 .. m : \E t \in 1 .. nd[s[k]] : q[i] = <<s[k], t>>
        /\ \A i, j \in 1 .. Len(q) : q[i] = q[j] => i = j
    BY <2>1 DEF Listed
  <2>4. /\ x \in Seq(Ids \X Nat) /\ Len(x) = c /\ c \in Nat
        /\ \A t \in 1 .. c : x[t] = <<s[m + 1], t>>
    BY <1>0, <2>1, EpisodeSteps
  <2>5. SumUpTo(nd, s, m + 1) = SumUpTo(nd, s, m) + c
    BY <1>a, <2>1
  <2>0. \A k \in 1 .. m : k \in 1 .. Len(s) /\ k \in 1 .. m + 1 /\ k # m + 1
    BY <1>0, <2>1
  <2>6. \A k \in 1 .. m : s[k] # s[m + 1]
    BY <2>0, <2>1 DEF IsInjective
  <2> HIDE DEF q, r, x, c
  <2>7. /\ r \in Seq(Ids \X Nat) /\ Len(r) = Len(q) + c /\ Len(q) \in Nat
        /\ \A i \in 1 .. Len(q) : r[i] = q[i]
        /\ \A t \in 1 .. c : r[Len(q) + t] = x[t]
    <3>1. q \in Seq(Ids \X Nat) /\ x \in Seq(Ids \X Nat) /\ Len(q) \in Nat
      BY <2>3, <2>4
    <3>2. /\ r \in Seq(Ids \X Nat) /\ Len(r) = Len(q) + Len(x)
          /\ \A i \in 1 .. Len(q) : r[i] = q[i]
          /\ \A t \in 1 .. Len(x) : r[Len(q) + t] = x[t]
      BY <2>2, <3>1, Joined
    <3> QED BY <2>4, <3>1, <3>2
  <2>8. ASSUME NEW i \in 1 .. Len(r)
        PROVE  i \in 1 .. Len(q) \/ \E t \in 1 .. c : i = Len(q) + t
    <3>1. i > Len(q) => i - Len(q) \in 1 .. c /\ i = Len(q) + (i - Len(q))
      BY <2>4, <2>7
    <3> QED BY <2>7, <3>1
  <2>9. ASSUME NEW i \in 1 .. Len(r)
        PROVE  \E k \in 1 .. m + 1 : \E t \in 1 .. nd[s[k]] : r[i] = <<s[k], t>>
    <3>1. CASE i \in 1 .. Len(q)
      <4>1. PICK k \in 1 .. m : \E t \in 1 .. nd[s[k]] : q[i] = <<s[k], t>>
        BY <2>3, <3>1
      <4>2. k \in 1 .. m + 1 /\ r[i] = q[i]
        BY <2>0, <2>7, <3>1
      <4> QED BY <4>1, <4>2
    <3>2. ASSUME NEW t \in 1 .. c, i = Len(q) + t
          PROVE  \E k \in 1 .. m + 1 : \E u \in 1 .. nd[s[k]] : r[i] = <<s[k], u>>
      <4>1. m + 1 \in 1 .. m + 1 /\ t \in 1 .. nd[s[m + 1]]
        BY <2>1, <3>2 DEF c
      <4>2. r[i] = <<s[m + 1], t>>
        BY <2>4, <2>7, <3>2
      <4> QED BY <4>1, <4>2
    <3> QED BY <2>8, <3>1, <3>2
  <2>10. ASSUME NEW i \in 1 .. Len(q), NEW t \in 1 .. c PROVE r[i] # r[Len(q) + t]
    <3>1. PICK k \in 1 .. m : \E u \in 1 .. nd[s[k]] : q[i] = <<s[k], u>>
      BY <2>3
    <3>2. PICK u \in 1 .. nd[s[k]] : q[i] = <<s[k], u>>
      BY <3>1
    <3>3. r[i] = <<s[k], u>> /\ r[Len(q) + t] = <<s[m + 1], t>>
      BY <2>4, <2>7, <3>2
    <3> QED BY <2>6, <3>3
  <2>11. ASSUME NEW i \in 1 .. Len(r), NEW j \in 1 .. Len(r), r[i] = r[j]
         PROVE  i = j
    <3>1. CASE i \in 1 .. Len(q) /\ j \in 1 .. Len(q)
      BY <2>3, <2>7, <2>11, <3>1
    <3>2. ASSUME NEW t \in 1 .. c, NEW u \in 1 .. c, i = Len(q) + t, j = Len(q) + u
          PROVE  i = j
      <4>1. r[i] = <<s[m + 1], t>> /\ r[j] = <<s[m + 1], u>>
        BY <2>4, <2>7, <3>2
      <4>2. <<s[m + 1], t>> = <<s[m + 1], u>>
        BY <2>11, <4>1
      <4>3. t = u
        BY <4>2
      <4> QED BY <3>2, <4>3
    <3> QED BY <2>8, <2>10, <2>11, <3>1, <3>2
  <2>12. Len(r) = SumUpTo(nd, s, m + 1)
    BY <2>3, <2>5, <2>7
  <2> QED BY <2>7, <2>9, <2>11, <2>12 DEF Listed, r
<1>3. N = Nat
  <2> HIDE DEF N
  <2>1. N \subseteq Nat
    BY DEF N
  <2> QED BY <1>1, <1>2, <2>1, UpFromZero
<1>4. n \in N /\ n <= Len(s)
  <2>1. n \in Nat /\ n <= Len(s)
    BY <1>0
  <2> HIDE DEF N
  <2> QED BY <1>3, <2>1
<1> QED BY <1>4

\* More episodes leave the steps of the first ones where they are.
LEMMA StepsPrefix ==
  ASSUME NEW nd \in [Ids -> Nat], NEW s \in Seq(Ids), NEW m \in 0 .. Len(s), NEW n \in m .. Len(s)
  PROVE  LET q == StepsUpTo(nd, s, m)
             r == StepsUpTo(nd, s, n)
         IN  Len(q) <= Len(r) /\ \A i \in 1 .. Len(q) : r[i] = q[i]
<1> DEFINE q == StepsUpTo(nd, s, m)
           Extends(d) == LET r == StepsUpTo(nd, s, m + d) IN
                         Len(q) <= Len(r) /\ \A i \in 1 .. Len(q) : r[i] = q[i]
           N == {d \in Nat : m + d <= Len(s) => Extends(d)}
<1>0. Len(s) \in Nat /\ m \in Nat /\ q \in Seq(Ids \X Nat) /\ m + 0 = m
  BY StepsGrow
<1>1. 0 \in N
  BY <1>0
<1>2. ASSUME NEW d \in N PROVE d + 1 \in N
  <2> SUFFICES ASSUME m + (d + 1) <= Len(s) PROVE Extends(d + 1)
    OBVIOUS
  <2> DEFINE u == m + d
  <2>1. u \in Nat /\ u \in 0 .. Len(s) - 1 /\ u \in 0 .. Len(s) /\ u + 1 = m + (d + 1)
        /\ u + 1 \in 1 .. Len(s) /\ Extends(d)
    BY <1>0
  <2> DEFINE r == StepsUpTo(nd, s, u)
             z == StepsUpTo(nd, s, u + 1)
             x == StepsOfEp(nd, s[u + 1])
  <2>2. z = r \o x /\ r \in Seq(Ids \X Nat)
    BY <2>1, StepsGrow
  <2>3. x \in Seq(Ids \X Nat)
    <3>1. s[u + 1] \in Ids
      BY <2>1
    <3> QED BY <3>1, EpisodeSteps
  <2>4. Len(q) <= Len(r) /\ \A i \in 1 .. Len(q) : r[i] = q[i]
    BY <2>1
  <2> HIDE DEF q, r, z, x
  <2>5. Len(z) = Len(r) + Len(x) /\ Len(r) \in Nat /\ Len(x) \in Nat
        /\ \A i \in 1 .. Len(r) : z[i] = r[i]
    BY <2>2, <2>3, Concatenated
  <2>6. Len(q) <= Len(z) /\ \A i \in 1 .. Len(q) : z[i] = q[i]
    <3>1. Len(q) \in Nat
      BY <1>0
    <3>2. \A i \in 1 .. Len(q) : i \in 1 .. Len(r)
      BY <2>4, <2>5, <3>1
    <3>3. Len(q) <= Len(z)
      BY <2>4, <2>5, <3>1
    <3> QED BY <2>4, <2>5, <3>2, <3>3
  <2> QED BY <2>1, <2>6 DEF z, u
<1>3. N = Nat
  <2> HIDE DEF N
  <2>1. N \subseteq Nat
    BY DEF N
  <2> QED BY <1>1, <1>2, <2>1, UpFromZero
<1>4. n - m \in Nat /\ m + (n - m) = n /\ n <= Len(s)
  BY <1>0
<1>5. n - m \in N
  <2> HIDE DEF N
  <2> QED BY <1>3, <1>4
<1>6. Extends(n - m)
  <2> HIDE DEF Extends
  <2> QED BY <1>4, <1>5
<1> QED BY <1>4, <1>6

------------------------------------------------------------------------------
(* Sets, and sequences of their elements                                   *)

LEMMA MaxIs ==
  ASSUME NEW n \in Nat, NEW S \in SUBSET (0 .. n), 0 \in S
  PROVE  Max(S) \in S /\ \A m \in S : m <= Max(S)
<1> DEFINE N == {n - m : m \in S}
<1>1. N \in SUBSET Nat /\ N # {}
  OBVIOUS
<1>2. PICK d \in N : \A x \in N : d <= x
  BY <1>1, Least
<1>3. PICK m \in S : d = n - m
  BY <1>2
<1>4. \A x \in S : n - x \in N /\ x \in Nat /\ x <= n
  OBVIOUS
<1>5. ASSUME NEW x \in S PROVE m >= x
  <2>1. n - m <= n - x
    BY <1>2, <1>3, <1>4
  <2> QED BY <1>4, <2>1
<1>6. /\ (CHOOSE y \in S : \A x \in S : y >= x) \in S
      /\ \A x \in S : (CHOOSE y \in S : \A z \in S : y >= z) >= x
  BY <1>3, <1>5, Zenon
<1>7. Max(S) \in S /\ \A x \in S : Max(S) >= x
  BY <1>6 DEF Max
<1> QED BY <1>4, <1>7

LEMMA MinIs ==
  ASSUME NEW a \in Nat, NEW b \in Nat
  PROVE  Min({a, b}) = IF a <= b THEN a ELSE b
<1>1. CASE a <= b
  <2>1. \A y \in {a, b} : a =< y
    BY <1>1
  <2>2. \A x \in {a, b} : (\A y \in {a, b} : x =< y) => x = a
    BY <1>1
  <2>3. (CHOOSE x \in {a, b} : \A y \in {a, b} : x =< y) = a
    BY <2>1, <2>2, Zenon
  <2> QED BY <1>1, <2>3 DEF Min
<1>2. CASE ~(a <= b)
  <2>1. \A y \in {a, b} : b =< y
    BY <1>2
  <2>2. \A x \in {a, b} : (\A y \in {a, b} : x =< y) => x = b
    BY <1>2
  <2>3. (CHOOSE x \in {a, b} : \A y \in {a, b} : x =< y) = b
    BY <2>1, <2>2, Zenon
  <2> QED BY <1>2, <2>3 DEF Min
<1> QED BY <1>1, <1>2

\* A set of n elements as a sequence of them.
LEMMA SetToSeqIs ==
  ASSUME NEW S, IsFiniteSet(S), NEW n, Cardinality(S) = n
  PROVE  SetToSeq(S) \in [1 .. n -> S] /\ IsInjective(SetToSeq(S))
<1>1. ExistsBijection(1 .. n, S)
  BY FS_CardinalityType
<1>2. PICK f \in [1 .. n -> S] : IsInjective(f)
  <2>1. PICK f \in Bijection(1 .. n, S) : TRUE
    BY <1>1 DEF ExistsBijection
  <2>2. f \in [1 .. n -> S] /\ \A a, b \in 1 .. n : f[a] = f[b] => a = b
    BY DEF Bijection, Injection, IsInjective
  <2> QED BY <2>2 DEF IsInjective
<1>3. /\ (CHOOSE g \in [1 .. n -> S] : IsInjective(g)) \in [1 .. n -> S]
      /\ IsInjective(CHOOSE g \in [1 .. n -> S] : IsInjective(g))
  BY <1>2, Zenon
<1> QED BY <1>3 DEF SetToSeq

\* Every order of a finite set has all of it.
LEMMA OrdersCover ==
  ASSUME NEW S, IsFiniteSet(S), NEW s \in SetToSeqs(S)
  PROVE  s \in Seq(S) /\ Len(s) = Cardinality(S) /\ IsInjective(s) /\ ToSet(s) = S
<1> DEFINE D == 1 .. Cardinality(S)
<1>1. Cardinality(S) \in Nat /\ IsFiniteSet(D) /\ Cardinality(D) = Cardinality(S)
  <2>1. Cardinality(S) \in Nat
    BY FS_CardinalityType
  <2>2. 1 \in Int /\ Cardinality(S) \in Int
    BY <2>1
  <2>3. IsFiniteSet(D) /\ Cardinality(D) = IF 1 > Cardinality(S) THEN 0 ELSE Cardinality(S) - 1 + 1
    BY <2>2, FS_Interval
  <2> QED BY <2>1, <2>3
<1>2. s \in [D -> S] /\ \A i, j \in D : i # j => s[i] # s[j]
  BY DEF SetToSeqs
<1>3. s \in Seq(S) /\ Len(s) = Cardinality(S)
  BY <1>1, <1>2
<1>4. s \in Injection(D, S)
  BY <1>2 DEF Injection, IsInjective
<1>5. s \in Surjection(D, S)
  BY <1>1, <1>4, FS_Injection
<1>6. ToSet(s) = S
  <2>1. \A x \in S : \E i \in D : s[i] = x
    BY <1>5 DEF Surjection
  <2>2. DOMAIN s = D
    BY <1>2
  <2> QED BY <1>2, <2>1, <2>2 DEF ToSet
<1>7. IsInjective(s)
  BY <1>2 DEF IsInjective
<1> QED BY <1>3, <1>6, <1>7

\* As many different places as an injective function has.
LEMMA AsMany ==
  ASSUME NEW n \in Nat, NEW f, DOMAIN f = 1 .. n, IsInjective(f)
  PROVE  Cardinality(ToSet(f)) = n /\ IsFiniteSet(ToSet(f))
<1> DEFINE D == 1 .. n
<1>1. IsFiniteSet(D) /\ Cardinality(D) = n
  <2>1. 1 \in Int /\ n \in Int
    OBVIOUS
  <2>2. IsFiniteSet(D) /\ Cardinality(D) = IF 1 > n THEN 0 ELSE n - 1 + 1
    BY <2>1, FS_Interval
  <2> QED BY <2>2
<1>2. ToSet(f) = {f[i] : i \in D}
  BY DEF ToSet
<1> DEFINE g == [i \in D |-> f[i]]
<1>3. g \in Surjection(D, ToSet(f))
  <2>1. g \in [D -> ToSet(f)]
    BY <1>2
  <2>2. \A x \in ToSet(f) : \E i \in D : g[i] = x
    BY <1>2
  <2> QED BY <2>1, <2>2 DEF Surjection
<1>4. g \in Injection(D, ToSet(f))
  <2>1. g \in [D -> ToSet(f)]
    BY <1>2
  <2>2. \A i, j \in D : g[i] = g[j] => i = j
    BY DEF IsInjective
  <2> QED BY <2>1, <2>2 DEF Injection, IsInjective
<1> HIDE DEF g, D
<1> QED BY <1>1, <1>3, <1>4, FS_Surjection

\* Episodes of the same lengths have as many steps, and the same ones.
LEMMA SameEpisodes ==
  ASSUME NEW n, NEW a, NEW b, NEW s, NEW r, \A k \in 1 .. n : s[k] = r[k] /\ a[s[k]] = b[r[k]]
  PROVE  SumUpTo(a, s, n) = SumUpTo(b, r, n) /\ StepsUpTo(a, s, n) = StepsUpTo(b, r, n)
<1>1. Lengths(a, s, n) = Lengths(b, r, n)
  BY DEF Lengths
<1>2. [k \in 1 .. n |-> StepsOfEp(a, s[k])] = [k \in 1 .. n |-> StepsOfEp(b, r[k])]
  <2>1. \A k \in 1 .. n : StepsOfEp(a, s[k]) = StepsOfEp(b, r[k])
    BY DEF StepsOfEp
  <2> QED BY <2>1
<1> QED BY <1>1, <1>2 DEF SumUpTo, StepsUpTo

------------------------------------------------------------------------------
(* The inductive invariant                                                 *)

\* Transitions of the first n episodes of the vector, and their steps.
Sum(n)   == SumUpTo(ndata, episodes, n)
Steps(n) == StepsUpTo(ndata, episodes, n)

\* The types of the variables.
Types ==
  /\ setup \in Setups
  /\ ppc \in [Pushers -> {"away", "count"}]
  /\ nBegun \in 0 .. MaxEpisodes
  /\ ndata \in [Ids -> 0 .. MaxLen] /\ stamp \in [Ids -> 0 .. MaxEpisodes]
  /\ offPolicImpW = [e \in Ids |-> offPolicImpW[e]] /\ fracFar \in [Ids -> Int]
  /\ \A e \in Ids : offPolicImpW[e] \in [1 .. ndata[e] -> Levels]
  /\ episodes \in Seq(Ids) /\ IsInjective(episodes) /\ nEpisodes = Len(episodes)
  /\ mutex \subseteq Pushers /\ Cardinality(mutex) <= 1
  /\ mpc \in {"gather", "prepare", "fill", "overrun", "sample", "died", "draw", "train",
              "remove", "complete"}
  /\ nSeqs \in Nat /\ nData \in Nat /\ dist.n \in Nat /\ dist.at \in Seq(Ids \X Nat)
  /\ drawn \in [Batch -> Nat] /\ batch \in [Batch -> Ids \X Nat]
  /\ tpc \in [Batch -> {"idle", "read", "update", "done"}]
  /\ wasFarPol \in [Batch -> BOOLEAN]
  /\ CmaxRet \in {ClipFirst, ClipLast} /\ CmaxCounted \in {ClipFirst, ClipLast}
  /\ nGradSteps \in 0 .. MaxSteps

\* The vector has episodes that have been pushed, of one step at least, and the others
\* have none.  The counter of transitions is that of the vector, but for the episode that
\* is being pushed.
SetInv ==
  /\ \A k \in 1 .. nEpisodes : episodes[k] <= nBegun /\ ndata[episodes[k]] > 0
  /\ \A e \in Ids : e \notin ToSet(episodes) => ndata[e] = 0 /\ fracFar[e] = 0
  /\ \A p \in Pushers : ppc[p] = "count" <=> p \in mutex
  /\ mutex = {} => nTransitions = Sum(nEpisodes)
  /\ mutex # {} => /\ nEpisodes > 0 /\ episodes[nEpisodes] = nBegun
                   /\ nTransitions = Sum(nEpisodes - 1)

Ready == mpc \in {"complete", "sample", "draw", "train"}

\* What the main thread has read of the counters is not more than the vector has; the
\* entries of the distribution are those of its episodes, in its order.
SamplerInv ==
  /\ mpc \notin {"fill", "draw", "died"} => nSeqs = 0
  /\ nSeqs <= nEpisodes /\ (mpc = "fill" => bOverSteps)
  /\ mpc = "draw" => nData <= Sum(nEpisodes)
  /\ Ready /\ bOverSteps =>
       /\ dist.n <= Sum(IF mpc = "draw" THEN nSeqs ELSE nEpisodes)
       /\ Len(dist.at) <= dist.n
       /\ \A i \in 1 .. Len(dist.at) : dist.at[i] = Steps(nEpisodes)[i]
  /\ Ready /\ algo = "PERseq" =>
       /\ dist.n <= nEpisodes /\ Len(dist.at) = dist.n
       /\ \A k \in 1 .. dist.n : dist.at[k] = <<episodes[k], 1>>

\* The samples are different steps of the vector, those that the indices stand for.
BatchInv ==
  mpc = "train" =>
    /\ \A b \in Batch : /\ batch[b][1] \in ToSet(episodes)
                        /\ batch[b][2] \in 1 .. ndata[batch[b][1]]
    /\ IsInjective(batch)
    /\ algo # "PERseq" /\ ~bSampleEpisodes =>
         \A b \in Batch : drawn[b] \in 1 .. Sum(nEpisodes) /\ batch[b] = Steps(nEpisodes)[drawn[b]]
    /\ algo = "PERseq" =>
         \A b \in Batch : drawn[b] \in 1 .. nEpisodes /\ batch[b][1] = episodes[drawn[b]]

\* Threads train while the main thread waits for them, in a step that is not the last.
StepInv ==
  /\ mpc \in {"draw", "train", "remove", "complete"} \/ tpc[1] = "done" => nGradSteps < MaxSteps
  /\ \A b \in Batch : mpc = "train" \/ tpc[b] \in {"idle", "done"}

DrawInv == Types /\ SetInv /\ StepInv /\ SamplerInv /\ BatchInv

\* The vector gets longer: what was in it stays where it was.
Grows ==
  /\ nEpisodes <= nEpisodes'
  /\ \A k \in 1 .. nEpisodes : episodes'[k] = episodes[k] /\ ndata'[episodes[k]] = ndata[episodes[k]]
  /\ \A n \in 0 .. nEpisodes : Sum(n)' = Sum(n)
  /\ Sum(nEpisodes) <= Sum(nEpisodes)'
  /\ \A i \in 1 .. Sum(nEpisodes) : Steps(nEpisodes)'[i] = Steps(nEpisodes)[i]

LEMMA SetFacts ==
  ASSUME Types, SetInv
  PROVE  /\ nEpisodes \in Nat /\ nEpisodes = Len(episodes) /\ ndata \in [Ids -> Nat]
         /\ \A k \in 1 .. nEpisodes : episodes[k] \in Ids /\ ndata[episodes[k]] \in 1 .. MaxLen
         /\ \A x : x \in ToSet(episodes) <=> \E k \in 1 .. nEpisodes : episodes[k] = x
         /\ \A n \in 0 .. nEpisodes : Sum(n) \in Nat /\ Sum(n) <= Sum(nEpisodes)
         /\ \A n \in 0 .. nEpisodes - 1 : Sum(n + 1) = Sum(n) + ndata[episodes[n + 1]]
         /\ Sum(0) = 0
         /\ \A n \in 0 .. nEpisodes : Listed(ndata, episodes, n)
         /\ nTransitions \in Nat /\ nTransitions <= Sum(nEpisodes)
<1>1. nEpisodes \in Nat /\ nEpisodes = Len(episodes) /\ ndata \in [Ids -> Nat]
      /\ episodes \in Seq(Ids) /\ IsInjective(episodes) /\ nBegun \in Nat
  BY DEF Types
<1>2. \A k \in 1 .. nEpisodes : episodes[k] \in Ids /\ ndata[episodes[k]] \in 1 .. MaxLen
  <2> TAKE k \in 1 .. nEpisodes
  <2>1. episodes[k] \in Ids
    BY <1>1
  <2>2. ndata[episodes[k]] \in 0 .. MaxLen /\ ndata[episodes[k]] > 0
    BY <2>1 DEF Types, SetInv
  <2> QED BY <2>1, <2>2
<1>3. \A x : x \in ToSet(episodes) <=> \E k \in 1 .. nEpisodes : episodes[k] = x
  <2>1. DOMAIN episodes = 1 .. nEpisodes
    BY <1>1
  <2> QED BY <2>1 DEF ToSet
<1>4. /\ Sum(0) = 0
      /\ \A n \in 0 .. nEpisodes : Sum(n) \in Nat
      /\ \A n \in 0 .. nEpisodes - 1 : Sum(n + 1) = Sum(n) + ndata[episodes[n + 1]]
  <2>1. \A k \in 1 .. nEpisodes : ndata[episodes[k]] \in Nat
    BY <1>2
  <2>2. /\ SumUpTo(ndata, episodes, 0) = 0
        /\ \A n \in 0 .. nEpisodes - 1 :
             SumUpTo(ndata, episodes, n + 1) = SumUpTo(ndata, episodes, n) + ndata[episodes[n + 1]]
        /\ \A n \in 0 .. nEpisodes : SumUpTo(ndata, episodes, n) \in Nat
    <3>1. nEpisodes \in Nat
      BY <1>1
    <3> QED BY ONLY <2>1, <3>1, SumsGrow, Zenon
  <2> QED BY <2>2 DEF Sum
<1>5. \A n \in 0 .. nEpisodes : Sum(n) <= Sum(nEpisodes)
  <2> TAKE n \in 0 .. nEpisodes
  <2>1. nEpisodes \in n .. nEpisodes
    BY <1>1
  <2> QED BY <1>1, <1>2, <2>1, SumsMonotone DEF Sum
<1>6. \A n \in 0 .. nEpisodes : Listed(ndata, episodes, n)
  BY <1>1, StepsListed
<1>7. nTransitions \in Nat /\ nTransitions <= Sum(nEpisodes)
  <2>1. CASE mutex = {}
    <3>1. nEpisodes \in 0 .. nEpisodes
      BY <1>1
    <3> QED BY <1>4, <2>1, <3>1 DEF SetInv
  <2>2. CASE mutex # {}
    <3>1. nEpisodes - 1 \in 0 .. nEpisodes
      BY <1>1, <2>2 DEF SetInv
    <3> QED BY <1>4, <1>5, <2>2, <3>1 DEF SetInv
  <2> QED BY <2>1, <2>2
<1> QED BY <1>1, <1>2, <1>3, <1>4, <1>5, <1>6, <1>7

LEMMA SetupFacts ==
  ASSUME Types
  PROVE  /\ algo \in {"uniform", "PERrank", "PERerr", "PERseq"} /\ bSampleEpisodes \in BOOLEAN
         /\ filter \in {"oldest", "farpolfrac"} /\ bOverSteps \in BOOLEAN
         /\ bSampleEpisodes => ~bOverSteps
<1>1. setup \in Setups
  BY DEF Types
<1>2. setup \in {"uniform", "PERrank", "PERerr", "PERseq"} \X BOOLEAN \X {"oldest", "farpolfrac"}
      /\ (setup[2] => setup[1] \notin {"PERrank", "PERerr"})
  BY <1>1, ReplayAssumption
<1> QED BY <1>2 DEF algo, bSampleEpisodes, filter, bOverSteps

\* Nothing happens to the vector.
LEMMA StaysThere ==
  ASSUME Types, SetInv, ndata' = ndata, episodes' = episodes, nEpisodes' = nEpisodes
  PROVE  Grows /\ \A n : Sum(n)' = Sum(n) /\ Steps(n)' = Steps(n)
<1>1. \A n : Sum(n)' = Sum(n) /\ Steps(n)' = Steps(n)
  BY DEF Sum, Steps
<1>2. nEpisodes \in Nat /\ Sum(nEpisodes) \in Nat
  BY SetFacts
<1>3. Sum(nEpisodes)' = Sum(nEpisodes) /\ Steps(nEpisodes)' = Steps(nEpisodes)
  BY DEF Sum, Steps
<1> QED BY <1>1, <1>2, <1>3 DEF Grows

------------------------------------------------------------------------------
(* Pushing an episode                                                      *)

\* What pushBackEpisode adds to the vector.
Pushes(p) ==
  /\ nBegun + 1 \in Ids /\ nBegun + 1 \notin ToSet(episodes)
  /\ ndata' \in [Ids -> 0 .. MaxLen] /\ ndata'[nBegun + 1] \in 1 .. MaxLen
  /\ \A e \in Ids \ {nBegun + 1} : ndata'[e] = ndata[e]
  /\ episodes' \in Seq(Ids) /\ IsInjective(episodes')
  /\ nEpisodes' = Len(episodes') /\ nEpisodes' = nEpisodes + 1
  /\ \A k \in 1 .. nEpisodes : episodes'[k] = episodes[k]
  /\ episodes'[nEpisodes + 1] = nBegun + 1

LEMMA PushAdds ==
  ASSUME Types, SetInv, NEW p \in Pushers, pushBackEpisode(p)
  PROVE  Pushes(p)
<1>0. /\ nBegun \in Nat /\ MaxEpisodes \in Nat /\ episodes \in Seq(Ids) /\ IsInjective(episodes)
      /\ ndata \in [Ids -> 0 .. MaxLen] /\ nEpisodes = Len(episodes)
  BY ReplayAssumption DEF Types
<1>1. nBegun + 1 \in Ids
  BY <1>0 DEF pushBackEpisode, Ids
<1>2. \A k \in 1 .. nEpisodes : episodes[k] \in Ids /\ episodes[k] # nBegun + 1
  <2>1. \A k \in 1 .. nEpisodes : episodes[k] \in Ids /\ episodes[k] <= nBegun
    BY SetFacts DEF SetInv
  <2> QED BY <1>0, <2>1 DEF Ids
<1>3. nBegun + 1 \notin ToSet(episodes)
  BY <1>2, SetFacts
<1>4. PICK n \in 1 .. MaxLen : ndata' = [ndata EXCEPT ![nBegun + 1] = n]
  BY DEF pushBackEpisode
<1>5. /\ ndata' \in [Ids -> 0 .. MaxLen] /\ ndata'[nBegun + 1] \in 1 .. MaxLen
      /\ \A e \in Ids \ {nBegun + 1} : ndata'[e] = ndata[e]
  <2>1. n \in 0 .. MaxLen
    BY ReplayAssumption
  <2> QED BY <1>0, <1>1, <1>4, <2>1
<1>6. episodes' = Append(episodes, nBegun + 1) /\ nEpisodes' = nEpisodes + 1
  BY DEF pushBackEpisode
<1>7. /\ episodes' \in Seq(Ids) /\ Len(episodes') = nEpisodes + 1
      /\ \A k \in 1 .. nEpisodes : episodes'[k] = episodes[k]
      /\ episodes'[nEpisodes + 1] = nBegun + 1
  BY <1>0, <1>1, <1>6, AppendProperties
<1>8. IsInjective(episodes')
  <2> SUFFICES ASSUME NEW i \in DOMAIN episodes', NEW j \in DOMAIN episodes',
                      episodes'[i] = episodes'[j]
               PROVE  i = j
    BY DEF IsInjective
  <2>1. /\ i \in 1 .. nEpisodes \/ i = nEpisodes + 1
        /\ j \in 1 .. nEpisodes \/ j = nEpisodes + 1
    BY <1>0, <1>7
  <2>2. 1 .. nEpisodes = DOMAIN episodes
    BY <1>0
  <2>3. CASE i \in 1 .. nEpisodes /\ j \in 1 .. nEpisodes
    <3>1. episodes[i] = episodes[j]
      BY <1>7, <2>3
    <3> QED BY <1>0, <2>2, <2>3, <3>1 DEF IsInjective
  <2> QED BY <1>2, <1>7, <2>1, <2>3
<1> QED BY <1>1, <1>3, <1>5, <1>6, <1>7, <1>8 DEF Pushes

LEMMA PushGrows ==
  ASSUME Types, SetInv, NEW p \in Pushers, pushBackEpisode(p)
  PROVE  /\ Grows /\ Sum(nEpisodes)' \in Nat
         /\ \A x : x \in ToSet(episodes)' <=> x \in ToSet(episodes) \/ x = nBegun + 1
<1>0. Pushes(p)
  BY PushAdds
<1>1. /\ nEpisodes \in Nat /\ ndata \in [Ids -> Nat] /\ episodes \in Seq(Ids)
      /\ nEpisodes = Len(episodes)
      /\ \A k \in 1 .. nEpisodes : episodes[k] \in Ids /\ episodes[k] \in ToSet(episodes)
  BY SetFacts DEF Types
<1>2. \A k \in 1 .. nEpisodes : /\ episodes'[k] = episodes[k]
                                /\ ndata'[episodes'[k]] = ndata[episodes[k]]
                                /\ ndata'[episodes[k]] = ndata[episodes[k]]
  <2> TAKE k \in 1 .. nEpisodes
  <2>1. episodes[k] # nBegun + 1 /\ episodes[k] \in Ids
    BY <1>0, <1>1 DEF Pushes
  <2> QED BY <1>0, <2>1 DEF Pushes
<1>3. ASSUME NEW n \in 0 .. nEpisodes
      PROVE  Sum(n)' = Sum(n) /\ Steps(n)' = Steps(n)
  <2>1. \A k \in 1 .. n : k \in 1 .. nEpisodes
    BY <1>1
  <2>2. \A k \in 1 .. n : episodes'[k] = episodes[k] /\ ndata'[episodes'[k]] = ndata[episodes[k]]
    BY <1>2, <2>1
  <2>3. /\ SumUpTo(ndata', episodes', n) = SumUpTo(ndata, episodes, n)
        /\ StepsUpTo(ndata', episodes', n) = StepsUpTo(ndata, episodes, n)
    BY <2>2, SameEpisodes
  <2> QED BY <2>3 DEF Sum, Steps
<1>4. ndata' \in [Ids -> Nat] /\ episodes' \in Seq(Ids) /\ nEpisodes' = Len(episodes')
      /\ IsInjective(episodes') /\ nEpisodes' \in Nat
  <2>1. MaxLen \in Nat
    BY ReplayAssumption
  <2>2. \A x \in 0 .. MaxLen : x \in Nat
    BY <2>1
  <2> QED BY <1>0, <1>1, <2>2 DEF Pushes
<1>5. \A k \in 1 .. nEpisodes' : ndata'[episodes'[k]] \in Nat
  <2>1. \A k \in 1 .. nEpisodes' : episodes'[k] \in Ids
    BY <1>4
  <2> QED BY <1>4, <2>1
<1>6. Sum(nEpisodes) <= Sum(nEpisodes)' /\ Sum(nEpisodes)' \in Nat
  <2>1. nEpisodes \in 0 .. nEpisodes' /\ nEpisodes' \in nEpisodes .. nEpisodes'
        /\ nEpisodes' \in 0 .. nEpisodes'
    BY <1>0, <1>1 DEF Pushes
  <2>2. /\ SumUpTo(ndata', episodes', nEpisodes) <= SumUpTo(ndata', episodes', nEpisodes')
        /\ SumUpTo(ndata', episodes', nEpisodes') \in Nat
    BY <1>4, <1>5, <2>1, SumsMonotone, SumsGrow
  <2>3. SumUpTo(ndata', episodes', nEpisodes) = Sum(nEpisodes)
    <3>1. nEpisodes \in 0 .. nEpisodes
      BY <1>1
    <3>2. \A k \in 1 .. nEpisodes : episodes'[k] = episodes[k] /\ ndata'[episodes'[k]] = ndata[episodes[k]]
      BY <1>2
    <3> QED BY <3>2, SameEpisodes DEF Sum
  <2> QED BY <2>2, <2>3 DEF Sum
<1>7. ASSUME NEW i \in 1 .. Sum(nEpisodes)
      PROVE  Steps(nEpisodes)'[i] = Steps(nEpisodes)[i]
  <2> DEFINE q == StepsUpTo(ndata', episodes', nEpisodes)
             r == StepsUpTo(ndata', episodes', nEpisodes')
  <2>1. nEpisodes \in 0 .. Len(episodes') /\ nEpisodes' \in nEpisodes .. Len(episodes')
    BY <1>0, <1>1 DEF Pushes
  <2>2. \A k \in 1 .. Len(q) : r[k] = q[k]
    BY <1>4, <2>1, StepsPrefix
  <2>3. q = Steps(nEpisodes)
    <3>1. \A k \in 1 .. nEpisodes : episodes'[k] = episodes[k] /\ ndata'[episodes'[k]] = ndata[episodes[k]]
      BY <1>2
    <3> QED BY <3>1, SameEpisodes DEF Steps
  <2>4. Len(Steps(nEpisodes)) = Sum(nEpisodes)
    <3>1. nEpisodes \in 0 .. nEpisodes
      BY <1>1
    <3>2. Listed(ndata, episodes, nEpisodes)
      BY <3>1, SetFacts
    <3> QED BY <3>2 DEF Listed, Sum, Steps
  <2> HIDE DEF q, r
  <2>5. r[i] = Steps(nEpisodes)[i]
    BY <2>2, <2>3, <2>4
  <2> QED BY <2>5 DEF r, Steps
<1>8. \A x : x \in ToSet(episodes)' <=> x \in ToSet(episodes) \/ x = nBegun + 1
  <2>0. Len(episodes') = nEpisodes + 1
    BY <1>0 DEF Pushes
  <2>1. DOMAIN episodes' = 1 .. nEpisodes + 1 /\ DOMAIN episodes = 1 .. nEpisodes
    BY <1>1, <1>4, <2>0
  <2>2. \A k \in 1 .. nEpisodes + 1 : k \in 1 .. nEpisodes \/ k = nEpisodes + 1
    BY <1>1
  <2>3. (\A k \in 1 .. nEpisodes : k \in 1 .. nEpisodes + 1) /\ nEpisodes + 1 \in 1 .. nEpisodes + 1
    BY <1>1
  <2>4. \A x : x \in ToSet(episodes)' <=> \E k \in 1 .. nEpisodes + 1 : episodes'[k] = x
    BY <2>1 DEF ToSet
  <2>5. \A x : x \in ToSet(episodes) <=> \E k \in 1 .. nEpisodes : episodes[k] = x
    BY <2>1 DEF ToSet
  <2>6. episodes'[nEpisodes + 1] = nBegun + 1 /\ \A k \in 1 .. nEpisodes : episodes'[k] = episodes[k]
    BY <1>0 DEF Pushes
  <2> QED BY <2>2, <2>3, <2>4, <2>5, <2>6
<1>9. nEpisodes <= nEpisodes'
  BY <1>0, <1>1 DEF Pushes
<1> QED BY <1>2, <1>3, <1>6, <1>7, <1>8, <1>9 DEF Grows

LEMMA InitDraws ==
  ASSUME Init
  PROVE  DrawInv
<1>1. Types
  <2>1. IsInjective(<<>>) /\ <<>> \in Seq(Ids) /\ <<>> \in Seq(Ids \X Nat) /\ Len(<<>>) = 0
    BY DEF IsInjective
  <2>2. Cardinality({}) = 0
    BY FS_EmptySet
  <2>3. <<1, 1>> \in Ids \X Nat /\ 1 \in Nat /\ 0 \in Nat
    BY ReplayAssumption DEF Ids
  <2>4. MaxEpisodes \in Nat /\ MaxLen \in Nat /\ MaxSteps \in Nat
    BY ReplayAssumption
  <2>5. \A e \in Ids : offPolicImpW[e] = <<>> /\ ndata[e] = 0
    BY DEF Init
  <2>6. \A e \in Ids : offPolicImpW[e] \in [1 .. ndata[e] -> Levels]
    <3>1. <<>> \in [1 .. 0 -> Levels]
      <4>1. <<>> \in Seq(Levels) /\ Len(<<>>) = 0
        OBVIOUS
      <4> QED BY <4>1
    <3> QED BY <2>5, <3>1
  <2>7. offPolicImpW = [e \in Ids |-> offPolicImpW[e]] /\ fracFar \in [Ids -> Int]
    BY DEF Init
  <2>8. drawn \in [Batch -> Nat] /\ batch \in [Batch -> Ids \X Nat]
    BY <2>3 DEF Init
  <2>9. ndata \in [Ids -> 0 .. MaxLen] /\ stamp \in [Ids -> 0 .. MaxEpisodes]
    BY <2>4 DEF Init
  <2>10. dist.n = 1 /\ dist.at = <<>>
    BY DEF Init
  <2>11. /\ ppc \in [Pushers -> {"away", "count"}] /\ wasFarPol \in [Batch -> BOOLEAN]
         /\ tpc \in [Batch -> {"idle", "read", "update", "done"}]
    BY DEF Init
  <2>12. mutex = {} /\ episodes = <<>> /\ nEpisodes = 0
    BY DEF Init
  <2> QED BY <2>1, <2>2, <2>3, <2>4, <2>6, <2>7, <2>8, <2>9, <2>10, <2>11, <2>12 DEF Init, Types
<1>2. SetInv
  <2>1. mutex = {} /\ nEpisodes = 0 /\ nTransitions = 0
        /\ (\A p \in Pushers : ppc[p] # "count") /\ (\A e \in Ids : ndata[e] = 0 /\ fracFar[e] = 0)
    BY DEF Init
  <2>2. Sum(0) = 0
    <3>1. 0 \in Nat /\ \A k \in 1 .. 0 : ndata[episodes[k]] \in Nat
      OBVIOUS
    <3>2. SumUpTo(ndata, episodes, 0) = 0
      BY <3>1, SumsGrow, Zenon
    <3> QED BY <3>2 DEF Sum
  <2> QED BY <2>1, <2>2 DEF SetInv
<1>3. StepInv /\ SamplerInv /\ BatchInv
  <2>1. mpc = "gather" /\ nSeqs = 0 /\ nEpisodes = 0
    BY DEF Init
  <2>2. 1 \in Batch /\ \A b \in Batch : tpc[b] = "idle"
    BY ReplayAssumption DEF Init, Batch
  <2> QED BY <2>1, <2>2 DEF StepInv, SamplerInv, BatchInv, Ready
<1> QED BY <1>1, <1>2, <1>3 DEF DrawInv

\* Nothing that the counters count changes.
LEMMA SetStays ==
  ASSUME Types, SetInv, UNCHANGED <<ppc, nBegun, ndata, episodes, nEpisodes, nTransitions, mutex>>,
         \A e \in Ids : e \notin ToSet(episodes) => fracFar'[e] = fracFar[e]
  PROVE  SetInv'
<1>1. \A n : Sum(n)' = Sum(n)
  BY StaysThere
<1>2. Sum(nEpisodes)' = Sum(nEpisodes) /\ Sum(nEpisodes - 1)' = Sum(nEpisodes - 1)
  BY DEF Sum
<1> QED BY <1>2 DEF SetInv

LEMMA PushSets ==
  ASSUME Types, SetInv, NEW p \in Pushers, pushBackEpisode(p)
  PROVE  Types' /\ SetInv'
<1> DEFINE e == nBegun + 1
<1>0. Pushes(p)
  BY PushAdds
<1>1. Grows /\ \A x : x \in ToSet(episodes)' <=> x \in ToSet(episodes) \/ x = e
  BY PushGrows
<1>2. /\ UNCHANGED <<setup, fracFar, nTransitions, mpc, drawVars, trainVars, statVars>>
      /\ mutex' = {p} /\ nBegun' = e /\ ppc[p] = "away" /\ mutex = {} /\ nBegun < MaxEpisodes
      /\ ppc' = [ppc EXCEPT ![p] = "count"]
      /\ stamp' = [stamp EXCEPT ![e] = IF mpc = "gather" THEN 0 ELSE nBegun]
  BY DEF pushBackEpisode, datasetFree
<1>3. PICK n \in 1 .. MaxLen :
        /\ ndata' = [ndata EXCEPT ![e] = n]
        /\ offPolicImpW' = [offPolicImpW EXCEPT ![e] = [t \in 1 .. n |-> 1]]
  BY DEF pushBackEpisode
<1>4. nBegun \in Nat /\ MaxEpisodes \in Nat /\ e \in Ids
  BY <1>0, ReplayAssumption DEF Types, Pushes
<1>5. Types'
  <2>1. \A x \in Ids : offPolicImpW'[x] \in [1 .. ndata'[x] -> Levels]
    <3> TAKE x \in Ids
    <3>1. CASE x = e
      <4>1. offPolicImpW'[x] = [t \in 1 .. n |-> 1] /\ ndata'[x] = n
        BY <1>3, <1>4, <3>1 DEF Types
      <4>2. 1 \in Levels
        BY ReplayAssumption
      <4> QED BY <4>1, <4>2
    <3>2. CASE x # e
      <4>1. offPolicImpW'[x] = offPolicImpW[x] /\ ndata'[x] = ndata[x]
        BY <1>3, <1>4, <3>2 DEF Types
      <4> QED BY <4>1 DEF Types
    <3> QED BY <3>1, <3>2
  <2>2. offPolicImpW' = [x \in Ids |-> offPolicImpW'[x]]
    <3>1. offPolicImpW = [x \in Ids |-> offPolicImpW[x]]
      BY DEF Types
    <3> QED BY <1>3, <3>1
  <2>3. stamp' \in [Ids -> 0 .. MaxEpisodes]
    <3>1. (IF mpc = "gather" THEN 0 ELSE nBegun) \in 0 .. MaxEpisodes
      BY <1>2, <1>4
    <3> QED BY <1>2, <3>1 DEF Types
  <2>4. mutex' \subseteq Pushers /\ Cardinality(mutex') <= 1
    <3>1. Cardinality({p}) = 1
      BY FS_Singleton
    <3> QED BY <1>2, <3>1
  <2>5. nBegun' \in 0 .. MaxEpisodes
    BY <1>2, <1>4
  <2>6. ppc' \in [Pushers -> {"away", "count"}]
    BY <1>2 DEF Types
  <2>7. /\ ndata' \in [Ids -> 0 .. MaxLen] /\ episodes' \in Seq(Ids) /\ IsInjective(episodes')
        /\ nEpisodes' = Len(episodes')
    BY <1>0 DEF Pushes
  <2>8. /\ setup' = setup /\ fracFar' = fracFar /\ mpc' = mpc /\ nSeqs' = nSeqs /\ nData' = nData
        /\ dist' = dist /\ drawn' = drawn /\ batch' = batch /\ tpc' = tpc /\ wasFarPol' = wasFarPol
        /\ CmaxRet' = CmaxRet /\ CmaxCounted' = CmaxCounted /\ nGradSteps' = nGradSteps
    BY <1>2 DEF drawVars, trainVars, statVars
  <2> QED BY <2>1, <2>2, <2>3, <2>4, <2>5, <2>6, <2>7, <2>8 DEF Types
<1>6. SetInv'
  <2>1. \A k \in 1 .. nEpisodes' : episodes'[k] <= nBegun' /\ ndata'[episodes'[k]] > 0
    <3> TAKE k \in 1 .. nEpisodes'
    <3>1. k \in 1 .. nEpisodes \/ k = nEpisodes + 1
      BY <1>0, SetFacts DEF Pushes
    <3>2. CASE k \in 1 .. nEpisodes
      <4>1. episodes'[k] = episodes[k] /\ ndata'[episodes[k]] = ndata[episodes[k]]
        BY <1>1, <3>2 DEF Grows
      <4>2. episodes[k] <= nBegun /\ ndata[episodes[k]] > 0 /\ episodes[k] \in Ids
        BY <3>2, SetFacts DEF SetInv
      <4> QED BY <1>2, <1>4, <4>1, <4>2 DEF Ids
    <3>3. CASE k = nEpisodes + 1
      <4>1. episodes'[k] = e /\ ndata'[e] \in 1 .. MaxLen
        BY <1>0, <3>3 DEF Pushes
      <4> QED BY <1>2, <1>4, <4>1 DEF Ids
    <3> QED BY <3>1, <3>2, <3>3
  <2>2. \A x \in Ids : x \notin ToSet(episodes)' => ndata'[x] = 0 /\ fracFar'[x] = 0
    <3> TAKE x \in Ids
    <3> HAVE x \notin ToSet(episodes)'
    <3>1. x \notin ToSet(episodes) /\ x # e
      BY <1>1
    <3>2. ndata'[x] = ndata[x]
      BY <1>0, <3>1 DEF Pushes
    <3> QED BY <1>2, <3>1, <3>2 DEF SetInv
  <2>3. \A q \in Pushers : ppc'[q] = "count" <=> q \in mutex'
    BY <1>2 DEF Types, SetInv
  <2>4. nEpisodes' > 0 /\ episodes'[nEpisodes'] = nBegun' /\ nEpisodes' - 1 = nEpisodes
    BY <1>0, <1>2, SetFacts DEF Pushes
  <2>5. nTransitions' = Sum(nEpisodes)
    BY <1>2 DEF SetInv
  <2>6. SumUpTo(ndata', episodes', nEpisodes) = Sum(nEpisodes)
    <3>1. nEpisodes \in 0 .. nEpisodes
      BY SetFacts
    <3>2. \A k \in 1 .. nEpisodes : /\ episodes'[k] = episodes[k]
                                    /\ ndata'[episodes'[k]] = ndata[episodes[k]]
      BY <1>1 DEF Grows
    <3> QED BY <3>2, SameEpisodes DEF Sum
  <2>7. nTransitions' = Sum(nEpisodes - 1)'
    BY <2>4, <2>5, <2>6 DEF Sum
  <2>8. mutex' # {}
    BY <1>2
  <2> QED BY <2>1, <2>2, <2>3, <2>4, <2>7, <2>8 DEF SetInv
<1> QED BY <1>5, <1>6

LEMMA CountSets ==
  ASSUME Types, SetInv, NEW p \in Pushers, countTransitions(p)
  PROVE  Types' /\ SetInv'
<1>1. /\ ppc[p] = "count" /\ nTransitions' = nTransitions + ndata[nBegun] /\ mutex' = {}
      /\ ppc' = [ppc EXCEPT ![p] = "away"]
      /\ UNCHANGED <<setup, nBegun, epsVars, episodes, nEpisodes, mpc, drawVars, trainVars, statVars>>
  BY DEF countTransitions
<1>2. mutex = {p}
  <2>1. p \in mutex
    BY <1>1 DEF SetInv
  <2>2. ASSUME NEW q \in mutex, q # p PROVE FALSE
    <3>1. {p, q} \subseteq mutex /\ IsFiniteSet(mutex)
      BY <2>1, ReplayAssumption, FS_Subset DEF Types
    <3>2. IsFiniteSet({q}) /\ Cardinality({q}) = 1
      BY FS_Singleton
    <3>3. Cardinality({q} \cup {p}) = 2 /\ {q} \cup {p} \in SUBSET mutex
      BY <2>1, <2>2, <3>2, FS_AddElement
    <3>4. Cardinality({q} \cup {p}) <= Cardinality(mutex)
      BY <3>1, <3>3, FS_Subset
    <3>5. Cardinality(mutex) \in Nat
      BY <3>1, FS_CardinalityType
    <3>6. Cardinality(mutex) <= 1
      BY DEF Types
    <3> HIDE DEF Types
    <3>7. 2 <= Cardinality(mutex)
      BY <3>3, <3>4
    <3> QED BY <3>5, <3>6, <3>7
  <2> QED BY <2>1, <2>2
<1>3. Types'
  <2>1. Cardinality({}) = 0
    BY FS_EmptySet
  <2>2. ppc' \in [Pushers -> {"away", "count"}]
    BY <1>1 DEF Types
  <2>3. UNCHANGED <<setup, nBegun, ndata, stamp, offPolicImpW, fracFar, episodes, nEpisodes, mpc,
                    nSeqs, nData, dist, drawn, batch, tpc, wasFarPol, CmaxRet, CmaxCounted, nGradSteps>>
    BY <1>1 DEF epsVars, drawVars, trainVars, statVars
  <2>4. mutex' \subseteq Pushers /\ Cardinality(mutex') <= 1
    BY <1>1, <2>1
  <2> QED BY <2>2, <2>3, <2>4 DEF Types
<1>4. SetInv'
  <2>1. Sum(nEpisodes)' = Sum(nEpisodes)
    BY <1>1 DEF Sum, epsVars
  <2>2. nTransitions' = Sum(nEpisodes)
    <3>1. nEpisodes > 0 /\ episodes[nEpisodes] = nBegun /\ nTransitions = Sum(nEpisodes - 1)
      BY <1>2 DEF SetInv
    <3>2. nEpisodes - 1 \in 0 .. nEpisodes - 1 /\ (nEpisodes - 1) + 1 = nEpisodes
      BY <3>1, SetFacts
    <3>3. Sum((nEpisodes - 1) + 1) = Sum(nEpisodes - 1) + ndata[episodes[(nEpisodes - 1) + 1]]
      BY <3>2, SetFacts
    <3> QED BY <1>1, <3>1, <3>2, <3>3
  <2>3. \A q \in Pushers : ppc'[q] = "count" <=> q \in mutex'
    BY <1>1, <1>2 DEF Types, SetInv
  <2>4. ToSet(episodes)' = ToSet(episodes)
    BY <1>1
  <2> QED BY <1>1, <2>1, <2>2, <2>3, <2>4 DEF SetInv, epsVars
<1> QED BY <1>3, <1>4

------------------------------------------------------------------------------
(* The main thread                                                         *)

\* What prepare() writes for the episodes that it has counted.
LEMMA FillIs ==
  ASSUME DrawInv, fill
  PROVE  /\ dist'.n = nTransitions /\ dist'.at \in Seq(Ids \X Nat) /\ nSeqs' = 0
         /\ Len(dist'.at) <= nTransitions /\ Len(dist'.at) <= Sum(nSeqs)
         /\ \A i \in 1 .. Len(dist'.at) : dist'.at[i] = Steps(nSeqs)[i]
<1> DEFINE s == Steps(nSeqs)
           l == Len(s)
           m == Min({nTransitions, l})
<1>0. /\ Types /\ SetInv /\ nTransitions \in Nat
      /\ nSeqs \in 0 .. nEpisodes /\ Listed(ndata, episodes, nSeqs)
  <2>1. Types /\ SetInv /\ SamplerInv
    BY DEF DrawInv
  <2>2. nSeqs \in 0 .. nEpisodes
    BY <2>1, SetFacts DEF Types, SamplerInv
  <2> QED BY <2>1, <2>2, SetFacts
<1>1. s \in Seq(Ids \X Nat) /\ l = Sum(nSeqs) /\ l \in Nat
  BY <1>0 DEF Listed, Steps, Sum
<1>2. /\ dist' = [n |-> nTransitions, at |-> SubSeq(s, 1, m)] /\ nSeqs' = 0
  <2>1. StepsIn(nSeqs) = s
    BY StepsInAre DEF Steps
  <2> QED BY <2>1 DEF fill
<1> HIDE DEF s, l
<1>3. m = IF nTransitions <= l THEN nTransitions ELSE l
  BY <1>0, <1>1, MinIs
<1> HIDE DEF m
<1>4. m \in Nat /\ m <= l /\ m <= nTransitions
  BY <1>0, <1>1, <1>3
<1> DEFINE q == SubSeq(s, 1, m)
           V == Ids \X Nat
<1>5. q \in Seq(V) /\ Len(q) = m /\ \A i \in 1 .. m : q[i] = s[i]
  <2>1. 1 \in Int /\ m \in Int /\ \A i \in 1 .. m : s[i] \in V
    <3>1. s \in Seq(V) /\ \A i \in 1 .. m : i \in 1 .. Len(s)
      BY <1>1, <1>4 DEF l
    <3> HIDE DEF V
    <3> QED BY <1>4, <3>1
  <2> HIDE DEF V
  <2>2. q \in Seq(V) /\ Len(q) = (IF 1 <= m THEN m - 1 + 1 ELSE 0)
        /\ \A i \in 1 .. m - 1 + 1 : q[i] = s[1 + i - 1]
    BY <2>1, SubSeqProperties
  <2>3. m - 1 + 1 = m /\ (\A i \in 1 .. m : 1 + i - 1 = i)
        /\ (IF 1 <= m THEN m - 1 + 1 ELSE 0) = m
    BY <1>4
  <2> QED BY <2>2, <2>3
<1>6. dist'.n = nTransitions /\ dist'.at = q
  BY <1>2
<1> HIDE DEF q, V
<1>7. dist'.at \in Seq(V) /\ Len(dist'.at) = m /\ \A i \in 1 .. m : dist'.at[i] = s[i]
  BY <1>5, <1>6
<1>8. Len(dist'.at) <= nTransitions /\ Len(dist'.at) <= Sum(nSeqs)
  BY <1>1, <1>4, <1>7
<1> QED BY <1>2, <1>6, <1>7, <1>8 DEF s, V

\* The main thread's operations that leave the vector alone, without those that draw and
\* compute statistics.
LEMMA MainSets ==
  ASSUME DrawInv, stepInit \/ prepare \/ fill \/ sample \/ stepComplete
  PROVE  Types' /\ SetInv' /\ StepInv'
<1>0. Types /\ SetInv /\ StepInv
  BY DEF DrawInv
<1>1. /\ UNCHANGED <<setup, pushVars, epsVars, setVars, CmaxRet, CmaxCounted, wasFarPol>>
      /\ UNCHANGED <<drawn, batch>>
  BY DEF stepInit, prepare, fill, sample, stepComplete, MainGoto, drawVars, trainVars, statVars
<1>2. SetInv'
  BY <1>0, <1>1, SetStays DEF pushVars, epsVars, setVars
<1>3. mpc' \in {"prepare", "fill", "overrun", "sample", "died", "draw", "complete"}
  BY DEF stepInit, prepare, fill, sample, stepComplete, MainGoto, Prepared
<1>a. 1 \in Batch
  BY ReplayAssumption DEF Batch
<1>4. tpc' \in [Batch -> {"idle", "read", "update", "done"}] /\ nGradSteps' \in 0 .. MaxSteps
      /\ StepInv'
  <2>1. CASE stepComplete
    <3>1. tpc' = [b \in Batch |-> "idle"] /\ nGradSteps' = nGradSteps + 1 /\ mpc = "complete"
          /\ mpc' = "sample"
      BY <2>1 DEF stepComplete, MainGoto
    <3>2. nGradSteps < MaxSteps /\ nGradSteps \in Nat /\ MaxSteps \in Nat
      BY <1>0, <3>1, ReplayAssumption DEF StepInv, Types
    <3> QED BY <1>a, <3>1, <3>2 DEF StepInv
  <2>2. CASE stepInit \/ prepare \/ fill \/ sample
    <3>1. tpc' = tpc /\ nGradSteps' = nGradSteps
      BY <2>2 DEF stepInit, prepare, fill, sample, trainVars, statVars
    <3>2. mpc' \in {"draw", "train", "remove", "complete"} => nGradSteps < MaxSteps
      BY <1>0, <2>2 DEF stepInit, prepare, fill, sample, MainGoto, Prepared, StepInv
    <3>3. \A b \in Batch : tpc[b] \in {"idle", "done"}
      BY <1>0, <2>2 DEF stepInit, prepare, fill, sample, StepInv
    <3>4. StepInv'
      BY <1>0, <3>1, <3>2, <3>3 DEF StepInv
    <3> QED BY <1>0, <3>1, <3>4 DEF Types
  <2> QED BY <2>1, <2>2
<1>5. nSeqs' \in Nat /\ nData' \in Nat /\ dist'.n \in Nat /\ dist'.at \in Seq(Ids \X Nat)
  <2>1. CASE fill
    <3>1. nData' = nData
      BY <2>1 DEF fill
    <3> QED BY <1>0, <2>1, <3>1, FillIs, SetFacts DEF Types
  <2>2. CASE prepare
    <3>1. nData' = nData /\ nSeqs' \in {0, nEpisodes}
      BY <2>2 DEF prepare
    <3>2. dist'.n \in Nat /\ dist'.at \in Seq(Ids \X Nat)
      <4>1. CASE algo = "PERseq"
        <5> DEFINE q == [k \in 1 .. nEpisodes |-> <<episodes[k], 1>>]
        <5>1. dist'.n = nEpisodes /\ dist'.at = q
          BY <2>2, <4>1 DEF prepare
        <5>2. q \in Seq(Ids \X Nat)
          <6>1. \A k \in 1 .. nEpisodes : <<episodes[k], 1>> \in Ids \X Nat
            BY <1>0, SetFacts
          <6>2. q \in [1 .. nEpisodes -> Ids \X Nat] /\ nEpisodes \in Nat
            BY <1>0, <6>1, SetFacts
          <6> QED BY <6>2
        <5> HIDE DEF q
        <5> QED BY <1>0, <5>1, <5>2, SetFacts
      <4>2. CASE algo # "PERseq"
        <5>1. dist' = dist
          BY <2>2, <4>2 DEF prepare
        <5> QED BY <1>0, <5>1 DEF Types
      <4> QED BY <4>1, <4>2
    <3> QED BY <1>0, <3>1, <3>2, SetFacts DEF Types
  <2>3. CASE sample
    <3>1. nData' = nTransitions /\ nSeqs' = nEpisodes /\ dist' = dist
      BY <2>3 DEF sample
    <3> QED BY <1>0, <3>1, SetFacts DEF Types
  <2>4. CASE stepInit \/ stepComplete
    <3>1. nData' = nData /\ nSeqs' = nSeqs /\ dist' = dist
      BY <2>4 DEF stepInit, stepComplete, drawVars
    <3> QED BY <1>0, <3>1 DEF Types
  <2> QED BY <2>1, <2>2, <2>3, <2>4
<1>6. Types'
  BY <1>0, <1>1, <1>3, <1>4, <1>5 DEF Types, pushVars, epsVars, setVars
<1> QED BY <1>2, <1>4, <1>6

LEMMA PrepareSampler ==
  ASSUME DrawInv, stepInit \/ prepare \/ fill \/ sample \/ stepComplete
  PROVE  SamplerInv' /\ BatchInv'
<1>0. Types /\ SetInv /\ SamplerInv
  BY DEF DrawInv
<1>1. /\ UNCHANGED <<setup, epsVars, setVars>>
  BY DEF stepInit, prepare, fill, sample, stepComplete, MainGoto
<1>2. ndata' = ndata /\ episodes' = episodes /\ nEpisodes' = nEpisodes /\ setup' = setup
  BY <1>1 DEF epsVars, setVars
<1>3. \A n : Sum(n)' = Sum(n) /\ Steps(n)' = Steps(n)
  BY <1>0, <1>2, StaysThere
<1>4. Sum(nEpisodes)' = Sum(nEpisodes) /\ Sum(nSeqs)' = SumUpTo(ndata, episodes, nSeqs')
      /\ Steps(nEpisodes)' = Steps(nEpisodes)
  BY <1>2 DEF Sum, Steps
<1>5. mpc' # "train" /\ algo' = algo /\ bOverSteps' = bOverSteps /\ bSampleEpisodes' = bSampleEpisodes
  BY <1>2 DEF stepInit, prepare, fill, sample, stepComplete, MainGoto, Prepared, algo, bOverSteps,
              bSampleEpisodes
<1>6. BatchInv'
  BY <1>5 DEF BatchInv
<1>7. nEpisodes \in Nat /\ nTransitions \in Nat /\ nTransitions <= Sum(nEpisodes)
  BY <1>0, SetFacts
<1>8. bOverSteps <=> algo \in {"PERrank", "PERerr"}
  BY DEF bOverSteps
<1>9. CASE stepInit
  <2>1. mpc' = "prepare" /\ nSeqs' = nSeqs /\ mpc = "gather"
    BY <1>9 DEF stepInit, MainGoto, drawVars
  <2> QED BY <1>0, <1>2, <1>6, <2>1 DEF SamplerInv, Ready
<1>10. CASE prepare
  <2>1. /\ mpc = "prepare" /\ nSeqs' = IF bOverSteps THEN nEpisodes ELSE 0
        /\ mpc' \in IF bOverSteps THEN {"fill"} ELSE {"complete", "sample"}
    BY <1>8, <1>10 DEF prepare, MainGoto, Prepared
  <2>2. ASSUME algo = "PERseq"
        PROVE  /\ dist'.n = nEpisodes /\ Len(dist'.at) = nEpisodes
               /\ \A k \in 1 .. nEpisodes : dist'.at[k] = <<episodes[k], 1>>
    <3> DEFINE q == [k \in 1 .. nEpisodes |-> <<episodes[k], 1>>]
    <3>1. dist'.n = nEpisodes /\ dist'.at = q
      BY <1>10, <2>2 DEF prepare
    <3>2. Len(q) = nEpisodes /\ \A k \in 1 .. nEpisodes : q[k] = <<episodes[k], 1>>
      BY <1>7
    <3> QED BY <3>1, <3>2
  <2>3. nSeqs' <= nEpisodes' /\ (mpc' \notin {"fill", "draw", "died"} => nSeqs' = 0)
    BY <1>2, <1>7, <2>1
  <2>4. mpc' # "draw" /\ (bOverSteps => ~Ready')
    BY <2>1 DEF Ready
  <2>5. algo = "PERseq" => /\ dist'.n <= nEpisodes' /\ Len(dist'.at) = dist'.n
                           /\ \A k \in 1 .. dist'.n : dist'.at[k] = <<episodes'[k], 1>>
    BY <1>2, <1>7, <2>2
  <2>6. mpc' = "fill" => bOverSteps'
    BY <1>5, <2>1
  <2> QED BY <1>5, <1>6, <2>3, <2>4, <2>5, <2>6 DEF SamplerInv
<1>11. CASE fill
  <2>1. mpc = "fill" /\ mpc' \in {"complete", "sample", "overrun"}
    BY <1>11 DEF fill, MainGoto, Prepared
  <2>2. nSeqs' = 0 /\ mpc' # "draw" /\ nSeqs' <= nEpisodes'
    BY <1>2, <1>7, <1>11, <2>1, FillIs
  <2>3. /\ dist'.n <= Sum(nEpisodes) /\ Len(dist'.at) <= dist'.n
        /\ \A i \in 1 .. Len(dist'.at) : dist'.at[i] = Steps(nEpisodes)[i]
    <3>1. /\ dist'.n = nTransitions /\ dist'.at \in Seq(Ids \X Nat)
          /\ Len(dist'.at) <= nTransitions /\ Len(dist'.at) <= Sum(nSeqs)
          /\ \A i \in 1 .. Len(dist'.at) : dist'.at[i] = Steps(nSeqs)[i]
      BY <1>11, FillIs
    <3>2. nSeqs \in 0 .. nEpisodes /\ nEpisodes \in nSeqs .. nEpisodes
      BY <1>0, <1>7 DEF Types, SamplerInv
    <3>3. \A i \in 1 .. Len(Steps(nSeqs)) : Steps(nEpisodes)[i] = Steps(nSeqs)[i]
      <4>1. ndata \in [Ids -> Nat] /\ episodes \in Seq(Ids) /\ nEpisodes = Len(episodes)
        BY <1>0, SetFacts DEF Types
      <4> QED BY <3>2, <4>1, StepsPrefix DEF Steps
    <3>4. Len(Steps(nSeqs)) = Sum(nSeqs)
      <4>1. Listed(ndata, episodes, nSeqs)
        BY <1>0, <3>2, SetFacts
      <4> QED BY <4>1 DEF Listed, Steps, Sum
    <3>5. Len(dist'.at) \in Nat /\ Sum(nSeqs) \in Nat
      BY <1>0, <3>1, <3>2, SetFacts
    <3>6. \A i \in 1 .. Len(dist'.at) : i \in 1 .. Len(Steps(nSeqs))
      BY <3>1, <3>4, <3>5
    <3> QED BY <1>7, <3>1, <3>3, <3>6
  <2>4. algo # "PERseq"
    <3>1. bOverSteps
      BY <1>0, <2>1 DEF SamplerInv
    <3> QED BY <1>8, <3>1
  <2>5. mpc' # "fill"
    BY <2>1
  <2> QED BY <1>4, <1>5, <1>6, <2>2, <2>3, <2>4, <2>5 DEF SamplerInv
<1>12. CASE sample
  <2>1. /\ mpc = "sample" /\ nSeqs' = nEpisodes /\ nData' = nTransitions /\ dist' = dist
        /\ mpc' \in {"died", "draw"}
    BY <1>12 DEF sample, MainGoto
  <2>2. Ready
    BY <2>1 DEF Ready
  <2>3. (mpc' = "draw" => nData' <= Sum(nEpisodes)') /\ nSeqs' <= nEpisodes'
        /\ (mpc' \notin {"fill", "draw", "died"} => nSeqs' = 0)
    BY <1>2, <1>4, <1>7, <2>1
  <2>4. bOverSteps' /\ Ready' =>
          /\ dist'.n <= Sum(IF mpc = "draw" THEN nSeqs ELSE nEpisodes)'
          /\ Len(dist'.at) <= dist'.n
          /\ \A i \in 1 .. Len(dist'.at) : dist'.at[i] = Steps(nEpisodes)'[i]
    <3> HAVE bOverSteps' /\ Ready'
    <3>1. /\ dist.n <= Sum(nEpisodes) /\ Len(dist.at) <= dist.n
          /\ \A i \in 1 .. Len(dist.at) : dist.at[i] = Steps(nEpisodes)[i]
      BY <1>0, <1>5, <2>1, <2>2 DEF SamplerInv
    <3>2. Sum(IF mpc = "draw" THEN nSeqs ELSE nEpisodes)' = Sum(nEpisodes)
      BY <1>2, <2>1 DEF Sum
    <3> QED BY <1>4, <2>1, <3>1, <3>2
  <2>5. algo' = "PERseq" /\ Ready' =>
          /\ dist'.n <= nEpisodes' /\ Len(dist'.at) = dist'.n
          /\ \A k \in 1 .. dist'.n : dist'.at[k] = <<episodes'[k], 1>>
    BY <1>0, <1>2, <1>5, <2>1, <2>2 DEF SamplerInv
  <2>6. mpc' # "fill"
    BY <2>1
  <2> QED BY <1>6, <2>3, <2>4, <2>5, <2>6 DEF SamplerInv
<1>13. CASE stepComplete
  <2>1. mpc = "complete" /\ mpc' = "sample" /\ UNCHANGED <<nSeqs, nData, dist>>
    BY <1>13 DEF stepComplete, MainGoto, drawVars
  <2>2. Ready
    BY <2>1 DEF Ready
  <2>3. (IF mpc = "draw" THEN nSeqs ELSE nEpisodes) = nEpisodes
    BY <2>1
  <2>4. Sum(IF mpc = "draw" THEN nSeqs ELSE nEpisodes)' = Sum(nEpisodes)
    BY <1>2, <2>1 DEF Sum
  <2>5. bOverSteps => /\ dist.n <= Sum(nEpisodes) /\ Len(dist.at) <= dist.n
                      /\ \A i \in 1 .. Len(dist.at) : dist.at[i] = Steps(nEpisodes)[i]
    BY <1>0, <2>2, <2>3 DEF SamplerInv
  <2>6. algo = "PERseq" => /\ dist.n <= nEpisodes /\ Len(dist.at) = dist.n
                           /\ \A k \in 1 .. dist.n : dist.at[k] = <<episodes[k], 1>>
    BY <1>0, <2>2 DEF SamplerInv
  <2>7. nSeqs' = 0 /\ mpc' # "draw" /\ nSeqs' <= nEpisodes'
    BY <1>0, <1>2, <1>7, <2>1 DEF SamplerInv
  <2> QED BY <1>2, <1>4, <1>5, <1>6, <2>1, <2>4, <2>5, <2>6, <2>7 DEF SamplerInv
<1> QED BY <1>9, <1>10, <1>11, <1>12, <1>13

\* What SetFacts says, of the next state.
Counted ==
  /\ nEpisodes \in Nat /\ Sum(nEpisodes) \in Nat /\ nTransitions \in Nat
  /\ \A x : x \in ToSet(episodes) <=> \E k \in 1 .. nEpisodes : episodes[k] = x

LEMMA CountedNext == Types' /\ SetInv' => Counted'
<1>1. Types /\ SetInv => Counted
  <2> HAVE Types /\ SetInv
  <2>1. nEpisodes \in Nat /\ nEpisodes \in 0 .. nEpisodes
    BY SetFacts
  <2> QED BY <2>1, SetFacts DEF Counted
<1> QED BY <1>1, PTL

\* The master threads: what the main thread has read of the vector stays true of it.
LEMMA PushDraws ==
  ASSUME DrawInv, NEW p \in Pushers, Push(p)
  PROVE  DrawInv'
<1>0. Types /\ SetInv /\ StepInv /\ SamplerInv /\ BatchInv
  BY DEF DrawInv
<1>1. /\ UNCHANGED <<setup, mpc, drawVars, trainVars, statVars>> /\ Types' /\ SetInv'
  BY <1>0, PushSets, CountSets DEF Push, pushBackEpisode, countTransitions
<1>2. Grows
  <2>1. CASE pushBackEpisode(p)
    BY <1>0, <2>1, PushGrows
  <2>2. CASE countTransitions(p)
    <3>1. ndata' = ndata /\ episodes' = episodes /\ nEpisodes' = nEpisodes
      BY <2>2 DEF countTransitions, epsVars
    <3> QED BY <1>0, <3>1, StaysThere
  <2> QED BY <2>1, <2>2 DEF Push
<1>3. /\ nSeqs' = nSeqs /\ nData' = nData /\ dist' = dist /\ drawn' = drawn /\ batch' = batch
      /\ mpc' = mpc /\ tpc' = tpc /\ nGradSteps' = nGradSteps
      /\ algo' = algo /\ bOverSteps' = bOverSteps /\ bSampleEpisodes' = bSampleEpisodes
  BY <1>1 DEF drawVars, trainVars, statVars, algo, bOverSteps, bSampleEpisodes
<1>4. /\ nEpisodes \in Nat /\ nEpisodes' \in Nat /\ nSeqs \in Nat /\ nData \in Nat
      /\ dist.n \in Nat /\ Len(dist.at) \in Nat
      /\ Sum(nEpisodes) \in Nat
  <2>1. nEpisodes \in Nat /\ nEpisodes = Len(episodes)
    BY <1>0, SetFacts
  <2>2. nEpisodes' \in Nat
    BY <1>1, CountedNext DEF Counted
  <2>3. Sum(nEpisodes) \in Nat
    <3>1. nEpisodes \in 0 .. nEpisodes
      BY <2>1
    <3> QED BY <1>0, <3>1, SetFacts
  <2> QED BY <1>0, <2>1, <2>2, <2>3 DEF Types
<1>5. nEpisodes <= nEpisodes' /\ Sum(nEpisodes) <= Sum(nEpisodes)' /\ Sum(nEpisodes)' \in Nat
  <2>1. Sum(nEpisodes)' \in Nat
    <3>1. Counted'
      BY <1>1, CountedNext
    <3> QED BY <3>1 DEF Counted
  <2> QED BY <1>2, <2>1 DEF Grows
<1>6. StepInv'
  BY <1>0, <1>3 DEF StepInv
<1>7. SamplerInv'
  <2>1. /\ mpc' \notin {"fill", "draw", "died"} => nSeqs' = 0
        /\ nSeqs' <= nEpisodes' /\ (mpc' = "fill" => bOverSteps')
        /\ mpc' = "draw" => nData' <= Sum(nEpisodes)'
    BY <1>0, <1>3, <1>4, <1>5 DEF SamplerInv
  <2>2. ASSUME Ready', bOverSteps'
        PROVE  /\ dist'.n <= Sum(IF mpc = "draw" THEN nSeqs ELSE nEpisodes)'
               /\ Len(dist'.at) <= dist'.n
               /\ \A i \in 1 .. Len(dist'.at) : dist'.at[i] = Steps(nEpisodes)'[i]
    <3> DEFINE s == IF mpc = "draw" THEN nSeqs ELSE nEpisodes
    <3>1. /\ dist.n <= Sum(s) /\ Len(dist.at) <= dist.n
          /\ \A i \in 1 .. Len(dist.at) : dist.at[i] = Steps(nEpisodes)[i]
      BY <1>0, <1>3, <2>2 DEF SamplerInv, Ready
    <3>2. s \in 0 .. nEpisodes
      BY <1>0, <1>4 DEF SamplerInv
    <3>3. Sum(s) <= Sum(nEpisodes) /\ Sum(s) \in Nat
      BY <1>0, <3>2, SetFacts
    <3>4. dist.n <= Sum(IF mpc = "draw" THEN nSeqs ELSE nEpisodes)'
      <4>1. CASE mpc = "draw"
        <5>1. Sum(nSeqs)' = SumUpTo(ndata', episodes', nSeqs)
          BY <1>3 DEF Sum
        <5>2. \A k \in 1 .. nSeqs : k \in 1 .. nEpisodes
          BY <1>4, <3>2, <4>1
        <5>3. \A k \in 1 .. nSeqs : episodes[k] = episodes'[k] /\ ndata[episodes[k]] = ndata'[episodes'[k]]
          BY <1>2, <5>2 DEF Grows
        <5>4. SumUpTo(ndata', episodes', nSeqs) = Sum(nSeqs)
          BY <5>3, SameEpisodes DEF Sum
        <5>5. Sum(IF mpc = "draw" THEN nSeqs ELSE nEpisodes)' = Sum(nSeqs)'
          BY <1>3, <4>1
        <5> QED BY <3>1, <4>1, <5>1, <5>4, <5>5
      <4>2. CASE mpc # "draw"
        <5>1. Sum(IF mpc = "draw" THEN nSeqs ELSE nEpisodes)' = Sum(nEpisodes)'
          BY <1>3, <4>2
        <5> QED BY <1>4, <1>5, <3>1, <4>2, <5>1
      <4> QED BY <4>1, <4>2
    <3>5. \A i \in 1 .. Len(dist.at) : i \in 1 .. Sum(nEpisodes)
      BY <1>4, <3>1, <3>3
    <3>6. \A i \in 1 .. Len(dist.at) : dist.at[i] = Steps(nEpisodes)'[i]
      BY <1>2, <3>1, <3>5 DEF Grows
    <3> QED BY <1>3, <3>1, <3>4, <3>6
  <2>3. ASSUME Ready', algo' = "PERseq"
        PROVE  /\ dist'.n <= nEpisodes' /\ Len(dist'.at) = dist'.n
               /\ \A k \in 1 .. dist'.n : dist'.at[k] = <<episodes'[k], 1>>
    <3>1. /\ dist.n <= nEpisodes /\ Len(dist.at) = dist.n
          /\ \A k \in 1 .. dist.n : dist.at[k] = <<episodes[k], 1>>
      BY <1>0, <1>3, <2>3 DEF SamplerInv, Ready
    <3>2. \A k \in 1 .. dist.n : k \in 1 .. nEpisodes
      BY <1>4, <3>1
    <3>3. \A k \in 1 .. dist.n : episodes'[k] = episodes[k]
      BY <1>2, <3>2 DEF Grows
    <3> QED BY <1>3, <1>4, <1>5, <3>1, <3>3
  <2> QED BY <2>1, <2>2, <2>3 DEF SamplerInv
<1>8. BatchInv'
  <2> SUFFICES ASSUME mpc = "train" PROVE BatchInv'
    BY <1>3 DEF BatchInv
  <2>1. \A b \in Batch : /\ batch[b][1] \in ToSet(episodes)'
                         /\ batch[b][2] \in 1 .. ndata'[batch[b][1]]
    <3> TAKE b \in Batch
    <3>1. batch[b][1] \in ToSet(episodes) /\ batch[b][2] \in 1 .. ndata[batch[b][1]]
      BY <1>0 DEF BatchInv
    <3>2. PICK k \in 1 .. nEpisodes : episodes[k] = batch[b][1]
      BY <1>0, <3>1, SetFacts
    <3>3. episodes'[k] = episodes[k] /\ ndata'[episodes[k]] = ndata[episodes[k]]
      BY <1>2 DEF Grows
    <3>4. k \in 1 .. nEpisodes'
      BY <1>4, <1>5
    <3>5. episodes'[k] \in ToSet(episodes)'
      <4>1. (\A x : x \in ToSet(episodes) <=> \E j \in 1 .. nEpisodes : episodes[j] = x)'
        BY <1>1, CountedNext DEF Counted
      <4> QED BY <3>4, <4>1
    <3> QED BY <3>1, <3>2, <3>3, <3>5
  <2>2. algo # "PERseq" /\ ~bSampleEpisodes =>
          \A b \in Batch : drawn[b] \in 1 .. Sum(nEpisodes)' /\ batch[b] = Steps(nEpisodes)'[drawn[b]]
    <3> HAVE algo # "PERseq" /\ ~bSampleEpisodes
    <3> TAKE b \in Batch
    <3>1. drawn[b] \in 1 .. Sum(nEpisodes) /\ batch[b] = Steps(nEpisodes)[drawn[b]]
      BY <1>0 DEF BatchInv
    <3>2. batch[b] = Steps(nEpisodes)'[drawn[b]]
      BY <1>2, <3>1 DEF Grows
    <3>3. drawn[b] \in 1 .. Sum(nEpisodes)'
      BY <1>4, <1>5, <3>1
    <3> QED BY <3>2, <3>3
  <2>3. algo = "PERseq" =>
          \A b \in Batch : drawn[b] \in 1 .. nEpisodes' /\ batch[b][1] = episodes'[drawn[b]]
    <3> HAVE algo = "PERseq"
    <3> TAKE b \in Batch
    <3>1. drawn[b] \in 1 .. nEpisodes /\ batch[b][1] = episodes[drawn[b]]
      BY <1>0 DEF BatchInv
    <3>2. episodes'[drawn[b]] = episodes[drawn[b]]
      BY <1>2, <3>1 DEF Grows
    <3> QED BY <1>4, <1>5, <3>1, <3>2
  <2>4. IsInjective(batch)
    BY <1>0 DEF BatchInv
  <2> QED BY <1>3, <2>1, <2>2, <2>3, <2>4 DEF BatchInv
<1> QED BY <1>1, <1>6, <1>7, <1>8 DEF DrawInv

------------------------------------------------------------------------------
(* Drawing a batch                                                         *)

\* How many entries there are.
NEntries == IF algo # "uniform" THEN dist.n ELSE IF bSampleEpisodes THEN nSeqs ELSE nData

LEMMA EntriesAre ==
  ASSUME DrawInv
  PROVE  Entries = 1 .. NEntries /\ NEntries \in Nat /\ IsFiniteSet(Entries) /\ IsFiniteSet(Drawable)
<1>1. Types
  BY DEF DrawInv
<1>2. NEntries \in Nat
  BY <1>1 DEF Types, NEntries
<1>3. Entries = 1 .. NEntries
  <2>1. CASE algo # "uniform"
    BY <2>1 DEF Entries, NEntries
  <2>2. CASE algo = "uniform" /\ bSampleEpisodes
    BY <2>2 DEF Entries, NEntries
  <2>3. CASE algo = "uniform" /\ ~bSampleEpisodes
    BY <2>3 DEF Entries, NEntries, UniformCounters
  <2> QED BY <2>1, <2>2, <2>3
<1>4. IsFiniteSet(1 .. NEntries) /\ IsFiniteSet(1 .. MaxLen)
  <2>1. 1 \in Int /\ NEntries \in Int /\ MaxLen \in Int
    BY <1>2, ReplayAssumption
  <2> QED BY <2>1, FS_Interval
<1>5. IsFiniteSet((1 .. NEntries) \X (1 .. MaxLen))
  BY <1>4, FS_Product
<1>6. IsFiniteSet(Drawable)
  <2>1. CASE algo = "PERseq" /\ ~bSampleEpisodes
    <3>1. Drawable \in SUBSET ((1 .. NEntries) \X (1 .. MaxLen))
      BY <1>3, <2>1 DEF Drawable
    <3> QED BY <1>5, <3>1, FS_Subset
  <2>2. CASE ~(algo = "PERseq" /\ ~bSampleEpisodes)
    BY <1>3, <1>4, <2>2 DEF Drawable
  <2> QED BY <2>1, <2>2
<1> QED BY <1>2, <1>3, <1>4, <1>6

\* The draws of a batch are different.
LEMMA DrawsAre ==
  ASSUME DrawInv, NEW d \in Draws
  PROVE  d \in [Batch -> Drawable] /\ \A a, b \in Batch : d[a] = d[b] => a = b
<1>1. PICK s \in SUBSET Drawable : Cardinality(s) = BatchSize /\ d = SetToSeq(s)
  BY DEF Draws, kSubset
<1>2. IsFiniteSet(s)
  BY EntriesAre, FS_Subset
<1>3. d \in [1 .. BatchSize -> s] /\ IsInjective(d)
  BY <1>1, <1>2, SetToSeqIs
<1> QED BY <1>1, <1>3 DEF Batch, IsInjective

\* What is mapped to steps, and to which.
Draws1(d) ==
  /\ tpc' = [b \in Batch |-> "read"] /\ nSeqs' = 0 /\ nData' = 0 /\ mpc = "draw" /\ mpc' = "train"
  /\ UNCHANGED <<setup, pushVars, epsVars, setVars, dist, wasFarPol, statVars>>
  /\ d \in [Batch -> Drawable] /\ \A a, b \in Batch : d[a] = d[b] => a = b
  /\ IF bSampleEpisodes
     THEN drawn' = d /\ batch' = [b \in Batch |-> <<episodes[d[b]], 1>>]
     ELSE IF algo = "PERseq"
     THEN /\ drawn' = [b \in Batch |-> d[b][1]]
          /\ batch' = [b \in Batch |-> <<episodes[d[b][1]], d[b][2]>>]
     ELSE drawn' = d /\ batch' = [b \in Batch |-> IDtoSeqStep(d[b])]

LEMMA DrawPicks ==
  ASSUME DrawInv, draw
  PROVE  \E d : Draws1(d)
<1>1. PICK d \in Draws :
        IF bSampleEpisodes
        THEN drawn' = d /\ batch' = [b \in Batch |-> <<episodes[d[b]], 1>>]
        ELSE IF algo = "PERseq"
        THEN /\ drawn' = [b \in Batch |-> d[b][1]]
             /\ batch' = [b \in Batch |-> <<episodes[d[b][1]], d[b][2]>>]
        ELSE drawn' = d /\ batch' = [b \in Batch |-> IDtoSeqStep(d[b])]
  BY DEF draw
<1>2. d \in [Batch -> Drawable] /\ \A a, b \in Batch : d[a] = d[b] => a = b
  BY DrawsAre
<1>3. /\ tpc' = [b \in Batch |-> "read"] /\ nSeqs' = 0 /\ nData' = 0 /\ mpc = "draw" /\ mpc' = "train"
      /\ UNCHANGED <<setup, pushVars, epsVars, setVars, dist, wasFarPol, statVars>>
  BY DEF draw, MainGoto
<1>4. Draws1(d)
  BY <1>1, <1>2, <1>3 DEF Draws1
<1> QED BY <1>4

\* A batch of the vector.
IsBatch(dr, ba) ==
  /\ dr \in [Batch -> Nat] /\ ba \in [Batch -> Ids \X Nat] /\ IsInjective(ba)
  /\ \A b \in Batch : /\ ba[b][1] \in ToSet(episodes)
                      /\ ba[b][2] \in 1 .. ndata[ba[b][1]]
  /\ algo # "PERseq" /\ ~bSampleEpisodes =>
       \A b \in Batch : dr[b] \in 1 .. Sum(nEpisodes) /\ ba[b] = Steps(nEpisodes)[dr[b]]
  /\ algo = "PERseq" =>
       \A b \in Batch : dr[b] \in 1 .. nEpisodes /\ ba[b][1] = episodes[dr[b]]

LEMMA EpisodesDrawn ==
  ASSUME DrawInv, NEW d, Draws1(d), bSampleEpisodes
  PROVE  IsBatch(drawn', batch')
<1>0. Types /\ SetInv /\ SamplerInv /\ bSampleEpisodes \in BOOLEAN
      /\ algo \in {"uniform", "PERrank", "PERerr", "PERseq"} /\ ~bOverSteps
  BY SetupFacts DEF DrawInv
<1>1. nEpisodes \in Nat /\ episodes \in Seq(Ids) /\ IsInjective(episodes) /\ nEpisodes = Len(episodes)
  BY <1>0, SetFacts DEF Types
<1>2. NEntries <= nEpisodes
  <2>1. CASE algo = "uniform"
    BY <1>0, <2>1 DEF NEntries, SamplerInv
  <2>2. CASE algo = "PERseq"
    <3>1. Ready
      BY DEF Draws1, Ready
    <3> QED BY <1>0, <2>2, <3>1 DEF NEntries, SamplerInv
  <2> QED BY <1>0, <2>1, <2>2 DEF bOverSteps
<1>3. /\ drawn' = d /\ batch' = [b \in Batch |-> <<episodes[d[b]], 1>>]
      /\ \A a, b \in Batch : d[a] = d[b] => a = b
  BY DEF Draws1
<1>4. d \in [Batch -> 1 .. nEpisodes]
  <2>1. Drawable = 1 .. NEntries /\ NEntries \in Nat
    BY EntriesAre DEF Drawable
  <2>2. \A i \in 1 .. NEntries : i \in 1 .. nEpisodes
    BY <1>1, <1>2, <2>1
  <2>3. d \in [Batch -> 1 .. NEntries]
    BY <2>1 DEF Draws1
  <2> QED BY <2>2, <2>3
<1>5. ASSUME NEW b \in Batch
      PROVE  /\ batch'[b] = <<episodes[d[b]], 1>> /\ batch'[b] \in Ids \X Nat
             /\ batch'[b][1] \in ToSet(episodes) /\ batch'[b][1] = episodes[d[b]]
             /\ batch'[b][2] \in 1 .. ndata[batch'[b][1]]
  <2>1. d[b] \in 1 .. nEpisodes
    BY <1>4
  <2>2. episodes[d[b]] \in Ids /\ ndata[episodes[d[b]]] \in 1 .. MaxLen /\ episodes[d[b]] \in ToSet(episodes)
    BY <1>0, <2>1, SetFacts
  <2>3. batch'[b] = <<episodes[d[b]], 1>>
    BY <1>3
  <2>4. 1 \in 1 .. ndata[episodes[d[b]]] /\ 1 \in Nat
    BY <2>2
  <2> QED BY <2>2, <2>3, <2>4
<1>6. IsInjective(batch')
  <2> SUFFICES ASSUME NEW a \in Batch, NEW b \in Batch, batch'[a] = batch'[b] PROVE a = b
    BY <1>3 DEF IsInjective
  <2>1. episodes[d[a]] = episodes[d[b]]
    BY <1>5
  <2>2. d[a] \in DOMAIN episodes /\ d[b] \in DOMAIN episodes
    BY <1>1, <1>4
  <2>3. d[a] = d[b]
    BY <1>1, <2>1, <2>2 DEF IsInjective
  <2> QED BY <1>3, <2>3
<1>7. drawn' \in [Batch -> Nat] /\ batch' \in [Batch -> Ids \X Nat]
  <2>1. drawn' \in [Batch -> Nat]
    BY <1>1, <1>3, <1>4
  <2>2. \A b \in Batch : <<episodes[d[b]], 1>> \in Ids \X Nat
    BY <1>5
  <2> QED BY <1>3, <2>1, <2>2
<1>8. \A b \in Batch : drawn'[b] \in 1 .. nEpisodes
  BY <1>3, <1>4
<1>9. \A b \in Batch : batch'[b][1] = episodes[drawn'[b]]
  BY <1>3, <1>5
<1> QED BY <1>0, <1>5, <1>6, <1>7, <1>8, <1>9 DEF IsBatch

LEMMA PairsDrawn ==
  ASSUME DrawInv, NEW d, Draws1(d), ~bSampleEpisodes, algo = "PERseq"
  PROVE  IsBatch(drawn', batch')
<1>0. Types /\ SetInv /\ SamplerInv
  BY DEF DrawInv
<1>1. nEpisodes \in Nat /\ episodes \in Seq(Ids) /\ IsInjective(episodes) /\ nEpisodes = Len(episodes)
      /\ MaxLen \in Nat
  BY <1>0, SetFacts, ReplayAssumption DEF Types
<1>2. NEntries <= nEpisodes
  <2>1. Ready
    BY DEF Draws1, Ready
  <2> QED BY <1>0, <2>1 DEF NEntries, SamplerInv
<1>3. /\ drawn' = [b \in Batch |-> d[b][1]]
      /\ batch' = [b \in Batch |-> <<episodes[d[b][1]], d[b][2]>>]
      /\ \A a, b \in Batch : d[a] = d[b] => a = b
      /\ d \in [Batch -> Drawable]
  BY DEF Draws1
<1>4. ASSUME NEW b \in Batch
      PROVE  /\ d[b] = <<d[b][1], d[b][2]>> /\ d[b][1] \in 1 .. nEpisodes
             /\ d[b][2] \in 1 .. ndata[episodes[d[b][1]]]
  <2>1. d[b] \in (1 .. NEntries) \X (1 .. MaxLen) /\ d[b][2] <= ndata[episodes[d[b][1]]]
    <3>1. d[b] \in Drawable
      BY <1>3
    <3> QED BY <3>1, EntriesAre DEF Drawable
  <2>2. d[b][1] \in 1 .. NEntries /\ d[b][2] \in 1 .. MaxLen /\ d[b] = <<d[b][1], d[b][2]>>
    BY <2>1
  <2>3. d[b][1] \in 1 .. nEpisodes
    BY <1>1, <1>2, <2>2, EntriesAre
  <2>4. ndata[episodes[d[b][1]]] \in 1 .. MaxLen
    BY <1>0, <2>3, SetFacts
  <2>5. d[b][2] \in 1 .. ndata[episodes[d[b][1]]]
    BY <1>1, <2>1, <2>2, <2>4
  <2> QED BY <2>2, <2>3, <2>5
<1>5. ASSUME NEW b \in Batch
      PROVE  /\ batch'[b] = <<episodes[d[b][1]], d[b][2]>> /\ batch'[b] \in Ids \X Nat
             /\ batch'[b][1] \in ToSet(episodes) /\ batch'[b][1] = episodes[d[b][1]]
             /\ batch'[b][2] \in 1 .. ndata[batch'[b][1]] /\ batch'[b][2] = d[b][2]
  <2>1. batch'[b] = <<episodes[d[b][1]], d[b][2]>>
    BY <1>3
  <2>2. /\ episodes[d[b][1]] \in Ids /\ ndata[episodes[d[b][1]]] \in 1 .. MaxLen
        /\ episodes[d[b][1]] \in ToSet(episodes)
    BY <1>0, <1>4, SetFacts
  <2>3. d[b][2] \in Nat
    BY <1>4, <2>2
  <2> QED BY <1>4, <2>1, <2>2, <2>3
<1>6. IsInjective(batch')
  <2> SUFFICES ASSUME NEW a \in Batch, NEW b \in Batch, batch'[a] = batch'[b] PROVE a = b
    BY <1>3 DEF IsInjective
  <2>1. episodes[d[a][1]] = episodes[d[b][1]] /\ d[a][2] = d[b][2]
    BY <1>5
  <2>2. d[a][1] \in DOMAIN episodes /\ d[b][1] \in DOMAIN episodes
    BY <1>1, <1>4
  <2>3. d[a][1] = d[b][1]
    BY <1>1, <2>1, <2>2 DEF IsInjective
  <2>4. d[a] = d[b]
    BY <1>4, <2>1, <2>3
  <2> QED BY <1>3, <2>4
<1>7. drawn' \in [Batch -> Nat] /\ batch' \in [Batch -> Ids \X Nat]
  <2>1. \A b \in Batch : d[b][1] \in Nat
    BY <1>1, <1>4
  <2>2. \A b \in Batch : <<episodes[d[b][1]], d[b][2]>> \in Ids \X Nat
    BY <1>5
  <2> QED BY <1>3, <2>1, <2>2
<1>8. \A b \in Batch : drawn'[b] = d[b][1] /\ drawn'[b] \in 1 .. nEpisodes
  BY <1>3, <1>4
<1> QED BY <1>5, <1>6, <1>7, <1>8 DEF IsBatch

LEMMA StepsDrawn ==
  ASSUME DrawInv, NEW d, Draws1(d), ~bSampleEpisodes, algo # "PERseq"
  PROVE  IsBatch(drawn', batch')
<1> DEFINE n == IF algo = "uniform" THEN nEpisodes ELSE nSeqs
<1>0. Types /\ SetInv /\ SamplerInv /\ algo \in {"uniform", "PERrank", "PERerr", "PERseq"}
  BY SetupFacts DEF DrawInv
<1>1. nEpisodes \in Nat /\ episodes \in Seq(Ids) /\ nEpisodes = Len(episodes) /\ nSeqs \in Nat
      /\ ndata \in [Ids -> Nat]
  BY <1>0, SetFacts DEF Types
<1>2. n \in 0 .. nEpisodes /\ Sum(n) \in Nat /\ Sum(n) <= Sum(nEpisodes) /\ NEntries <= Sum(n)
  <2>1. n \in 0 .. nEpisodes
    BY <1>0, <1>1 DEF SamplerInv
  <2>2. NEntries <= Sum(n)
    <3>1. CASE algo = "uniform"
      BY <1>0, <3>1 DEF NEntries, SamplerInv, Draws1
    <3>2. CASE algo # "uniform"
      <4>1. bOverSteps /\ Ready /\ mpc = "draw"
        BY <1>0, <3>2 DEF bOverSteps, Ready, Draws1
      <4>2. dist.n <= Sum(IF mpc = "draw" THEN nSeqs ELSE nEpisodes)
        BY <1>0, <4>1 DEF SamplerInv
      <4> QED BY <3>2, <4>1, <4>2 DEF NEntries
    <3> QED BY <3>1, <3>2
  <2> QED BY <1>0, <2>1, <2>2, SetFacts
<1>3. /\ drawn' = d /\ batch' = [b \in Batch |-> IDtoSeqStep(d[b])]
      /\ \A a, b \in Batch : d[a] = d[b] => a = b
      /\ d \in [Batch -> 1 .. NEntries] /\ NEntries \in Nat
  <2>1. Drawable = 1 .. NEntries /\ NEntries \in Nat
    BY EntriesAre DEF Drawable
  <2> QED BY <2>1 DEF Draws1
<1>4. SearchedSteps = Steps(n)
  <2>1. SearchedSteps = StepsIn(n)
    BY DEF SearchedSteps, UniformCounters
  <2> QED BY <2>1, StepsInAre DEF Steps
<1> HIDE DEF n
<1>5. /\ Len(Steps(n)) = Sum(n) /\ Steps(n) \in Seq(Ids \X Nat)
      /\ \A i \in 1 .. Sum(n) : \E k \in 1 .. n : \E t \in 1 .. ndata[episodes[k]] :
           Steps(n)[i] = <<episodes[k], t>>
      /\ \A i, j \in 1 .. Sum(n) : Steps(n)[i] = Steps(n)[j] => i = j
  <2>1. Listed(ndata, episodes, n)
    BY <1>0, <1>2, SetFacts
  <2>2. Len(Steps(n)) = Sum(n)
    BY <2>1 DEF Listed, Steps, Sum
  <2> QED BY <2>1, <2>2 DEF Listed, Steps
<1>6. \A i \in 1 .. Sum(n) : Steps(nEpisodes)[i] = Steps(n)[i]
  <2>1. n \in 0 .. Len(episodes) /\ nEpisodes \in n .. Len(episodes)
    BY <1>1, <1>2
  <2>2. \A i \in 1 .. Len(Steps(n)) : Steps(nEpisodes)[i] = Steps(n)[i]
    BY <1>1, <2>1, StepsPrefix DEF Steps
  <2> QED BY <1>5, <2>2
<1>7. ASSUME NEW b \in Batch
      PROVE  /\ d[b] \in 1 .. Sum(n) /\ d[b] \in 1 .. Sum(nEpisodes) /\ d[b] \in Nat
             /\ batch'[b] = Steps(n)[d[b]] /\ batch'[b] = Steps(nEpisodes)[d[b]]
  <2>1. d[b] \in 1 .. NEntries
    BY <1>3
  <2>2. d[b] \in 1 .. Sum(n) /\ d[b] \in Nat
    BY <1>2, <1>3, <2>1
  <2>3. Sum(nEpisodes) \in Nat
    <3>1. nEpisodes \in 0 .. nEpisodes
      BY <1>1
    <3> QED BY <1>0, <3>1, SetFacts
  <2>4. d[b] \in 1 .. Sum(nEpisodes)
    BY <1>2, <2>2, <2>3
  <2>5. batch'[b] = IDtoSeqStep(d[b])
    BY <1>3
  <2>6. d[b] <= Len(SearchedSteps)
    BY <1>4, <1>5, <2>2
  <2>7. IDtoSeqStep(d[b]) = Steps(n)[d[b]]
    BY <1>4, <2>6 DEF IDtoSeqStep
  <2> QED BY <1>6, <2>2, <2>4, <2>5, <2>7
<1>8. ASSUME NEW b \in Batch
      PROVE  /\ batch'[b] \in Ids \X Nat /\ batch'[b][1] \in ToSet(episodes)
             /\ batch'[b][2] \in 1 .. ndata[batch'[b][1]]
  <2>0. d[b] \in 1 .. Sum(n) /\ batch'[b] = Steps(n)[d[b]]
    BY <1>7
  <2>1. PICK k \in 1 .. n : \E t \in 1 .. ndata[episodes[k]] : Steps(n)[d[b]] = <<episodes[k], t>>
    BY <1>5, <2>0
  <2>2. PICK t \in 1 .. ndata[episodes[k]] : batch'[b] = <<episodes[k], t>>
    BY <2>0, <2>1
  <2>3. k \in 1 .. nEpisodes
    BY <1>1, <1>2
  <2>4. /\ episodes[k] \in Ids /\ episodes[k] \in ToSet(episodes)
        /\ ndata[episodes[k]] \in Nat
    BY <1>0, <1>1, <2>3, SetFacts
  <2>5. t \in Nat
    BY <2>4
  <2> QED BY <2>2, <2>4, <2>5
<1>9. IsInjective(batch')
  <2> SUFFICES ASSUME NEW a \in Batch, NEW b \in Batch, batch'[a] = batch'[b] PROVE a = b
    BY <1>3 DEF IsInjective
  <2>1. d[a] = d[b]
    BY <1>5, <1>7
  <2> QED BY <1>3, <2>1
<1>10. drawn' \in [Batch -> Nat] /\ batch' \in [Batch -> Ids \X Nat]
  <2>1. \A b \in Batch : IDtoSeqStep(d[b]) \in Ids \X Nat
    <3> TAKE b \in Batch
    <3>1. batch'[b] = IDtoSeqStep(d[b])
      BY <1>3
    <3> QED BY <1>8, <3>1
  <2>2. drawn' \in [Batch -> Nat]
    BY <1>3, <1>7
  <2> QED BY <1>3, <2>1, <2>2
<1>11. \A b \in Batch : drawn'[b] = d[b]
  BY <1>3
<1> QED BY <1>7, <1>8, <1>9, <1>10, <1>11 DEF IsBatch

LEMMA DrawDraws ==
  ASSUME DrawInv, draw
  PROVE  DrawInv'
<1>0. Types /\ SetInv /\ StepInv /\ SamplerInv
  BY DEF DrawInv
<1>1. PICK d : Draws1(d)
  BY DrawPicks
<1>2. IsBatch(drawn', batch')
  BY <1>1, EpisodesDrawn, PairsDrawn, StepsDrawn
<1>3. /\ tpc' = [b \in Batch |-> "read"] /\ nSeqs' = 0 /\ nData' = 0 /\ mpc = "draw" /\ mpc' = "train"
      /\ UNCHANGED <<setup, pushVars, epsVars, setVars, dist, wasFarPol, statVars>>
  BY <1>1 DEF Draws1
<1>4. ndata' = ndata /\ episodes' = episodes /\ nEpisodes' = nEpisodes /\ dist' = dist
      /\ algo' = algo /\ bOverSteps' = bOverSteps /\ bSampleEpisodes' = bSampleEpisodes
      /\ nGradSteps' = nGradSteps
  BY <1>3 DEF epsVars, setVars, statVars, algo, bOverSteps, bSampleEpisodes
<1>5. Sum(nEpisodes)' = Sum(nEpisodes) /\ Steps(nEpisodes)' = Steps(nEpisodes)
      /\ Sum(IF mpc = "draw" THEN nSeqs ELSE nEpisodes)' = Sum(nEpisodes)
  BY <1>3, <1>4 DEF Sum, Steps
<1>6. Types'
  <2>1. drawn' \in [Batch -> Nat] /\ batch' \in [Batch -> Ids \X Nat]
    BY <1>2 DEF IsBatch
  <2>2. tpc' \in [Batch -> {"idle", "read", "update", "done"}]
    BY <1>3
  <2> QED BY <1>0, <1>3, <2>1, <2>2 DEF Types, pushVars, epsVars, setVars, statVars
<1>7. SetInv'
  BY <1>0, <1>3, SetStays DEF pushVars, epsVars, setVars
<1>8. StepInv'
  <2>1. nGradSteps < MaxSteps
    BY <1>0, <1>3 DEF StepInv
  <2> QED BY <1>3, <1>4, <2>1 DEF StepInv
<1>9. BatchInv'
  BY <1>2, <1>4, <1>5 DEF BatchInv, IsBatch
<1>10. SamplerInv'
  <2>1. Ready /\ nEpisodes \in Nat /\ nSeqs \in 0 .. nEpisodes
    BY <1>0, <1>3, SetFacts DEF Ready, SamplerInv, Types
  <2>2. bOverSteps =>
          /\ dist.n <= Sum(nEpisodes) /\ Len(dist.at) <= dist.n
          /\ \A i \in 1 .. Len(dist.at) : dist.at[i] = Steps(nEpisodes)[i]
    <3> HAVE bOverSteps
    <3>1. /\ dist.n <= Sum(IF mpc = "draw" THEN nSeqs ELSE nEpisodes) /\ Len(dist.at) <= dist.n
          /\ \A i \in 1 .. Len(dist.at) : dist.at[i] = Steps(nEpisodes)[i]
      BY <1>0, <2>1 DEF SamplerInv
    <3>2. Sum(nSeqs) <= Sum(nEpisodes) /\ Sum(nSeqs) \in Nat
      BY <1>0, <2>1, SetFacts
    <3>3. dist.n <= Sum(nSeqs)
      BY <1>3, <3>1
    <3>4. Sum(nEpisodes) \in Nat /\ dist.n \in Nat
      <4>1. nEpisodes \in 0 .. nEpisodes
        BY <2>1
      <4> QED BY <1>0, <4>1, SetFacts DEF Types
    <3> QED BY <3>1, <3>2, <3>3, <3>4
  <2>3. algo = "PERseq" => /\ dist.n <= nEpisodes /\ Len(dist.at) = dist.n
                           /\ \A k \in 1 .. dist.n : dist.at[k] = <<episodes[k], 1>>
    BY <1>0, <2>1 DEF SamplerInv
  <2>4. nSeqs' = 0 /\ nSeqs' <= nEpisodes' /\ mpc' # "draw" /\ mpc' # "fill"
    BY <1>3, <1>4, <2>1
  <2> QED BY <1>4, <1>5, <2>2, <2>3, <2>4 DEF SamplerInv
<1> QED BY <1>6, <1>7, <1>8, <1>9, <1>10 DEF DrawInv

------------------------------------------------------------------------------
(* Training and statistics                                                 *)

LEMMA TrainDraws ==
  ASSUME DrawInv, NEW b \in Batch, Train(b)
  PROVE  DrawInv'
<1> DEFINE e == batch[b][1]
<1>0. Types /\ SetInv /\ StepInv /\ SamplerInv /\ BatchInv
  BY DEF DrawInv
<1>1. /\ mpc = "train" /\ tpc[b] \in {"read", "update"}
      /\ tpc' \in {[tpc EXCEPT ![b] = "update"], [tpc EXCEPT ![b] = "done"]}
      /\ UNCHANGED <<setup, pushVars, ndata, stamp, setVars, mpc, drawVars, statVars>>
  BY DEF Train, readImpW, updateImpW, ThreadGoto
<1>2. e \in Ids /\ e \in ToSet(episodes) /\ ndata[e] \in Nat
  <2>1. e \in ToSet(episodes)
    BY <1>0, <1>1 DEF BatchInv
  <2>2. e \in Ids
    BY <1>0 DEF Types
  <2> QED BY <1>0, <2>1, <2>2, SetFacts
<1>4. /\ wasFarPol' \in [Batch -> BOOLEAN]
      /\ fracFar' \in [Ids -> Int] /\ \A x \in Ids : x # e => fracFar'[x] = fracFar[x]
      /\ offPolicImpW' = [x \in Ids |-> offPolicImpW'[x]]
      /\ \A x \in Ids : offPolicImpW'[x] \in [1 .. ndata[x] -> Levels]
  <2>0. /\ fracFar \in [Ids -> Int] /\ offPolicImpW = [x \in Ids |-> offPolicImpW[x]]
        /\ \A x \in Ids : offPolicImpW[x] \in [1 .. ndata[x] -> Levels]
        /\ wasFarPol \in [Batch -> BOOLEAN]
    BY <1>0 DEF Types
  <2>1. CASE readImpW(b)
    <3>1. /\ wasFarPol' = [wasFarPol EXCEPT ![b] = isFar(offPolicImpW[e][batch[b][2]])]
          /\ offPolicImpW' = offPolicImpW /\ fracFar' = fracFar
      BY <2>1 DEF readImpW
    <3>2. isFar(offPolicImpW[e][batch[b][2]]) \in BOOLEAN
      BY DEF isFar
    <3>3. wasFarPol' \in [Batch -> BOOLEAN]
      BY <2>0, <3>1, <3>2
    <3> QED BY <2>0, <3>1, <3>3
  <2>2. CASE updateImpW(b)
    <3> DEFINE One(x) == IF x THEN 1 ELSE 0
    <3>1. wasFarPol' = [wasFarPol EXCEPT ![b] = FALSE]
      BY <2>2 DEF updateImpW
    <3>2. PICK W \in Levels :
            /\ fracFar' = [fracFar EXCEPT ![e] = @ + ndata[e] * (One(isFar(W)) - One(wasFarPol[b]))]
            /\ offPolicImpW' = [offPolicImpW EXCEPT ![e][batch[b][2]] = W]
      BY <2>2 DEF updateImpW
    <3> DEFINE c == ndata[e] * (One(isFar(W)) - One(wasFarPol[b]))
    <3>3. c \in Int
      <4>1. One(isFar(W)) - One(wasFarPol[b]) \in {0, 1, 0 - 1}
        OBVIOUS
      <4> HIDE DEF One
      <4> QED BY <1>2, <4>1
    <3>4. fracFar' = [fracFar EXCEPT ![e] = @ + c]
      BY <3>2
    <3> HIDE DEF c
    <3>5. fracFar' \in [Ids -> Int] /\ \A x \in Ids : x # e => fracFar'[x] = fracFar[x]
      BY <1>2, <2>0, <3>3, <3>4
    <3>6. offPolicImpW' = [x \in Ids |-> offPolicImpW'[x]]
      BY <2>0, <3>2
    <3>7. ASSUME NEW x \in Ids PROVE offPolicImpW'[x] \in [1 .. ndata[x] -> Levels]
      <4>1. CASE x = e
        <5>1. offPolicImpW'[x] = [offPolicImpW[e] EXCEPT ![batch[b][2]] = W]
          BY <2>0, <3>2, <4>1
        <5>2. offPolicImpW[e] \in [1 .. ndata[e] -> Levels]
          BY <1>2, <2>0
        <5> DEFINE f == offPolicImpW[e]
                   t == batch[b][2]
                   g == [f EXCEPT ![t] = W]
        <5>3. f \in [1 .. ndata[e] -> Levels] /\ W \in Levels
          BY <5>2
        <5> HIDE DEF f, t
        <5>4. g \in [1 .. ndata[e] -> Levels]
          BY <5>3
        <5>5. offPolicImpW'[x] = g
          BY <5>1 DEF f, t
        <5> QED BY <4>1, <5>4, <5>5
      <4>2. CASE x # e
        <5>1. offPolicImpW'[x] = offPolicImpW[x]
          BY <2>0, <3>2, <4>2
        <5> QED BY <2>0, <5>1
      <4> QED BY <4>1, <4>2
    <3> QED BY <2>0, <3>1, <3>5, <3>6, <3>7
  <2> QED BY <2>1, <2>2 DEF Train
<1>5. Types'
  <2>1. tpc' \in [Batch -> {"idle", "read", "update", "done"}]
    BY <1>0, <1>1 DEF Types
  <2> QED BY <1>0, <1>1, <1>4, <2>1 DEF Types, pushVars, setVars, drawVars, statVars
<1>6. SetInv'
  <2>1. \A x \in Ids : x \notin ToSet(episodes) => fracFar'[x] = fracFar[x]
    BY <1>2, <1>4
  <2> QED BY <1>0, <1>1, <2>1, SetStays DEF pushVars, setVars
<1>7. /\ ndata' = ndata /\ episodes' = episodes /\ nEpisodes' = nEpisodes /\ nSeqs' = nSeqs
      /\ nData' = nData /\ dist' = dist /\ drawn' = drawn /\ batch' = batch /\ mpc' = mpc
      /\ nGradSteps' = nGradSteps /\ algo' = algo /\ bOverSteps' = bOverSteps
      /\ bSampleEpisodes' = bSampleEpisodes
  BY <1>1 DEF setVars, drawVars, statVars, algo, bOverSteps, bSampleEpisodes
<1>8. SamplerInv' /\ BatchInv'
  <2>1. /\ Sum(nEpisodes)' = Sum(nEpisodes) /\ Steps(nEpisodes)' = Steps(nEpisodes)
        /\ Sum(IF mpc = "draw" THEN nSeqs ELSE nEpisodes)' = Sum(IF mpc = "draw" THEN nSeqs ELSE nEpisodes)
    BY <1>7 DEF Sum, Steps
  <2>2. ToSet(episodes)' = ToSet(episodes)
    BY <1>7
  <2>3. SamplerInv'
    BY <1>0, <1>7, <2>1 DEF SamplerInv, Ready
  <2>4. BatchInv'
    BY <1>0, <1>7, <2>1, <2>2 DEF BatchInv
  <2> QED BY <2>3, <2>4
<1>9. StepInv'
  <2>1. nGradSteps < MaxSteps
    BY <1>0, <1>1 DEF StepInv
  <2> QED BY <1>1, <1>7, <2>1 DEF StepInv
<1> QED BY <1>5, <1>6, <1>8, <1>9 DEF DrawInv

LEMMA StatisticsDraw ==
  ASSUME DrawInv, updateTrainingStatistics
  PROVE  DrawInv'
<1> DEFINE step == nGradSteps + 1
           C == IF step < AnnealedAt THEN ClipFirst ELSE ClipLast
           Far(e) == Cardinality({t \in 1 .. ndata[e] : offPolicImpW[e][t] > C})
<1>0. Types /\ SetInv /\ StepInv /\ SamplerInv
  BY DEF DrawInv
<1>1. /\ mpc = "train" /\ mpc' = "remove" /\ CmaxRet' = C
      /\ UNCHANGED <<setup, pushVars, ndata, stamp, offPolicImpW, setVars, nSeqs, nData, dist,
                     trainVars, nGradSteps>>
      /\ drawn' = [b \in Batch |-> 1] /\ batch' = [b \in Batch |-> <<1, 1>>]
  BY DEF updateTrainingStatistics, MainGoto
<1>2. C \in {ClipFirst, ClipLast}
  OBVIOUS
<1>3. /\ CmaxCounted' \in {ClipFirst, ClipLast} /\ fracFar' \in [Ids -> Int]
      /\ \A e \in Ids : e \notin ToSet(episodes) => fracFar'[e] = fracFar[e]
  <2>1. CASE step % RecomputeEvery = 0
    <3>1. /\ CmaxCounted' = C
          /\ fracFar' = [e \in Ids |-> IF e \in ToSet(SubSeq(episodes, 1, nEpisodes))
                                       THEN nsteps(e) * Far(e) ELSE fracFar[e]]
      BY <2>1 DEF updateTrainingStatistics
    <3>2. \A e \in Ids : nsteps(e) * Far(e) \in Int
      <4> TAKE e \in Ids
      <4>1. ndata[e] \in Nat
        BY <1>0, SetFacts
      <4>2. Far(e) \in Nat
        <5>1. 1 \in Int /\ ndata[e] \in Int
          BY <4>1
        <5>2. IsFiniteSet(1 .. ndata[e])
          BY <5>1, FS_Interval
        <5>3. IsFiniteSet({t \in 1 .. ndata[e] : offPolicImpW[e][t] > C})
          BY <5>2, FS_Subset
        <5> QED BY <5>3, FS_CardinalityType
      <4>3. nsteps(e) \in Nat
        BY <4>1 DEF nsteps
      <4> HIDE DEF Far
      <4> QED BY <4>2, <4>3
    <3>3. ToSet(SubSeq(episodes, 1, nEpisodes)) = ToSet(episodes)
      <4>1. episodes \in Seq(Ids) /\ nEpisodes = Len(episodes)
        BY <1>0 DEF Types
      <4>2. SubSeq(episodes, 1, nEpisodes) = episodes
        BY <4>1
      <4> QED BY <4>2
    <3> HIDE DEF Far, C
    <3>4. \A e \in Ids : fracFar[e] \in Int
      BY <1>0 DEF Types
    <3>5. fracFar' \in [Ids -> Int]
      BY <3>1, <3>2, <3>4
    <3>6. \A e \in Ids : e \notin ToSet(episodes) => fracFar'[e] = fracFar[e]
      BY <3>1, <3>3
    <3> QED BY <1>2, <3>1, <3>5, <3>6
  <2>2. CASE ~(step % RecomputeEvery = 0)
    <3>1. CmaxCounted' = CmaxCounted /\ fracFar' = fracFar
      BY <2>2 DEF updateTrainingStatistics
    <3> QED BY <1>0, <3>1 DEF Types
  <2> QED BY <2>1, <2>2
<1> HIDE DEF C
<1>4. Types'
  <2>1. <<1, 1>> \in Ids \X Nat /\ 1 \in Nat
    BY ReplayAssumption DEF Ids
  <2>2. drawn' \in [Batch -> Nat] /\ batch' \in [Batch -> Ids \X Nat]
    BY <1>1, <2>1
  <2> QED BY <1>0, <1>1, <1>2, <1>3, <2>2 DEF Types, pushVars, setVars, trainVars
<1>5. SetInv'
  BY <1>0, <1>1, <1>3, SetStays DEF pushVars, setVars
<1>6. StepInv'
  <2>1. nGradSteps < MaxSteps
    BY <1>0, <1>1 DEF StepInv
  <2>2. \A b \in Batch : tpc[b] = "done"
    BY DEF updateTrainingStatistics
  <2> QED BY <1>1, <2>1, <2>2 DEF StepInv, trainVars
<1>7. SamplerInv' /\ BatchInv'
  <2>1. nSeqs' = 0 /\ nEpisodes' \in Nat
    BY <1>0, <1>1, SetFacts DEF SamplerInv, setVars
  <2> QED BY <1>1, <2>1 DEF SamplerInv, BatchInv, Ready
<1> QED BY <1>4, <1>5, <1>6, <1>7 DEF DrawInv

------------------------------------------------------------------------------
(* Removing episodes                                                       *)

\* What is kept of an order s of the episodes: the first m of them, as many as it takes.
Keeps(s, m) ==
  /\ s \in Seq(Ids) /\ IsInjective(s) /\ ToSet(s) = ToSet(episodes)
  /\ m \in 0 .. Len(s) /\ Kept(s) \in Seq(Ids) /\ Len(Kept(s)) = m /\ IsInjective(Kept(s))
  /\ \A k \in 1 .. m : Kept(s)[k] = s[k]
  /\ \A x : x \in ToSet(Kept(s)) <=> \E k \in 1 .. m : s[k] = x
  /\ \A j \in 0 .. Len(s) : j = 0 \/ Total(s, j) - nsteps(s[j]) <= maxTotObs => j <= m

LEMMA KeptIs ==
  ASSUME Types, SetInv, NEW s \in SetToSeqs(ToSet(episodes))
  PROVE  \E m : Keeps(s, m)
<1>1. /\ ToSet(episodes) \in SUBSET Ids /\ IsFiniteSet(ToSet(episodes))
  <2>1. ToSet(episodes) \in SUBSET Ids
    BY SetFacts
  <2>2. IsFiniteSet(Ids)
    <3>1. 1 \in Int /\ MaxEpisodes \in Int
      BY ReplayAssumption
    <3> QED BY <3>1, FS_Interval DEF Ids
  <2> QED BY <2>1, <2>2, FS_Subset
<1>2. s \in Seq(ToSet(episodes)) /\ IsInjective(s) /\ ToSet(s) = ToSet(episodes)
  BY <1>1, OrdersCover
<1>3. s \in Seq(Ids) /\ Len(s) \in Nat /\ \A k \in 1 .. Len(s) : s[k] \in Ids
  <2>1. Len(s) \in Nat /\ s \in [1 .. Len(s) -> ToSet(episodes)]
    BY <1>2
  <2>2. s \in [1 .. Len(s) -> Ids]
    BY <1>1, <2>1
  <2> QED BY <2>1, <2>2
<1> DEFINE S == {m \in 0 .. Len(s) : m = 0 \/ Total(s, m) - nsteps(s[m]) <= maxTotObs}
           m == Max(S)
           K == SubSeq(s, 1, m)
<1>4. m \in S /\ \A j \in S : j <= m
  <2>1. S \in SUBSET (0 .. Len(s)) /\ 0 \in S
    BY <1>3
  <2> HIDE DEF S
  <2> QED BY <1>3, <2>1, MaxIs
<1>5. m \in 0 .. Len(s) /\ \A j \in 0 .. Len(s) : j = 0 \/ Total(s, j) - nsteps(s[j]) <= maxTotObs => j <= m
  BY <1>4
<1> HIDE DEF m
<1>6. K \in Seq(Ids) /\ Len(K) = m /\ \A k \in 1 .. m : K[k] = s[k]
  BY <1>3, <1>5
<1>7. Kept(s) = K
  BY DEF Kept, m
<1> HIDE DEF K
<1>8. IsInjective(K)
  <2> SUFFICES ASSUME NEW i \in 1 .. m, NEW j \in 1 .. m, K[i] = K[j] PROVE i = j
    BY <1>6 DEF IsInjective
  <2>1. i \in DOMAIN s /\ j \in DOMAIN s /\ s[i] = s[j]
    BY <1>3, <1>5, <1>6
  <2> QED BY <1>2, <2>1 DEF IsInjective
<1>9. \A x : x \in ToSet(K) <=> \E k \in 1 .. m : s[k] = x
  <2>1. DOMAIN K = 1 .. m
    BY <1>6
  <2>2. \A x : x \in ToSet(K) <=> \E k \in 1 .. m : K[k] = x
    BY <2>1 DEF ToSet
  <2> QED BY <1>6, <2>2
<1>10. Keeps(s, m)
  BY <1>2, <1>3, <1>5, <1>6, <1>7, <1>8, <1>9 DEF Keeps
<1> QED BY <1>10

\* The step, in these terms.
Removes(s, m) ==
  /\ Keeps(s, m) /\ mutex = {}
  /\ episodes' = Kept(s) /\ nEpisodes' = m
  /\ nTransitions' = SumUpTo(ndata, s, m)
  /\ \A e \in Ids : /\ ndata'[e] = IF e \in ToSet(Kept(s)) THEN ndata[e] ELSE 0
                    /\ fracFar'[e] = IF e \in ToSet(Kept(s)) THEN fracFar[e] ELSE 0
                    /\ offPolicImpW'[e] \in [1 .. ndata'[e] -> Levels]
                    /\ e \in ToSet(Kept(s)) => offPolicImpW'[e] = offPolicImpW[e]
  /\ ndata' \in [Ids -> 0 .. MaxLen] /\ stamp' \in [Ids -> 0 .. MaxEpisodes]
  /\ offPolicImpW' = [e \in Ids |-> offPolicImpW'[e]] /\ fracFar' \in [Ids -> Int]

LEMMA RemovalIs ==
  ASSUME Types, SetInv, applyEpisodesRemovalAlgo
  PROVE  \E s : \E m : Removes(s, m)
<1>1. PICK s \in SetToSeqs(ToSet(episodes)) :
       /\ episodes' = Kept(s)
       /\ nEpisodes' = Len(Kept(s)) /\ nTransitions' = Total(s, Len(Kept(s)))
       /\ LET gone == ToSet(s) \ ToSet(Kept(s)) IN
          /\ ndata'   = [e \in Ids |-> IF e \in gone THEN 0 ELSE ndata[e]]
          /\ stamp'   = [e \in Ids |-> IF e \in gone THEN 0 ELSE stamp[e]]
          /\ fracFar' = [e \in Ids |-> IF e \in gone THEN 0 ELSE fracFar[e]]
          /\ offPolicImpW' = [e \in Ids |-> IF e \in gone THEN <<>> ELSE offPolicImpW[e]]
  BY DEF applyEpisodesRemovalAlgo
<1>2. PICK m : Keeps(s, m)
  BY KeptIs
<1> DEFINE gone == ToSet(s) \ ToSet(Kept(s))
<1>3. /\ ToSet(s) = ToSet(episodes) /\ Len(Kept(s)) = m
      /\ \A e : e \in ToSet(Kept(s)) => e \in ToSet(episodes)
  <2>1. s \in Seq(Ids) /\ m \in 0 .. Len(s)
    BY <1>2 DEF Keeps
  <2>2. \A k \in 1 .. m : s[k] \in ToSet(s)
    <3>1. \A k \in 1 .. m : k \in DOMAIN s
      BY <2>1
    <3> QED BY <3>1 DEF ToSet
  <2> QED BY <1>2, <2>2 DEF Keeps
<1>4. \A e \in Ids : e \notin ToSet(episodes) => ndata[e] = 0 /\ fracFar[e] = 0
  BY DEF SetInv
<1>5. /\ ndata \in [Ids -> 0 .. MaxLen] /\ stamp \in [Ids -> 0 .. MaxEpisodes]
      /\ fracFar \in [Ids -> Int]
      /\ \A e \in Ids : offPolicImpW[e] \in [1 .. ndata[e] -> Levels]
      /\ MaxLen \in Nat /\ MaxEpisodes \in Nat
  BY ReplayAssumption DEF Types
<1>6. \A e : e \in gone <=> e \in ToSet(episodes) /\ e \notin ToSet(Kept(s))
  BY <1>3
<1>7. /\ ndata'   = [e \in Ids |-> IF e \in gone THEN 0 ELSE ndata[e]]
      /\ stamp'   = [e \in Ids |-> IF e \in gone THEN 0 ELSE stamp[e]]
      /\ fracFar' = [e \in Ids |-> IF e \in gone THEN 0 ELSE fracFar[e]]
      /\ offPolicImpW' = [e \in Ids |-> IF e \in gone THEN <<>> ELSE offPolicImpW[e]]
  BY <1>1
<1> HIDE DEF gone
<1>8. 0 \in 0 .. MaxLen /\ 0 \in 0 .. MaxEpisodes /\ 0 \in Int
  BY <1>5
<1>9. /\ ndata' \in [Ids -> 0 .. MaxLen] /\ stamp' \in [Ids -> 0 .. MaxEpisodes]
      /\ fracFar' \in [Ids -> Int]
  BY <1>5, <1>7, <1>8
<1>10. offPolicImpW' = [e \in Ids |-> offPolicImpW'[e]]
  BY <1>7
<1>11. ASSUME NEW e \in Ids
       PROVE  /\ ndata'[e] = IF e \in ToSet(Kept(s)) THEN ndata[e] ELSE 0
              /\ fracFar'[e] = IF e \in ToSet(Kept(s)) THEN fracFar[e] ELSE 0
              /\ offPolicImpW'[e] \in [1 .. ndata'[e] -> Levels]
              /\ e \in ToSet(Kept(s)) => offPolicImpW'[e] = offPolicImpW[e]
  <2>1. CASE e \in gone
    <3>1. ndata'[e] = 0 /\ fracFar'[e] = 0 /\ offPolicImpW'[e] = <<>> /\ e \notin ToSet(Kept(s))
      BY <1>6, <1>7, <2>1
    <3>2. <<>> \in [1 .. 0 -> Levels]
      <4>1. <<>> \in Seq(Levels) /\ Len(<<>>) = 0
        OBVIOUS
      <4> QED BY <4>1
    <3> QED BY <3>1, <3>2
  <2>2. CASE e \notin gone
    <3>1. ndata'[e] = ndata[e] /\ fracFar'[e] = fracFar[e] /\ offPolicImpW'[e] = offPolicImpW[e]
      BY <1>7, <2>2
    <3>2. e \notin ToSet(Kept(s)) => ndata[e] = 0 /\ fracFar[e] = 0
      BY <1>4, <1>6, <2>2
    <3> QED BY <1>5, <3>1, <3>2
  <2> QED BY <2>1, <2>2
<1>12. nTransitions' = SumUpTo(ndata, s, m) /\ episodes' = Kept(s) /\ nEpisodes' = m /\ mutex = {}
  <2>1. Total(s, m) = SumUpTo(ndata, s, m)
    BY TotalIsSum
  <2> QED BY <1>1, <1>3, <2>1 DEF applyEpisodesRemovalAlgo, datasetFree
<1>13. Removes(s, m)
  BY <1>2, <1>9, <1>10, <1>11, <1>12 DEF Removes
<1> QED BY <1>13

LEMMA RemovalDraws ==
  ASSUME DrawInv, applyEpisodesRemovalAlgo
  PROVE  DrawInv'
<1>0. Types /\ SetInv /\ StepInv /\ SamplerInv
  BY DEF DrawInv
<1>1. PICK s : \E m : Removes(s, m)
  BY <1>0, RemovalIs
<1>2. PICK m : Removes(s, m)
  BY <1>1
<1>3. /\ mpc = "remove" /\ mpc' = "prepare"
      /\ UNCHANGED <<setup, pushVars, mutex, drawVars, trainVars, statVars>>
  BY DEF applyEpisodesRemovalAlgo, MainGoto, AfterRemoval
<1>4. Keeps(s, m)
  BY <1>2 DEF Removes
<1>5. Types'
  <2>1. episodes' \in Seq(Ids) /\ IsInjective(episodes') /\ nEpisodes' = Len(episodes')
    BY <1>2, <1>4 DEF Removes, Keeps
  <2>2. /\ ndata' \in [Ids -> 0 .. MaxLen] /\ stamp' \in [Ids -> 0 .. MaxEpisodes]
        /\ offPolicImpW' = [e \in Ids |-> offPolicImpW'[e]] /\ fracFar' \in [Ids -> Int]
        /\ \A e \in Ids : offPolicImpW'[e] \in [1 .. ndata'[e] -> Levels]
    BY <1>2 DEF Removes
  <2> QED BY <1>0, <1>3, <2>1, <2>2 DEF Types, pushVars, drawVars, trainVars, statVars
<1>6. SetInv'
  <2>1. \A k \in 1 .. m : /\ episodes'[k] = s[k] /\ s[k] \in ToSet(Kept(s)) /\ s[k] \in Ids
                          /\ s[k] \in ToSet(episodes)
    <3> TAKE k \in 1 .. m
    <3>1. episodes'[k] = s[k] /\ s[k] \in ToSet(Kept(s))
      BY <1>2, <1>4 DEF Removes, Keeps
    <3>2. k \in DOMAIN s /\ s[k] \in Ids
      BY <1>4 DEF Keeps
    <3>3. s[k] \in ToSet(episodes)
      BY <1>4, <3>2 DEF Keeps, ToSet
    <3> QED BY <3>1, <3>2, <3>3
  <2>2. \A k \in 1 .. nEpisodes' : episodes'[k] <= nBegun' /\ ndata'[episodes'[k]] > 0
    <3> TAKE k \in 1 .. nEpisodes'
    <3>1. k \in 1 .. m
      BY <1>2 DEF Removes
    <3>2. ndata'[s[k]] = ndata[s[k]] /\ nBegun' = nBegun
      BY <1>2, <1>3, <2>1, <3>1 DEF Removes, pushVars
    <3>3. PICK j \in 1 .. nEpisodes : episodes[j] = s[k]
      BY <1>0, <2>1, <3>1, SetFacts
    <3>4. episodes[j] <= nBegun /\ ndata[episodes[j]] > 0
      BY <1>0 DEF SetInv
    <3> QED BY <2>1, <3>1, <3>2, <3>3, <3>4
  <2>3. \A e \in Ids : e \notin ToSet(episodes)' => ndata'[e] = 0 /\ fracFar'[e] = 0
    <3>1. ToSet(episodes)' = ToSet(Kept(s))
      BY <1>2 DEF Removes
    <3> QED BY <1>2, <3>1 DEF Removes
  <2>4. nTransitions' = Sum(nEpisodes)'
    <3>1. \A k \in 1 .. m : episodes'[k] = s[k] /\ ndata'[episodes'[k]] = ndata[s[k]]
      BY <1>2, <2>1 DEF Removes
    <3>2. SumUpTo(ndata', episodes', m) = SumUpTo(ndata, s, m)
      BY <3>1, SameEpisodes
    <3>3. nEpisodes' = m /\ nTransitions' = SumUpTo(ndata, s, m)
      BY <1>2 DEF Removes
    <3> QED BY <3>2, <3>3 DEF Sum
  <2>5. mutex' = {}
    BY <1>2, <1>3 DEF Removes
  <2>6. \A p \in Pushers : ppc'[p] = "count" <=> p \in mutex'
    BY <1>0, <1>3 DEF SetInv, pushVars
  <2> QED BY <2>2, <2>3, <2>4, <2>5, <2>6 DEF SetInv
<1>7. StepInv'
  BY <1>0, <1>3 DEF StepInv, trainVars, statVars
<1>8. SamplerInv' /\ BatchInv'
  <2>1. nSeqs' = 0
    BY <1>0, <1>3 DEF SamplerInv, drawVars
  <2>2. nEpisodes' \in Nat
    BY <1>2, <1>4 DEF Removes, Keeps
  <2> QED BY <1>3, <2>1, <2>2 DEF SamplerInv, BatchInv, Ready
<1> QED BY <1>5, <1>6, <1>7, <1>8 DEF DrawInv

LEMMA NextDraws ==
  ASSUME DrawInv, [Next]_vars
  PROVE  DrawInv'
<1>1. CASE \E p \in Pushers : Push(p)
  BY <1>1, PushDraws
<1>2. CASE stepInit \/ prepare \/ fill \/ sample \/ stepComplete
  BY <1>2, MainSets, PrepareSampler DEF DrawInv
<1>3. CASE draw
  BY <1>3, DrawDraws
<1>4. CASE updateTrainingStatistics
  BY <1>4, StatisticsDraw
<1>5. CASE applyEpisodesRemovalAlgo
  BY <1>5, RemovalDraws
<1>6. CASE \E b \in Batch : Train(b)
  BY <1>6, TrainDraws
<1>7. CASE UNCHANGED vars
  <2>1. UNCHANGED <<setup, ppc, nBegun, ndata, stamp, offPolicImpW, fracFar, episodes, nEpisodes,
                    nTransitions, mutex, mpc, nSeqs, nData, dist, drawn, batch, tpc, wasFarPol,
                    CmaxRet, CmaxCounted, nGradSteps>>
    BY <1>7 DEF vars, pushVars, epsVars, setVars, drawVars, trainVars, statVars
  <2>2. Types' /\ StepInv'
    BY <2>1 DEF DrawInv, Types, StepInv
  <2>3. SetInv' /\ SamplerInv' /\ BatchInv'
    BY <2>1 DEF DrawInv, SetInv, SamplerInv, BatchInv, Sum, Steps, Ready, algo, bOverSteps,
                bSampleEpisodes
  <2> QED BY <2>2, <2>3 DEF DrawInv
<1> QED BY <1>1, <1>2, <1>3, <1>4, <1>5, <1>6, <1>7 DEF Next, Main

\* The invariant holds in every state.
THEOREM DrawsInductive == Spec => []DrawInv
<1> QED BY InitDraws, NextDraws, PTL DEF Spec

\* The variables have their types, and the counters are those of the vector unless an
\* episode is being pushed (MemoryBuffer.cpp, pushBackEpisode and removeBackEpisode).
THEOREM TypeCorrect == Spec => []TypeOK
<1>1. DrawInv => TypeOK
  <2> HAVE DrawInv
  <2>1. Types /\ SetInv
    BY DEF DrawInv
  <2>2. mutex = {} => nTransitions = Total(episodes, nEpisodes)
    BY <2>1, TotalIsSum DEF SetInv, Sum
  <2>3. \A e \in Ids : fracFar[e] \in Int
    BY <2>1 DEF Types
  <2> QED BY <2>1, <2>2, <2>3 DEF Types, TypeOK
<1> QED BY <1>1, DrawsInductive, PTL

\* Every sample is a step of an episode of the data set, the one that its index stands
\* for, and no step is sampled twice, whatever is pushed between the reads of the
\* counters and the search (Sampling.cpp, IDtoSeqStep and the samplers).
THEOREM SamplesExistHolds == Spec => []SamplesExist
<1>1. DrawInv => SamplesExist
  <2> SUFFICES ASSUME DrawInv, mpc = "train" PROVE SamplesExist
    BY DEF SamplesExist
  <2>1. Types /\ SetInv /\ BatchInv
    BY DEF DrawInv
  <2>2. Cardinality(ToSet(batch)) = BatchSize
    <3>1. BatchSize \in Nat /\ DOMAIN batch = 1 .. BatchSize /\ IsInjective(batch)
      BY <2>1, ReplayAssumption DEF Types, BatchInv, Batch
    <3> QED BY <3>1, AsMany
  <2>3. algo # "PERseq" /\ ~bSampleEpisodes =>
          \A b \in Batch : drawn[b] <= Total(episodes, nEpisodes)
    <3> HAVE algo # "PERseq" /\ ~bSampleEpisodes
    <3>1. \A b \in Batch : drawn[b] \in 1 .. Sum(nEpisodes)
      BY <2>1 DEF BatchInv
    <3>2. Total(episodes, nEpisodes) = Sum(nEpisodes)
      BY TotalIsSum DEF Sum
    <3>3. nEpisodes \in 0 .. nEpisodes
      BY <2>1, SetFacts
    <3>4. Sum(nEpisodes) \in Nat
      BY <2>1, <3>3, SetFacts
    <3> QED BY <3>1, <3>2, <3>4
  <2> QED BY <2>1, <2>2, <2>3 DEF SamplesExist, BatchInv
<1> QED BY <1>1, DrawsInductive, PTL

\* A step is drawn with the weight that prepare() has computed for it: pushes since then
\* have only made the vector longer, and it is prepared again after every removal
\* (Sampling.cpp, prepare; MemoryProcessing.cpp, applyEpisodesRemovalAlgo).
THEOREM PriorityOfDrawnHolds == Spec => []PriorityOfDrawn
<1>1. DrawInv => PriorityOfDrawn
  <2> SUFFICES ASSUME DrawInv, mpc = "train", algo # "uniform",
                      NEW b \in Batch, drawn[b] <= Len(dist.at)
               PROVE  IF bOverSteps THEN batch[b] = dist.at[drawn[b]]
                      ELSE batch[b][1] = dist.at[drawn[b]][1]
    BY DEF PriorityOfDrawn
  <2>1. Types /\ SetInv /\ SamplerInv /\ BatchInv /\ Ready
        /\ algo \in {"uniform", "PERrank", "PERerr", "PERseq"} /\ (bSampleEpisodes => ~bOverSteps)
    BY SetupFacts DEF DrawInv, Ready
  <2>2. drawn[b] \in Nat /\ Len(dist.at) \in Nat /\ dist.n \in Nat
    BY <2>1 DEF Types
  <2>3. CASE bOverSteps
    <3>1. algo # "PERseq" /\ ~bSampleEpisodes
      BY <2>1, <2>3 DEF bOverSteps
    <3>2. drawn[b] \in 1 .. Sum(nEpisodes) /\ batch[b] = Steps(nEpisodes)[drawn[b]]
      BY <2>1, <3>1 DEF BatchInv
    <3>3. \A i \in 1 .. Len(dist.at) : dist.at[i] = Steps(nEpisodes)[i]
      BY <2>1, <2>3 DEF SamplerInv
    <3>4. drawn[b] \in 1 .. Len(dist.at)
      BY <2>2, <3>2
    <3> QED BY <2>3, <3>2, <3>3, <3>4
  <2>4. CASE ~bOverSteps
    <3>1. algo = "PERseq"
      BY <2>1, <2>4 DEF bOverSteps
    <3>2. drawn[b] \in 1 .. nEpisodes /\ batch[b][1] = episodes[drawn[b]]
      BY <2>1, <3>1 DEF BatchInv
    <3>3. Len(dist.at) = dist.n /\ \A k \in 1 .. dist.n : dist.at[k] = <<episodes[k], 1>>
      BY <2>1, <3>1 DEF SamplerInv
    <3>4. drawn[b] \in 1 .. dist.n
      BY <2>2, <3>2, <3>3
    <3> QED BY <2>4, <3>2, <3>3, <3>4
  <2> QED BY <2>3, <2>4
<1> QED BY <1>1, DrawsInductive, PTL

------------------------------------------------------------------------------
(* Far-policy steps                                                        *)

\* Steps of n, of weights w, that are far-policy for C, and how near a count is.
FarOf(n, w, C) == Cardinality({t \in 1 .. n : w[t] > C})
NearOf(n, w, C, f, steps) ==
  IF steps + 1 < RecomputeEvery THEN f = n * FarOf(n, w, C)
  ELSE f \in n * FarOf(n, w, C) .. n * FarOf(n, w, C) + n

\* What the training threads keep: the counts are near those of the weights as long as
\* CmaxRet is what they were computed with, and what a thread has read of the weight that
\* it will change is still true.
FarInv ==
  /\ CmaxRet # ClipFirst => nGradSteps + 1 >= AnnealedAt
  /\ CmaxRet = CmaxCounted \/ CmaxRet = ClipLast
  /\ CmaxRet = CmaxCounted =>
       \A e \in Ids : NearOf(ndata[e], offPolicImpW[e], CmaxRet, fracFar[e], nGradSteps)
  /\ \A b \in Batch : tpc[b] = "update" =>
       wasFarPol[b] = (offPolicImpW[batch[b][1]][batch[b][2]] > CmaxRet)

LEMMA FarBounds ==
  ASSUME NEW n \in Nat, NEW w, NEW C
  PROVE  FarOf(n, w, C) \in Nat /\ FarOf(n, w, C) <= n
<1> DEFINE F == {t \in 1 .. n : w[t] > C}
<1>1. IsFiniteSet(1 .. n) /\ Cardinality(1 .. n) = n
  <2>1. 1 \in Int /\ n \in Int
    OBVIOUS
  <2>2. IsFiniteSet(1 .. n) /\ Cardinality(1 .. n) = IF 1 > n THEN 0 ELSE n - 1 + 1
    BY <2>1, FS_Interval
  <2> QED BY <2>2
<1>2. F \in SUBSET (1 .. n)
  OBVIOUS
<1> HIDE DEF F
<1>3. IsFiniteSet(F) /\ Cardinality(F) <= n
  BY <1>1, <1>2, FS_Subset
<1>4. Cardinality(F) \in Nat
  BY <1>3, FS_CardinalityType
<1> QED BY <1>3, <1>4 DEF FarOf, F

\* One weight makes a difference of one.
LEMMA FarChanges ==
  ASSUME NEW n \in Nat, NEW w, NEW v, NEW C, NEW t \in 1 .. n, \A u \in 1 .. n : u # t => v[u] = w[u]
  PROVE  FarOf(n, v, C) = FarOf(n, w, C) + (IF v[t] > C THEN 1 ELSE 0) - (IF w[t] > C THEN 1 ELSE 0)
<1> DEFINE A == {u \in 1 .. n : w[u] > C}
           B == {u \in 1 .. n : v[u] > C}
           R == A \ {t}
<1>1. R = B \ {t}
  OBVIOUS
<1>2. (t \in A <=> w[t] > C) /\ (t \in B <=> v[t] > C)
  OBVIOUS
<1>3. IsFiniteSet(A) /\ IsFiniteSet(B)
  <2>1. 1 \in Int /\ n \in Int
    OBVIOUS
  <2>2. IsFiniteSet(1 .. n)
    BY <2>1, FS_Interval
  <2>3. A \in SUBSET (1 .. n) /\ B \in SUBSET (1 .. n)
    OBVIOUS
  <2> HIDE DEF A, B
  <2> QED BY <2>2, <2>3, FS_Subset
<1>a. FarOf(n, v, C) = Cardinality(B) /\ FarOf(n, w, C) = Cardinality(A)
  BY DEF FarOf
<1> HIDE DEF A, B, R
<1>4. /\ Cardinality(R) = IF t \in A THEN Cardinality(A) - 1 ELSE Cardinality(A)
      /\ Cardinality(R) = IF t \in B THEN Cardinality(B) - 1 ELSE Cardinality(B)
  <2>1. Cardinality(A \ {t}) = IF t \in A THEN Cardinality(A) - 1 ELSE Cardinality(A)
    BY <1>3, FS_RemoveElement
  <2>2. Cardinality(B \ {t}) = IF t \in B THEN Cardinality(B) - 1 ELSE Cardinality(B)
    BY <1>3, FS_RemoveElement
  <2> QED BY <1>1, <2>1, <2>2 DEF R
<1>5. Cardinality(A) \in Nat /\ Cardinality(B) \in Nat
  BY <1>3, FS_CardinalityType
<1>6. Cardinality(B) = Cardinality(A) + (IF t \in B THEN 1 ELSE 0) - (IF t \in A THEN 1 ELSE 0)
  BY <1>4, <1>5
<1> QED BY <1>2, <1>6, <1>a

\* In an episode of no steps, or of new ones, none is far-policy.
LEMMA NoneFar ==
  ASSUME NEW n \in Nat, NEW w, NEW C \in Nat, \A t \in 1 .. n : w[t] <= C /\ w[t] \in Nat,
         NEW steps
  PROVE  NearOf(n, w, C, 0, steps)
<1>1. {t \in 1 .. n : w[t] > C} = {}
  OBVIOUS
<1>2. FarOf(n, w, C) = 0
  BY <1>1, FS_EmptySet DEF FarOf
<1>3. n * 0 = 0 /\ 0 \in 0 .. 0 + n
  OBVIOUS
<1> QED BY <1>2, <1>3 DEF NearOf

\* Near stays near for the steps that follow.
LEMMA NearLater ==
  ASSUME NEW n \in Nat, NEW w, NEW C, NEW f, NEW steps \in Nat, NearOf(n, w, C, f, steps)
  PROVE  NearOf(n, w, C, f, steps + 1)
<1> DEFINE c == n * FarOf(n, w, C)
<1>1. c \in Nat
  BY FarBounds
<1>2. IF steps + 1 < RecomputeEvery THEN f = c ELSE f \in c .. c + n
  BY DEF NearOf
<1> HIDE DEF c
<1>3. RecomputeEvery \in Nat
  BY ReplayAssumption
<1>4. IF (steps + 1) + 1 < RecomputeEvery THEN f = c ELSE f \in c .. c + n
  BY <1>1, <1>2, <1>3
<1> QED BY <1>4 DEF NearOf, c

LEMMA ClipFacts ==
  ASSUME Types
  PROVE  /\ ClipFirst \in Nat /\ ClipLast \in Nat /\ ClipFirst >= 1 /\ ClipLast >= 1
         /\ CmaxRet \in Nat /\ CmaxRet >= 1 /\ CmaxCounted \in Nat
         /\ nGradSteps \in Nat /\ AnnealedAt \in Nat /\ RecomputeEvery \in Nat \ {0}
         /\ Levels \subseteq Nat
<1>1. ClipFirst \in Nat /\ ClipFirst >= 1 /\ ClipLast \in 1 .. ClipFirst
      /\ AnnealedAt \in Nat /\ RecomputeEvery \in Nat \ {0} /\ Levels \subseteq Nat /\ MaxSteps \in Nat
  BY ReplayAssumption
<1>2. ClipLast \in Nat /\ ClipLast >= 1
  BY <1>1
<1>3. CmaxRet \in {ClipFirst, ClipLast} /\ CmaxCounted \in {ClipFirst, ClipLast}
      /\ nGradSteps \in 0 .. MaxSteps
  BY DEF Types
<1> QED BY <1>1, <1>2, <1>3

LEMMA InitFar == Init => FarInv
<1> HAVE Init
<1>1. Types /\ ndata = [e \in Ids |-> 0] /\ fracFar = [e \in Ids |-> 0]
      /\ CmaxRet = ClipFirst /\ CmaxCounted = ClipFirst /\ \A b \in Batch : tpc[b] = "idle"
  BY InitDraws DEF Init, DrawInv
<1>2. \A e \in Ids : NearOf(ndata[e], offPolicImpW[e], CmaxRet, fracFar[e], nGradSteps)
  <2> TAKE e \in Ids
  <2>1. ndata[e] = 0 /\ fracFar[e] = 0
    BY <1>1
  <2>2. NearOf(0, offPolicImpW[e], CmaxRet, 0, nGradSteps)
    <3>1. 0 \in Nat /\ CmaxRet \in Nat
      BY <1>1, ClipFacts
    <3>2. \A t \in 1 .. 0 : offPolicImpW[e][t] <= CmaxRet /\ offPolicImpW[e][t] \in Nat
      OBVIOUS
    <3> QED BY <3>1, <3>2, NoneFar
  <2> QED BY <2>1, <2>2
<1> QED BY <1>1, <1>2 DEF FarInv

\* Nothing is pushed, trained or removed.
LEMMA FarStays ==
  ASSUME Types, SetInv, FarInv,
         UNCHANGED <<ndata, offPolicImpW, fracFar, CmaxRet, CmaxCounted>>,
         nGradSteps' \in {nGradSteps, nGradSteps + 1},
         \A b \in Batch : tpc'[b] = "update" =>
           tpc[b] = "update" /\ batch'[b] = batch[b] /\ wasFarPol'[b] = wasFarPol[b]
  PROVE  FarInv'
<1>1. nGradSteps \in Nat /\ AnnealedAt \in Nat
  BY ClipFacts
<1>2. CmaxRet' # ClipFirst => nGradSteps' + 1 >= AnnealedAt
  <2>1. CmaxRet # ClipFirst => nGradSteps + 1 >= AnnealedAt
    BY DEF FarInv
  <2>2. CmaxRet' = CmaxRet
    OBVIOUS
  <2>3. nGradSteps' \in Nat /\ nGradSteps' >= nGradSteps
    BY <1>1
  <2> HAVE CmaxRet' # ClipFirst
  <2>4. nGradSteps + 1 >= AnnealedAt
    BY <2>1, <2>2
  <2> DEFINE now == nGradSteps
             later == nGradSteps'
  <2>5. now \in Nat /\ later \in Nat /\ AnnealedAt \in Nat /\ now <= later /\ now + 1 >= AnnealedAt
    BY <1>1, <2>3, <2>4
  <2> HIDE DEF now, later
  <2>6. later + 1 >= AnnealedAt
    BY ONLY <2>5
  <2> QED BY <2>6 DEF later
<1>3. CmaxRet' = CmaxCounted' =>
        \A e \in Ids : NearOf(ndata'[e], offPolicImpW'[e], CmaxRet', fracFar'[e], nGradSteps')
  <2> HAVE CmaxRet' = CmaxCounted'
  <2> TAKE e \in Ids
  <2>1. NearOf(ndata[e], offPolicImpW[e], CmaxRet, fracFar[e], nGradSteps)
    BY DEF FarInv
  <2>2. ndata[e] \in Nat
    BY SetFacts
  <2>3. NearOf(ndata[e], offPolicImpW[e], CmaxRet, fracFar[e], nGradSteps + 1)
    BY <1>1, <2>1, <2>2, NearLater
  <2> QED BY <2>1, <2>3
<1> QED BY <1>2, <1>3 DEF FarInv

LEMMA PushFar ==
  ASSUME DrawInv, FarInv, NEW p \in Pushers, pushBackEpisode(p)
  PROVE  FarInv'
<1> DEFINE x == nBegun + 1
<1>0. Types /\ SetInv /\ StepInv /\ BatchInv
  BY DEF DrawInv
<1>1. Pushes(p)
  BY <1>0, PushAdds
<1>2. PICK n \in 1 .. MaxLen :
        /\ ndata' = [ndata EXCEPT ![x] = n]
        /\ offPolicImpW' = [offPolicImpW EXCEPT ![x] = [t \in 1 .. n |-> 1]]
  BY DEF pushBackEpisode
<1>3. /\ fracFar' = fracFar /\ CmaxRet' = CmaxRet /\ CmaxCounted' = CmaxCounted
      /\ nGradSteps' = nGradSteps /\ tpc' = tpc /\ wasFarPol' = wasFarPol /\ batch' = batch
  BY DEF pushBackEpisode, drawVars, trainVars, statVars
<1>4. x \in Ids /\ x \notin ToSet(episodes)
  BY <1>1 DEF Pushes
<1>5. \A e \in Ids : e # x => offPolicImpW'[e] = offPolicImpW[e] /\ ndata'[e] = ndata[e]
  BY <1>0, <1>2 DEF Types
<1>6. ASSUME CmaxRet' = CmaxCounted', NEW e \in Ids
      PROVE  NearOf(ndata'[e], offPolicImpW'[e], CmaxRet', fracFar'[e], nGradSteps')
  <2>1. CASE e = x
    <3>1. ndata'[x] = n /\ offPolicImpW'[x] = [t \in 1 .. n |-> 1] /\ fracFar'[x] = 0
      BY <1>0, <1>2, <1>3, <1>4 DEF Types, SetInv
    <3>2. n \in Nat /\ CmaxRet \in Nat /\ CmaxRet >= 1
      BY <1>0, ClipFacts
    <3>3. \A t \in 1 .. n : offPolicImpW'[x][t] <= CmaxRet /\ offPolicImpW'[x][t] \in Nat
      BY <3>1, <3>2
    <3>4. NearOf(n, offPolicImpW'[x], CmaxRet, 0, nGradSteps)
      BY <3>2, <3>3, NoneFar
    <3> QED BY <1>3, <2>1, <3>1, <3>4
  <2>2. CASE e # x
    <3>1. NearOf(ndata[e], offPolicImpW[e], CmaxRet, fracFar[e], nGradSteps)
      BY <1>3, <1>6 DEF FarInv
    <3> QED BY <1>3, <1>5, <2>2, <3>1
  <2> QED BY <2>1, <2>2
<1>7. ASSUME NEW b \in Batch, tpc'[b] = "update"
      PROVE  wasFarPol'[b] = (offPolicImpW'[batch'[b][1]][batch'[b][2]] > CmaxRet')
  <2>1. mpc = "train"
    BY <1>0, <1>3, <1>7 DEF StepInv
  <2>2. batch[b][1] \in ToSet(episodes) /\ batch[b][1] \in Ids
    BY <1>0, <2>1 DEF BatchInv, Types
  <2>3. offPolicImpW'[batch[b][1]] = offPolicImpW[batch[b][1]]
    BY <1>4, <1>5, <2>2
  <2>4. wasFarPol[b] = (offPolicImpW[batch[b][1]][batch[b][2]] > CmaxRet)
    BY <1>3, <1>7 DEF FarInv
  <2> QED BY <1>3, <2>3, <2>4
<1>8. (CmaxRet' # ClipFirst => nGradSteps' + 1 >= AnnealedAt) /\ (CmaxRet' = CmaxCounted' \/ CmaxRet' = ClipLast)
  BY <1>3 DEF FarInv
<1> QED BY <1>6, <1>7, <1>8 DEF FarInv

LEMMA ReadFar ==
  ASSUME DrawInv, FarInv, NEW b \in Batch, readImpW(b)
  PROVE  FarInv'
<1>0. Types
  BY DEF DrawInv
<1>1. /\ tpc' = [tpc EXCEPT ![b] = "update"]
      /\ wasFarPol' = [wasFarPol EXCEPT ![b] = isFar(offPolicImpW[batch[b][1]][batch[b][2]])]
      /\ UNCHANGED <<ndata, offPolicImpW, fracFar, batch, CmaxRet, CmaxCounted, nGradSteps>>
  BY DEF readImpW, ThreadGoto, drawVars, statVars
<1>2. ASSUME NEW a \in Batch, tpc'[a] = "update"
      PROVE  wasFarPol'[a] = (offPolicImpW'[batch'[a][1]][batch'[a][2]] > CmaxRet')
  <2>1. CASE a = b
    <3>1. wasFarPol'[b] = isFar(offPolicImpW[batch[b][1]][batch[b][2]])
      BY <1>0, <1>1 DEF Types
    <3> QED BY <1>1, <2>1, <3>1 DEF isFar
  <2>2. CASE a # b
    <3>1. tpc[a] = "update" /\ wasFarPol'[a] = wasFarPol[a]
      BY <1>0, <1>1, <1>2, <2>2 DEF Types
    <3>2. wasFarPol[a] = (offPolicImpW[batch[a][1]][batch[a][2]] > CmaxRet)
      BY <3>1 DEF FarInv
    <3> QED BY <1>1, <3>1, <3>2
  <2> QED BY <2>1, <2>2
<1> QED BY <1>1, <1>2 DEF FarInv

LEMMA UpdateFar ==
  ASSUME DrawInv, FarInv, NEW b \in Batch, updateImpW(b)
  PROVE  FarInv'
<1> DEFINE e == batch[b][1]
           t == batch[b][2]
           w == offPolicImpW[e]
           One(x) == IF x THEN 1 ELSE 0
<1>0. Types /\ SetInv /\ StepInv /\ BatchInv
  BY DEF DrawInv
<1>1. /\ tpc[b] = "update" /\ mpc = "train" /\ tpc' = [tpc EXCEPT ![b] = "done"]
      /\ wasFarPol' = [wasFarPol EXCEPT ![b] = FALSE]
      /\ UNCHANGED <<ndata, batch, CmaxRet, CmaxCounted, nGradSteps>>
  BY DEF updateImpW, ThreadGoto, drawVars, statVars
<1>2. PICK W \in Levels :
        /\ fracFar' = [fracFar EXCEPT ![e] = @ + ndata[e] * (One(isFar(W)) - One(wasFarPol[b]))]
        /\ offPolicImpW' = [offPolicImpW EXCEPT ![e][t] = W]
  BY DEF updateImpW
<1>3. e \in Ids /\ t \in 1 .. ndata[e] /\ ndata[e] \in Nat
  <2>1. e \in ToSet(episodes) /\ t \in 1 .. ndata[e]
    BY <1>0, <1>1 DEF BatchInv
  <2>2. e \in Ids
    BY <1>0 DEF Types
  <2> QED BY <1>0, <2>1, <2>2, SetFacts
<1>4. /\ \A x \in Ids : x # e => offPolicImpW'[x] = offPolicImpW[x] /\ fracFar'[x] = fracFar[x]
      /\ offPolicImpW'[e] = [w EXCEPT ![t] = W]
      /\ fracFar'[e] = fracFar[e] + ndata[e] * (One(isFar(W)) - One(wasFarPol[b]))
  BY <1>0, <1>2, <1>3 DEF Types
<1>5. w \in [1 .. ndata[e] -> Levels] /\ fracFar[e] \in Int
  BY <1>0, <1>3 DEF Types
<1>6. /\ offPolicImpW'[e][t] = W
      /\ \A u \in 1 .. ndata[e] : u # t => offPolicImpW'[e][u] = w[u]
  <2> HIDE DEF w, t
  <2> QED BY <1>3, <1>4, <1>5
<1>7. wasFarPol[b] = (w[t] > CmaxRet)
  BY <1>1 DEF FarInv
<1>8. ASSUME CmaxRet' = CmaxCounted', NEW x \in Ids
      PROVE  NearOf(ndata'[x], offPolicImpW'[x], CmaxRet', fracFar'[x], nGradSteps')
  <2>0. NearOf(ndata[x], offPolicImpW[x], CmaxRet, fracFar[x], nGradSteps)
    BY <1>1, <1>8 DEF FarInv
  <2>1. CASE x # e
    BY <1>1, <1>4, <2>0, <2>1
  <2>2. CASE x = e
    <3> DEFINE n == ndata[e]
               F == FarOf(n, w, CmaxRet)
               G == FarOf(n, offPolicImpW'[e], CmaxRet)
               d == One(W > CmaxRet) - One(w[t] > CmaxRet)
               f == fracFar[e]
    <3>1. F \in Nat /\ G \in Nat /\ n \in Nat /\ f \in Int
      BY <1>3, <1>5, FarBounds
    <3>2. G = F + One(W > CmaxRet) - One(w[t] > CmaxRet)
      <4> HIDE DEF w, t
      <4>1. FarOf(n, offPolicImpW'[e], CmaxRet)
              = FarOf(n, w, CmaxRet) + (IF offPolicImpW'[e][t] > CmaxRet THEN 1 ELSE 0)
                  - (IF w[t] > CmaxRet THEN 1 ELSE 0)
        <5> DEFINE v == offPolicImpW'[e]
        <5>1. n \in Nat /\ t \in 1 .. n /\ \A u \in 1 .. n : u # t => v[u] = w[u]
          BY <1>3, <1>6
        <5> HIDE DEF v, n
        <5>2. FarOf(n, v, CmaxRet) = FarOf(n, w, CmaxRet) + (IF v[t] > CmaxRet THEN 1 ELSE 0)
                                       - (IF w[t] > CmaxRet THEN 1 ELSE 0)
          BY <5>1, FarChanges
        <5> QED BY <5>2 DEF v, n
      <4> QED BY <1>6, <4>1
    <3>3. d \in {0, 1, 0 - 1}
      OBVIOUS
    <3>4. fracFar'[e] = f + n * d
      BY <1>4, <1>7 DEF isFar
    <3>5. One(W > CmaxRet) \in {0, 1} /\ One(w[t] > CmaxRet) \in {0, 1}
      OBVIOUS
    <3> DEFINE c1 == One(W > CmaxRet)
               c2 == One(w[t] > CmaxRet)
    <3>6. d = c1 - c2 /\ G = F + c1 - c2 /\ c1 \in Int /\ c2 \in Int
      BY <3>2, <3>5
    <3>7. NearOf(n, w, CmaxRet, f, nGradSteps)
      BY <2>0, <2>2
    <3>8. IF nGradSteps + 1 < RecomputeEvery THEN f = n * F ELSE f \in n * F .. n * F + n
      BY <3>7 DEF NearOf
    <3> HIDE DEF n, F, G, d, f, c1, c2
    <3>9. G = F + d /\ d \in Int
      BY <3>1, <3>6
    <3>10. n * G = n * F + n * d /\ n * F \in Int /\ n * d \in Int /\ n * G \in Int
      BY <3>1, <3>9
    <3> DEFINE P == n * F
               Q == n * d
               R == n * G
               h == f + Q
    <3>11. P \in Int /\ Q \in Int /\ R = P + Q /\ n \in Int /\ f \in Int
      BY <3>1, <3>10
    <3>12. IF nGradSteps + 1 < RecomputeEvery THEN f = P ELSE f \in P .. P + n
      BY <3>8
    <3> HIDE DEF P, Q, R
    <3>13. IF nGradSteps + 1 < RecomputeEvery THEN h = R ELSE h \in R .. R + n
      BY <3>11, <3>12
    <3>14. NearOf(n, offPolicImpW'[e], CmaxRet, h, nGradSteps)
      BY <3>13 DEF NearOf, R, G
    <3>15. h = fracFar'[e]
      BY <3>4 DEF Q
    <3> QED BY <1>1, <2>2, <3>14, <3>15 DEF n
  <2> QED BY <2>1, <2>2
<1>9. ASSUME NEW a \in Batch, tpc'[a] = "update"
      PROVE  wasFarPol'[a] = (offPolicImpW'[batch'[a][1]][batch'[a][2]] > CmaxRet')
  <2>1. a # b /\ tpc[a] = "update" /\ wasFarPol'[a] = wasFarPol[a]
    BY <1>0, <1>1, <1>9 DEF Types
  <2>2. wasFarPol[a] = (offPolicImpW[batch[a][1]][batch[a][2]] > CmaxRet)
    BY <2>1 DEF FarInv
  <2>3. batch[a] # batch[b]
    <3>1. a \in DOMAIN batch /\ b \in DOMAIN batch /\ IsInjective(batch)
      BY <1>0, <1>1 DEF Types, BatchInv
    <3> QED BY <2>1, <3>1 DEF IsInjective
  <2>4. /\ batch[a][1] \in Ids /\ batch[a][2] \in 1 .. ndata[batch[a][1]]
        /\ batch[a] = <<batch[a][1], batch[a][2]>> /\ batch[b] = <<e, t>>
    <3>1. batch[a] \in Ids \X Nat /\ batch[b] \in Ids \X Nat
      BY <1>0 DEF Types
    <3> QED BY <1>0, <1>1, <3>1 DEF BatchInv
  <2>5. offPolicImpW'[batch[a][1]][batch[a][2]] = offPolicImpW[batch[a][1]][batch[a][2]]
    <3>1. CASE batch[a][1] # e
      BY <1>4, <2>4, <3>1
    <3>2. CASE batch[a][1] = e
      <4>1. batch[a][2] # t
        BY <2>3, <2>4, <3>2
      <4> QED BY <1>6, <2>4, <3>2, <4>1
    <3> QED BY <3>1, <3>2
  <2> QED BY <1>1, <2>1, <2>2, <2>5
<1>10. (CmaxRet' # ClipFirst => nGradSteps' + 1 >= AnnealedAt) /\ (CmaxRet' = CmaxCounted' \/ CmaxRet' = ClipLast)
  BY <1>1 DEF FarInv
<1> QED BY <1>8, <1>9, <1>10 DEF FarInv

\* CmaxRet is annealed, and the counts are computed anew or stay as they are.
LEMMA StatisticsFar ==
  ASSUME DrawInv, FarInv, updateTrainingStatistics
  PROVE  FarInv'
<1> DEFINE step == nGradSteps + 1
           C == IF step < AnnealedAt THEN ClipFirst ELSE ClipLast
<1>0. Types /\ SetInv
  BY DEF DrawInv
<1>1. /\ CmaxRet' = C /\ UNCHANGED <<ndata, offPolicImpW, tpc, nGradSteps>>
      /\ \A b \in Batch : tpc[b] = "done"
  BY DEF updateTrainingStatistics, trainVars
<1>2. nGradSteps \in Nat /\ AnnealedAt \in Nat /\ RecomputeEvery \in Nat \ {0} /\ C \in Nat
  BY <1>0, ClipFacts
<1>3. C # ClipFirst => step >= AnnealedAt
  BY <1>2
<1>4. C # ClipLast => CmaxRet = C /\ C = CmaxCounted
  <2> HAVE C # ClipLast
  <2>1. C = ClipFirst /\ ClipFirst # ClipLast /\ ~(step >= AnnealedAt)
    BY <1>2
  <2>2. CmaxRet = ClipFirst
    BY <2>1 DEF FarInv
  <2> QED BY <2>1, <2>2 DEF FarInv
<1> HIDE DEF C
<1>5. /\ CmaxRet' = CmaxCounted' \/ CmaxRet' = ClipLast
      /\ CmaxRet' = CmaxCounted' =>
           \A e \in Ids : NearOf(ndata[e], offPolicImpW[e], C, fracFar'[e], nGradSteps)
  <2>1. CASE step % RecomputeEvery = 0
    <3>1. /\ CmaxCounted' = C
          /\ fracFar' = [e \in Ids |-> IF e \in ToSet(SubSeq(episodes, 1, nEpisodes))
                                       THEN nsteps(e) * FarOf(ndata[e], offPolicImpW[e], C)
                                       ELSE fracFar[e]]
      BY <2>1 DEF updateTrainingStatistics, FarOf, C
    <3>2. ToSet(SubSeq(episodes, 1, nEpisodes)) = ToSet(episodes)
      <4>1. episodes \in Seq(Ids) /\ nEpisodes = Len(episodes)
        BY <1>0 DEF Types
      <4>2. SubSeq(episodes, 1, nEpisodes) = episodes
        BY <4>1
      <4> QED BY <4>2
    <3>3. ~(step < RecomputeEvery)
      <4> SUFFICES ASSUME step < RecomputeEvery PROVE FALSE
        OBVIOUS
      <4>1. step \in 1 .. RecomputeEvery - 1
        BY <1>2
      <4>2. step % RecomputeEvery = step
        BY <1>2, <4>1
      <4> QED BY <2>1, <4>1, <4>2
    <3>4. ASSUME NEW e \in Ids
          PROVE  NearOf(ndata[e], offPolicImpW[e], C, fracFar'[e], nGradSteps)
      <4> DEFINE n == ndata[e]
                 F == FarOf(n, offPolicImpW[e], C)
                 f == fracFar'[e]
      <4>0. n \in Nat
        BY <1>0, SetFacts
      <4>1. F \in Nat /\ F <= n
        BY <4>0, FarBounds
      <4>2. CASE e \in ToSet(episodes)
        <5>1. f = (n + 1) * F
          BY <3>1, <3>2, <4>2 DEF nsteps
        <5> HIDE DEF n, F, f
        <5>2. (n + 1) * F = n * F + F /\ n * F \in Int
          BY <4>0, <4>1
        <5> DEFINE P == n * F
        <5>3. P \in Int /\ f = P + F
          BY <5>1, <5>2
        <5> HIDE DEF P
        <5>4. f \in P .. P + n
          BY <4>0, <4>1, <5>3
        <5> QED BY <3>3, <5>4 DEF NearOf, P, F, f, n
      <4>3. CASE e \notin ToSet(episodes)
        <5>1. n = 0 /\ f = 0
          BY <1>0, <3>1, <3>2, <4>3 DEF SetInv
        <5>2. \A t \in 1 .. 0 : offPolicImpW[e][t] <= C /\ offPolicImpW[e][t] \in Nat
          OBVIOUS
        <5>3. 0 \in Nat
          OBVIOUS
        <5>4. NearOf(0, offPolicImpW[e], C, 0, nGradSteps)
          BY <1>2, <5>2, <5>3, NoneFar
        <5> QED BY <5>1, <5>4
      <4> QED BY <4>2, <4>3
    <3> QED BY <1>1, <3>1, <3>4
  <2>2. CASE ~(step % RecomputeEvery = 0)
    <3>1. CmaxCounted' = CmaxCounted /\ fracFar' = fracFar
      BY <2>2 DEF updateTrainingStatistics
    <3>2. CmaxRet' = CmaxCounted' => CmaxRet = CmaxCounted /\ CmaxRet = C
      BY <1>1, <1>4, <3>1 DEF FarInv
    <3>3. CmaxRet' = CmaxCounted' \/ CmaxRet' = ClipLast
      BY <1>1, <1>4, <3>1
    <3> QED BY <3>1, <3>2, <3>3 DEF FarInv
  <2> QED BY <2>1, <2>2
<1>6. \A e \in Ids : NearOf(ndata'[e], offPolicImpW'[e], CmaxRet', fracFar'[e], nGradSteps')
                       <=> NearOf(ndata[e], offPolicImpW[e], C, fracFar'[e], nGradSteps)
  BY <1>1
<1>7. CmaxRet' # ClipFirst => nGradSteps' + 1 >= AnnealedAt
  BY <1>1, <1>3
<1>8. \A b \in Batch : tpc'[b] # "update"
  BY <1>1
<1> QED BY <1>5, <1>6, <1>7, <1>8 DEF FarInv

\* Episodes go with their counts.
LEMMA RemovalFar ==
  ASSUME DrawInv, FarInv, applyEpisodesRemovalAlgo
  PROVE  FarInv'
<1>0. Types /\ SetInv /\ StepInv
  BY DEF DrawInv
<1>1. PICK s : \E m : Removes(s, m)
  BY <1>0, RemovalIs
<1>2. \A e \in Ids : /\ ndata'[e] = IF e \in ToSet(Kept(s)) THEN ndata[e] ELSE 0
                     /\ fracFar'[e] = IF e \in ToSet(Kept(s)) THEN fracFar[e] ELSE 0
                     /\ e \in ToSet(Kept(s)) => offPolicImpW'[e] = offPolicImpW[e]
  BY <1>1 DEF Removes
<1>3. /\ mpc = "remove" /\ CmaxRet' = CmaxRet /\ CmaxCounted' = CmaxCounted
      /\ nGradSteps' = nGradSteps /\ tpc' = tpc
  BY DEF applyEpisodesRemovalAlgo, trainVars, statVars
<1>4. \A b \in Batch : tpc'[b] # "update"
  BY <1>0, <1>3 DEF StepInv
<1>5. ASSUME CmaxRet = CmaxCounted, NEW e \in Ids
      PROVE  NearOf(ndata'[e], offPolicImpW'[e], CmaxRet, fracFar'[e], nGradSteps)
  <2>1. NearOf(ndata[e], offPolicImpW[e], CmaxRet, fracFar[e], nGradSteps)
    BY <1>5 DEF FarInv
  <2>2. CASE e \in ToSet(Kept(s))
    BY <1>2, <2>1, <2>2
  <2>3. CASE e \notin ToSet(Kept(s))
    <3>1. ndata'[e] = 0 /\ fracFar'[e] = 0
      BY <1>2, <2>3
    <3>2. \A t \in 1 .. 0 : offPolicImpW'[e][t] <= CmaxRet /\ offPolicImpW'[e][t] \in Nat
      OBVIOUS
    <3>3. 0 \in Nat /\ CmaxRet \in Nat
      BY <1>0, ClipFacts
    <3>4. NearOf(0, offPolicImpW'[e], CmaxRet, 0, nGradSteps)
      BY <3>2, <3>3, NoneFar
    <3> QED BY <3>1, <3>4
  <2> QED BY <2>2, <2>3
<1>6. (CmaxRet' # ClipFirst => nGradSteps' + 1 >= AnnealedAt) /\ (CmaxRet' = CmaxCounted' \/ CmaxRet' = ClipLast)
  BY <1>3 DEF FarInv
<1> QED BY <1>3, <1>4, <1>5, <1>6 DEF FarInv

LEMMA NextFar ==
  ASSUME DrawInv, FarInv, [Next]_vars
  PROVE  FarInv'
<1>0. Types /\ SetInv
  BY DEF DrawInv
<1>1. CASE \E p \in Pushers : Push(p)
  <2>1. PICK p \in Pushers : Push(p)
    BY <1>1
  <2>2. CASE pushBackEpisode(p)
    BY <2>2, PushFar
  <2>3. CASE countTransitions(p)
    <3>1. /\ UNCHANGED <<ndata, offPolicImpW, fracFar, CmaxRet, CmaxCounted>>
          /\ nGradSteps' = nGradSteps /\ tpc' = tpc /\ batch' = batch /\ wasFarPol' = wasFarPol
      BY <2>3 DEF countTransitions, epsVars, drawVars, trainVars, statVars
    <3> QED BY <1>0, <3>1, FarStays
  <2> QED BY <2>1, <2>2, <2>3 DEF Push
<1>2. CASE stepInit \/ prepare \/ fill \/ sample \/ stepComplete
  <2>1. /\ UNCHANGED <<ndata, offPolicImpW, fracFar, CmaxRet, CmaxCounted>>
        /\ nGradSteps' \in {nGradSteps, nGradSteps + 1}
        /\ batch' = batch /\ wasFarPol' = wasFarPol
        /\ tpc' = tpc \/ tpc' = [b \in Batch |-> "idle"]
    BY <1>2 DEF stepInit, prepare, fill, sample, stepComplete, epsVars, drawVars, trainVars, statVars
  <2>2. \A b \in Batch : tpc'[b] = "update" => tpc[b] = "update"
    BY <2>1
  <2> QED BY <1>0, <2>1, <2>2, FarStays
<1>3. CASE draw
  <2>1. /\ UNCHANGED <<ndata, offPolicImpW, fracFar, CmaxRet, CmaxCounted>>
        /\ nGradSteps' = nGradSteps /\ tpc' = [b \in Batch |-> "read"]
    BY <1>3 DEF draw, epsVars, statVars
  <2>2. \A b \in Batch : tpc'[b] # "update"
    BY <2>1
  <2> QED BY <1>0, <2>1, <2>2, FarStays
<1>4. CASE updateTrainingStatistics
  BY <1>4, StatisticsFar
<1>5. CASE applyEpisodesRemovalAlgo
  BY <1>5, RemovalFar
<1>6. CASE \E b \in Batch : Train(b)
  BY <1>6, ReadFar, UpdateFar DEF Train
<1>7. CASE UNCHANGED vars
  <2>1. UNCHANGED <<ndata, offPolicImpW, fracFar, batch, tpc, wasFarPol, CmaxRet, CmaxCounted, nGradSteps>>
    BY <1>7 DEF vars, epsVars, drawVars, trainVars, statVars
  <2> QED BY <1>0, <2>1, FarStays
<1> QED BY <1>1, <1>2, <1>3, <1>4, <1>5, <1>6, <1>7 DEF Next, Main

\* The training threads keep the counts of far-policy steps.
THEOREM FarInductive == Spec => [](DrawInv /\ FarInv)
<1>1. Init => DrawInv /\ FarInv
  BY InitDraws, InitFar
<1>2. DrawInv /\ FarInv /\ [Next]_vars => DrawInv' /\ FarInv'
  BY NextDraws, NextFar
<1> QED BY <1>1, <1>2, PTL DEF Spec

\* The parallel updates of the threads lose no step: between the moment when a thread
\* reads a weight and the moment when it counts it, no other changes it, and CmaxRet
\* moves when no thread is in between.
THEOREM FarCountedHolds == Spec => []FarCounted
<1>1. DrawInv /\ FarInv => FarCounted
  <2> HAVE DrawInv /\ FarInv
  <2>1. nBegun \in 0 .. MaxEpisodes
    BY DEF DrawInv, Types
  <2>2. \A e \in 1 .. nBegun : e \in Ids
    BY <2>1, ReplayAssumption DEF Ids
  <2>3. \A e : FarSteps(e) = FarOf(ndata[e], offPolicImpW[e], CmaxRet)
    BY DEF FarSteps, FarOf, isFar
  <2>4. CmaxRet = CmaxCounted =>
          \A e \in 1 .. nBegun :
            IF nGradSteps + 1 < RecomputeEvery THEN fracFar[e] = ndata[e] * FarSteps(e)
            ELSE fracFar[e] \in ndata[e] * FarSteps(e) .. ndata[e] * FarSteps(e) + ndata[e]
    BY <2>2, <2>3 DEF FarInv, NearOf
  <2> QED BY <2>4 DEF FarCounted
<1> QED BY <1>1, FarInductive, PTL

------------------------------------------------------------------------------
(* Enough to draw from                                                     *)

\* The steps of the entries, each at its place in one of them.
LEMMA PairsCounted ==
  ASSUME DrawInv, algo = "PERseq", ~bSampleEpisodes, dist.n <= nEpisodes
  PROVE  Sum(dist.n) <= Cardinality(Drawable)
<1> DEFINE q == Steps(dist.n)
           L == Len(q)
           At(i) == CHOOSE x \in Drawable : q[i] = <<episodes[x[1]], x[2]>>
           g == [i \in 1 .. L |-> At(i)]
<1>0. /\ Types /\ SetInv
      /\ Drawable = {x \in Entries \X (1 .. MaxLen) : x[2] <= ndata[episodes[x[1]]]}
  BY DEF DrawInv, Drawable
<1>1. Entries = 1 .. dist.n /\ IsFiniteSet(Drawable)
  BY EntriesAre DEF NEntries
<1>2. dist.n \in 0 .. nEpisodes /\ MaxLen \in Nat
  <2>1. dist.n \in Nat /\ nEpisodes \in Nat
    BY <1>0, SetFacts DEF Types
  <2> QED BY <2>1, ReplayAssumption
<1>3. /\ L = Sum(dist.n) /\ q \in Seq(Ids \X Nat)
      /\ \A i \in 1 .. L : \E k \in 1 .. dist.n : \E t \in 1 .. ndata[episodes[k]] : q[i] = <<episodes[k], t>>
      /\ \A i, j \in 1 .. L : q[i] = q[j] => i = j
  <2>1. Listed(ndata, episodes, dist.n)
    BY <1>0, <1>2, SetFacts
  <2> QED BY <2>1 DEF Listed, Steps, Sum
<1> HIDE DEF q, L
<1>4. ASSUME NEW i \in 1 .. L
      PROVE  At(i) \in Drawable /\ q[i] = <<episodes[At(i)[1]], At(i)[2]>>
  <2>1. PICK k \in 1 .. dist.n : \E t \in 1 .. ndata[episodes[k]] : q[i] = <<episodes[k], t>>
    BY <1>3
  <2>2. PICK t \in 1 .. ndata[episodes[k]] : q[i] = <<episodes[k], t>>
    BY <2>1
  <2>3. ndata[episodes[k]] \in 1 .. MaxLen
    BY <1>0, <1>2, SetFacts
  <2> DEFINE x == <<k, t>>
  <2>4. x \in Drawable /\ q[i] = <<episodes[x[1]], x[2]>>
    BY <1>0, <1>1, <1>2, <2>2, <2>3
  <2> HIDE DEF x
  <2> QED BY <2>4
<1> HIDE DEF At
<1>5. g \in Injection(1 .. L, Drawable)
  <2>1. g \in [1 .. L -> Drawable]
    BY <1>4
  <2>2. ASSUME NEW i \in 1 .. L, NEW j \in 1 .. L, g[i] = g[j]
        PROVE  i = j
    <3>1. At(i) = At(j)
      BY <2>2
    <3>2. q[i] = q[j]
      BY <1>4, <3>1
    <3> QED BY <1>3, <3>2
  <2> QED BY <2>1, <2>2 DEF Injection, IsInjective
<1> HIDE DEF g
<1>6. Cardinality(1 .. L) <= Cardinality(Drawable)
  BY <1>1, <1>5, FS_Injection
<1>7. Cardinality(1 .. L) = L
  <2>1. L \in Nat
    BY <1>3 DEF L
  <2>2. 1 \in Int /\ L \in Int
    BY <2>1
  <2>3. Cardinality(1 .. L) = IF 1 > L THEN 0 ELSE L - 1 + 1
    BY <2>2, FS_Interval
  <2> QED BY <2>1, <2>3
<1> QED BY <1>3, <1>6, <1>7

\* As many episodes are kept as hold maxTotObs transitions, or all of them.
LEMMA RemovalLeaves ==
  ASSUME DrawInv, applyEpisodesRemovalAlgo, BatchSize <= maxTotObs + 2, nTransitions >= BatchSize
  PROVE  nTransitions' >= BatchSize
<1>0. Types /\ SetInv
  BY DEF DrawInv
<1>1. PICK s : \E m : Removes(s, m)
  BY <1>0, RemovalIs
<1>2. PICK m : Removes(s, m)
  BY <1>1
<1>3. /\ s \in Seq(Ids) /\ IsInjective(s) /\ ToSet(s) = ToSet(episodes) /\ m \in 0 .. Len(s)
      /\ \A j \in 0 .. Len(s) : j = 0 \/ Total(s, j) - nsteps(s[j]) <= maxTotObs => j <= m
      /\ nTransitions' = SumUpTo(ndata, s, m) /\ mutex = {}
  BY <1>2 DEF Removes, Keeps
<1>4. /\ ndata \in [Ids -> Nat] /\ Len(s) \in Nat /\ nEpisodes \in Nat /\ nEpisodes = Len(episodes)
      /\ BatchSize \in Nat /\ maxTotObs \in Nat
  BY <1>0, <1>3, SetFacts, ReplayAssumption
<1>5. CASE m < Len(s)
  <2> DEFINE T == SumUpTo(ndata, s, m)
             U == SumUpTo(ndata, s, m + 1)
             d == ndata[s[m + 1]]
  <2>1. m + 1 \in 0 .. Len(s) /\ m + 1 # 0 /\ ~(m + 1 <= m) /\ m \in 0 .. Len(s) - 1
        /\ m + 1 \in 1 .. Len(s)
    BY <1>3, <1>4, <1>5
  <2>2. ~(Total(s, m + 1) - nsteps(s[m + 1]) <= maxTotObs)
    BY <1>3, <2>1
  <2>3. U = T + d /\ T \in Nat
    <3>1. \A k \in 1 .. Len(s) : ndata[s[k]] \in Nat
      BY <1>3, <1>4
    <3>2. /\ \A n \in 0 .. Len(s) - 1 : SumUpTo(ndata, s, n + 1) = SumUpTo(ndata, s, n) + ndata[s[n + 1]]
          /\ \A n \in 0 .. Len(s) : SumUpTo(ndata, s, n) \in Nat
      <4>1. Len(s) \in Nat
        BY <1>4
      <4> QED BY ONLY <3>1, <4>1, SumsGrow, Zenon
    <3> QED BY <1>3, <2>1, <3>2
  <2>4. d \in Nat
    BY <1>3, <1>4, <2>1
  <2>5. Total(s, m + 1) = U /\ nsteps(s[m + 1]) = d + 1
    BY TotalIsSum DEF nsteps
  <2> HIDE DEF T, U, d
  <2>6. T >= maxTotObs + 2
    BY <1>4, <2>2, <2>3, <2>4, <2>5
  <2> QED BY <1>3, <1>4, <2>3, <2>6 DEF T
<1>6. CASE m = Len(s)
  <2>1. {s[k] : k \in 1 .. Len(s)} = {episodes[k] : k \in 1 .. nEpisodes}
    <3>1. DOMAIN s = 1 .. Len(s) /\ DOMAIN episodes = 1 .. nEpisodes
      BY <1>0, <1>3 DEF Types
    <3> QED BY <1>3, <3>1 DEF ToSet
  <2>2. SumUpTo(ndata, s, Len(s)) = SumOf(ndata, {s[k] : k \in 1 .. Len(s)})
    <3>1. Len(s) \in 0 .. Len(s)
      BY <1>4
    <3> QED BY <1>3, <1>4, <3>1, SumsOfSet
  <2>3. SumUpTo(ndata, episodes, nEpisodes) = SumOf(ndata, {episodes[k] : k \in 1 .. nEpisodes})
    <3>1. episodes \in Seq(Ids) /\ IsInjective(episodes) /\ nEpisodes \in 0 .. Len(episodes)
      BY <1>0, <1>4 DEF Types
    <3> QED BY <1>4, <3>1, SumsOfSet
  <2>4. nTransitions = SumUpTo(ndata, episodes, nEpisodes)
    BY <1>0, <1>3 DEF SetInv, Sum
  <2> QED BY <1>3, <1>6, <2>1, <2>2, <2>3, <2>4
<1> QED BY <1>3, <1>4, <1>5, <1>6

\* Since learning began there are enough transitions for a batch, in the data set and in
\* what the sampler has read of it.
FloorInv ==
  /\ mpc # "gather" => nTransitions >= BatchSize
  /\ mpc = "draw" => nData >= BatchSize /\ (bSampleEpisodes => nSeqs >= BatchSize)
  /\ Ready /\ bOverSteps => dist.n >= BatchSize
  /\ Ready /\ algo = "PERseq" => Sum(dist.n) >= BatchSize

LEMMA FloorStays ==
  ASSUME DrawInv, FloorInv, mpc # "gather" => nTransitions' >= BatchSize,
         mpc' # "gather" => mpc # "gather",
         mpc' = "draw" => mpc = "draw" /\ nData' = nData /\ nSeqs' = nSeqs,
         Ready' => Ready /\ dist' = dist /\ Grows,
         setup' = setup
  PROVE  FloorInv'
<1>0. Types /\ SetInv /\ SamplerInv
  BY DEF DrawInv
<1>1. algo' = algo /\ bSampleEpisodes' = bSampleEpisodes /\ bOverSteps' = bOverSteps
  BY DEF algo, bSampleEpisodes, bOverSteps
<1>2. ASSUME Ready', algo = "PERseq"
      PROVE  Sum(dist.n)' = Sum(dist.n)
  <2>1. dist.n \in 0 .. nEpisodes
    <3>1. dist.n \in Nat /\ nEpisodes \in Nat
      BY <1>0, SetFacts DEF Types
    <3> QED BY <1>0, <1>2, <3>1 DEF SamplerInv
  <2>2. SumUpTo(ndata, episodes, dist.n)' = SumUpTo(ndata', episodes', dist.n)
    BY <1>2
  <2>3. SumUpTo(ndata', episodes', dist.n) = SumUpTo(ndata, episodes, dist.n)
    <3>1. \A n \in 0 .. nEpisodes : SumUpTo(ndata', episodes', n) = SumUpTo(ndata, episodes, n)
      BY <1>2 DEF Grows, Sum
    <3> QED BY <2>1, <3>1
  <2> QED BY <2>2, <2>3 DEF Sum
<1>3. (mpc' # "gather" => nTransitions' >= BatchSize)
      /\ (mpc' = "draw" => nData' >= BatchSize /\ (bSampleEpisodes' => nSeqs' >= BatchSize))
  BY <1>1 DEF FloorInv
<1>4. Ready' /\ bOverSteps' => dist'.n >= BatchSize
  BY <1>1 DEF FloorInv
<1>5. Ready' /\ algo' = "PERseq" => Sum(dist.n)' >= BatchSize
  BY <1>1, <1>2 DEF FloorInv
<1> QED BY <1>3, <1>4, <1>5 DEF FloorInv

LEMMA NextFloor ==
  ASSUME DrawInv, FloorInv, [Next]_vars, BatchSize <= maxTotObs + 2
  PROVE  FloorInv'
<1>0. Types /\ SetInv /\ SamplerInv
  BY DEF DrawInv
<1>a. nTransitions \in Nat /\ nTransitions <= Sum(nEpisodes) /\ nEpisodes \in Nat
  BY <1>0, SetFacts
<1>b. BatchSize \in Nat /\ nObsB4StartTraining \in Nat /\ nObsB4StartTraining >= BatchSize
  BY ReplayAssumption
<1>1. CASE \E p \in Pushers : Push(p)
  <2>1. PICK p \in Pushers : Push(p)
    BY <1>1
  <2>2. /\ UNCHANGED <<setup, mpc, nData, nSeqs, dist>>
    BY <2>1 DEF Push, pushBackEpisode, countTransitions, drawVars
  <2>3. Grows /\ (mpc # "gather" => nTransitions' >= BatchSize)
    <3>1. CASE pushBackEpisode(p)
      <4>1. nTransitions' = nTransitions
        BY <3>1 DEF pushBackEpisode
      <4> QED BY <1>0, <3>1, <4>1, PushGrows DEF FloorInv
    <3>2. CASE countTransitions(p)
      <4>1. ndata' = ndata /\ episodes' = episodes /\ nEpisodes' = nEpisodes
            /\ nTransitions' = nTransitions + ndata[nBegun]
        BY <3>2 DEF countTransitions, epsVars
      <4>2. ndata[nBegun] \in Nat
        <5>1. p \in mutex
          BY <1>0, <3>2 DEF countTransitions, SetInv
        <5>2. nEpisodes > 0 /\ episodes[nEpisodes] = nBegun
          BY <1>0, <5>1 DEF SetInv
        <5>3. nEpisodes \in 1 .. nEpisodes
          BY <1>a, <5>2
        <5> QED BY <1>0, <5>2, <5>3, SetFacts
      <4>3. Grows
        BY <1>0, <4>1, StaysThere
      <4> QED BY <1>a, <1>b, <4>1, <4>2, <4>3 DEF FloorInv
    <3> QED BY <2>1, <3>1, <3>2 DEF Push
  <2>4. Ready' <=> Ready
    BY <2>2 DEF Ready
  <2> QED BY <2>2, <2>3, <2>4, FloorStays
<1>2. ASSUME ndata' = ndata, episodes' = episodes, nEpisodes' = nEpisodes
      PROVE  Grows
  BY <1>0, <1>2, StaysThere
<1>3. CASE stepInit
  <2>1. mpc' = "prepare" /\ nTransitions' = nTransitions /\ nTransitions >= BatchSize
    BY <1>a, <1>b, <1>3 DEF stepInit, MainGoto, setVars
  <2> QED BY <2>1 DEF FloorInv, Ready
<1>4. CASE prepare
  <2>1. /\ mpc = "prepare" /\ mpc' \in IF bOverSteps THEN {"fill"} ELSE {"complete", "sample"}
        /\ UNCHANGED <<setup, ndata, episodes, nEpisodes, nTransitions>>
        /\ algo = "PERseq" => dist'.n = nEpisodes
    BY <1>4 DEF prepare, MainGoto, Prepared, epsVars, setVars, bOverSteps
  <2>2. algo' = algo /\ bOverSteps' = bOverSteps
    BY <2>1 DEF algo, bOverSteps
  <2>3. nTransitions >= BatchSize
    BY <2>1 DEF FloorInv
  <2>4. algo' = "PERseq" => Sum(dist.n)' >= BatchSize
    <3> HAVE algo' = "PERseq"
    <3>1. Sum(dist.n)' = SumUpTo(ndata, episodes, dist'.n)
      BY <2>1 DEF Sum
    <3>2. Sum(dist.n)' = Sum(nEpisodes)
      BY <2>1, <2>2, <3>1 DEF Sum
    <3>3. Sum(nEpisodes) \in Nat
      <4>1. nEpisodes \in 0 .. nEpisodes
        BY <1>a
      <4> QED BY <1>0, <4>1, SetFacts
    <3> QED BY <1>a, <1>b, <2>3, <3>2, <3>3
  <2>5. ~(Ready' /\ bOverSteps')
    BY <2>1, <2>2 DEF Ready
  <2> QED BY <2>1, <2>3, <2>4, <2>5 DEF FloorInv
<1>5. CASE fill
  <2>1. /\ mpc = "fill" /\ mpc' \in {"complete", "sample", "overrun"}
        /\ UNCHANGED <<setup, nTransitions>> /\ bOverSteps
    BY <1>0, <1>5 DEF fill, MainGoto, Prepared, setVars, SamplerInv
  <2>2. dist'.n = nTransitions /\ nTransitions >= BatchSize
    BY <1>5, <2>1, FillIs DEF FloorInv
  <2>3. algo' # "PERseq"
    BY <2>1 DEF algo, bOverSteps
  <2> QED BY <2>1, <2>2, <2>3 DEF FloorInv
<1>6. CASE sample
  <2>1. /\ mpc = "sample" /\ UNCHANGED <<setup, ndata, episodes, nEpisodes, nTransitions, dist>>
        /\ nSeqs' = nEpisodes /\ nData' = nTransitions
        /\ mpc' \in {"died", "draw"}
        /\ mpc' = "draw" => ~(bSampleEpisodes /\ nEpisodes < BatchSize)
    BY <1>6 DEF sample, MainGoto, epsVars, setVars
  <2>2. /\ algo' = algo /\ bOverSteps' = bOverSteps /\ bSampleEpisodes' = bSampleEpisodes
        /\ Sum(dist.n)' = Sum(dist.n)
    BY <2>1 DEF algo, bOverSteps, bSampleEpisodes, Sum
  <2>3. Ready /\ nTransitions >= BatchSize
    BY <2>1 DEF FloorInv, Ready
  <2>4. mpc' = "draw" => nData' >= BatchSize /\ (bSampleEpisodes' => nSeqs' >= BatchSize)
    BY <1>a, <1>b, <2>1, <2>2, <2>3
  <2>5. (bOverSteps' => dist'.n >= BatchSize) /\ (algo' = "PERseq" => Sum(dist.n)' >= BatchSize)
    BY <2>1, <2>2, <2>3 DEF FloorInv
  <2> QED BY <2>1, <2>3, <2>4, <2>5 DEF FloorInv
<1>7. CASE draw \/ stepComplete \/ (\E b \in Batch : Train(b))
  <2>1. /\ Ready /\ mpc # "gather" /\ mpc' # "draw"
        /\ UNCHANGED <<setup, ndata, episodes, nEpisodes, nTransitions, dist>>
    BY <1>7 DEF draw, stepComplete, Train, readImpW, updateImpW, ThreadGoto, MainGoto, Ready,
                epsVars, setVars, drawVars
  <2>2. Grows /\ nTransitions' >= BatchSize
    BY <1>2, <2>1 DEF FloorInv
  <2> QED BY <2>1, <2>2, FloorStays
<1>8. CASE updateTrainingStatistics
  <2>1. mpc = "train" /\ mpc' = "remove" /\ nTransitions' = nTransitions
    BY <1>8 DEF updateTrainingStatistics, MainGoto, setVars
  <2> QED BY <2>1 DEF FloorInv, Ready
<1>9. CASE applyEpisodesRemovalAlgo
  <2>1. mpc = "remove" /\ mpc' = "prepare"
    BY <1>9 DEF applyEpisodesRemovalAlgo, MainGoto, AfterRemoval
  <2>2. nTransitions' >= BatchSize
    BY <1>9, <2>1, RemovalLeaves DEF FloorInv
  <2> QED BY <2>1, <2>2 DEF FloorInv, Ready
<1>10. CASE UNCHANGED vars
  <2>1. UNCHANGED <<setup, ndata, episodes, nEpisodes, nTransitions, mpc, nSeqs, nData, dist>>
    BY <1>10 DEF vars, epsVars, setVars, drawVars
  <2>2. Grows
    BY <1>2, <2>1
  <2>3. mpc # "gather" => nTransitions' >= BatchSize
    BY <2>1 DEF FloorInv
  <2>4. Ready' <=> Ready
    BY <2>1 DEF Ready
  <2> QED BY <2>1, <2>2, <2>3, <2>4, FloorStays
<1> QED BY <1>1, <1>3, <1>4, <1>5, <1>6, <1>7, <1>8, <1>9, <1>10 DEF Next, Main

\* The sampler finds as many different entries as it draws, when the data set may hold a
\* batch, for all but PERseq with whole episodes: that one does not look whether there are
\* as many episodes as it draws.
THEOREM EnoughToDrawHolds ==
  (\A x \in Setups : ~(x[1] = "PERseq" /\ x[2])) /\ BatchSize <= maxTotObs + 2
    => (Spec => []EnoughToDraw)
<1> SUFFICES ASSUME \A x \in Setups : ~(x[1] = "PERseq" /\ x[2]), BatchSize <= maxTotObs + 2
             PROVE  Spec => []EnoughToDraw
  OBVIOUS
<1>1. Init => DrawInv /\ FloorInv
  <2> HAVE Init
  <2>1. mpc = "gather"
    BY DEF Init
  <2> QED BY <2>1, InitDraws DEF FloorInv, Ready
<1>2. DrawInv /\ FloorInv /\ [Next]_vars => DrawInv' /\ FloorInv'
  BY NextDraws, NextFloor
<1>3. DrawInv /\ FloorInv => EnoughToDraw
  <2> SUFFICES ASSUME DrawInv, FloorInv, mpc = "draw"
               PROVE  Cardinality(Drawable) >= BatchSize
    BY DEF EnoughToDraw
  <2>0. Types /\ SetInv /\ SamplerInv /\ BatchSize \in Nat /\ Ready
    BY ReplayAssumption DEF DrawInv, Ready
  <2>1. Entries = 1 .. NEntries /\ NEntries \in Nat /\ IsFiniteSet(Drawable)
    BY EntriesAre
  <2>2. algo \in {"uniform", "PERrank", "PERerr", "PERseq"} /\ bSampleEpisodes \in BOOLEAN
        /\ ~(algo = "PERseq" /\ bSampleEpisodes)
    BY <2>0, SetupFacts DEF Types, algo, bSampleEpisodes
  <2>3. CASE algo = "PERseq"
    <3>1. Sum(dist.n) >= BatchSize /\ dist.n <= nEpisodes
      BY <2>0, <2>3 DEF FloorInv, SamplerInv
    <3>2. Sum(dist.n) <= Cardinality(Drawable)
      BY <2>2, <2>3, <3>1, PairsCounted
    <3>3. Sum(dist.n) \in Nat /\ Cardinality(Drawable) \in Nat
      <4>1. dist.n \in 0 .. nEpisodes
        BY <2>0, <3>1, SetFacts DEF Types
      <4> QED BY <2>0, <2>1, <4>1, SetFacts, FS_CardinalityType
    <3> QED BY <2>0, <3>1, <3>2, <3>3
  <2>4. CASE algo # "PERseq"
    <3>1. NEntries >= BatchSize
      <4>1. CASE algo = "uniform"
        BY <2>2, <4>1 DEF FloorInv, NEntries
      <4>2. CASE algo # "uniform"
        <5>1. bOverSteps
          BY <2>2, <2>4, <4>2 DEF bOverSteps
        <5> QED BY <2>0, <4>2, <5>1 DEF FloorInv, NEntries
      <4> QED BY <4>1, <4>2
    <3>2. Drawable = 1 .. NEntries
      BY <2>1, <2>4 DEF Drawable
    <3>3. Cardinality(1 .. NEntries) = NEntries
      <4>1. 1 \in Int /\ NEntries \in Int
        BY <2>1
      <4>2. Cardinality(1 .. NEntries) = IF 1 > NEntries THEN 0 ELSE NEntries - 1 + 1
        BY <4>1, FS_Interval
      <4> QED BY <2>1, <4>2
    <3> QED BY <3>1, <3>2, <3>3
  <2> QED BY <2>3, <2>4
<1> QED BY <1>1, <1>2, <1>3, PTL DEF Spec
==============================================================================
