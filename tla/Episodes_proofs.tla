--------------------------- MODULE Episodes_proofs ---------------------------
(***************************************************************************)
(* Proofs about what becomes of what an agent does, for states and actions *)
(* with any number of components, episodes of any length and lives of any  *)
(* number of calls.  The label of an action stands for it alone; a state   *)
(* is put together again from the components that are observed and those   *)
(* that are not; a packed episode is read as it was written; the returns,  *)
(* computed backwards, are the sums that define them; and along the calls  *)
(* of an agent's life the master's agent follows the application's, and    *)
(* the episode that is being played holds what has been played of it.      *)
(*                                                                         *)
(* Sequences are made by recursion here.  That there is what a recursive   *)
(* function or a fold chooses is shown first, and what it is then, by      *)
(* induction over a number of elements, as a statement about a set.        *)
(***************************************************************************)
EXTENDS Episodes, FiniteSums, SequencesExt, SequenceTheorems, FiniteSetTheorems, TLAPS

------------------------------------------------------------------------------
(* Recursion along a sequence                                              *)

\* A value for each place, from that of the place before: F is the step, V are the values.
Recursion(g, m, V, b, F) ==
  g \in [0 .. m -> V] /\ g[0] = b /\ \A k \in 1 .. m : g[k] = F[<<k, g[k - 1]>>]

LEMMA RecursionExists ==
  ASSUME NEW V, NEW n \in Nat, NEW b \in V, NEW F \in [(1 .. n) \X V -> V]
  PROVE  \E g : Recursion(g, n, V, b, F)
<1> DEFINE Part(g, m) == Recursion(g, m, V, b, F)
           N == {m \in Nat : m <= n => \E g : Part(g, m)}
<1>1. 0 \in N
  <2>1. Part([i \in 0 .. 0 |-> b], 0)
    BY DEF Recursion
  <2> HIDE DEF Part
  <2> QED BY <2>1
<1>2. ASSUME NEW m \in N PROVE m + 1 \in N
  <2> SUFFICES ASSUME m + 1 <= n PROVE \E g : Part(g, m + 1)
    OBVIOUS
  <2>1. m \in Nat /\ m <= n /\ m + 1 \in 1 .. n
    OBVIOUS
  <2>2. PICK g : Part(g, m)
    BY <2>1
  <2>3. g[m] \in V /\ F[<<m + 1, g[m]>>] \in V
    BY <2>1, <2>2 DEF Recursion
  <2> DEFINE h == [i \in 0 .. m + 1 |-> IF i <= m THEN g[i] ELSE F[<<m + 1, g[m]>>]]
  <2>4. h \in [0 .. m + 1 -> V] /\ h[0] = b
    BY <2>1, <2>2, <2>3 DEF Recursion
  <2>5. ASSUME NEW k \in 1 .. m + 1 PROVE h[k] = F[<<k, h[k - 1]>>]
    <3>1. CASE k <= m
      <4>1. k \in 1 .. m /\ h[k] = g[k] /\ h[k - 1] = g[k - 1]
        BY <2>1, <3>1
      <4> QED BY <2>2, <4>1 DEF Recursion
    <3>2. CASE ~(k <= m)
      <4>1. k = m + 1 /\ h[k] = F[<<m + 1, g[m]>>] /\ h[k - 1] = g[m]
        BY <2>1, <3>2
      <4> QED BY <4>1
    <3> QED BY <3>1, <3>2
  <2> HIDE DEF h
  <2>6. Part(h, m + 1)
    BY <2>4, <2>5 DEF Recursion
  <2> HIDE DEF Part
  <2> QED BY <2>6
<1>3. N = Nat
  <2> HIDE DEF N
  <2>1. N \subseteq Nat
    BY DEF N
  <2> QED BY <1>1, <1>2, <2>1, UpFromZero
<1>4. n \in N /\ n <= n
  <2> HIDE DEF N
  <2> QED BY <1>3
<1>5. PICK g : Part(g, n)
  BY <1>4
<1> QED BY <1>5

LEMMA GreatestIs ==
  ASSUME NEW n \in Nat, NEW s \in SUBSET (1 .. n), s # {}
  PROVE  Max(s) \in s /\ \A x \in s : x <= Max(s)
<1> DEFINE N == {n - x : x \in s}
<1>1. N \in SUBSET Nat /\ N # {}
  <2>1. PICK x \in s : TRUE
    OBVIOUS
  <2>2. n - x \in N
    BY <2>1
  <2> QED BY <2>2
<1>2. PICK m \in N : \A k \in N : m <= k
  <2> HIDE DEF N
  <2> QED BY <1>1, Least
<1>3. PICK x \in s : m = n - x
  OBVIOUS
<1>4. \A y \in s : x >= y
  <2> SUFFICES ASSUME NEW y \in s PROVE x >= y
    OBVIOUS
  <2>1. n - y \in N
    OBVIOUS
  <2>2. m <= n - y
    BY <1>2, <2>1
  <2> QED BY <1>3, <2>2
<1>5. Max(s) = CHOOSE z \in s : \A y \in s : z >= y
  BY DEF Max
<1>6. Max(s) \in s /\ \A y \in s : Max(s) >= y
  BY <1>4, <1>5
<1>7. \A y \in s : Max(s) >= y => y <= Max(s)
  BY <1>6
<1> QED BY <1>6, <1>7

\* A sum that FoldLeft makes, from the first summand to the n-th.
FoldUp(f, n) == FoldLeft(LAMBDA y, x : y + f[x], 0, [i \in 1 .. n |-> i])

LEMMA FoldIsSum ==
  ASSUME NEW n \in Nat, NEW f \in [1 .. n -> Int]
  PROVE  FoldUp(f, n) = SumOf(f, 1 .. n)
<1> DEFINE S == 1 .. n
           seq == [i \in S |-> i]
           Def(iter) == iter = [s \in SUBSET S |->
                          IF s = {} THEN 0 ELSE iter[s \ {Max(s)}] + f[seq[Max(s)]]]
           h == [s \in SUBSET S |-> SumOf(f, s)]
<1>1. FoldUp(f, n) = (CHOOSE iter : Def(iter))[S]
  <2>1. DOMAIN seq = S
    OBVIOUS
  <2> QED BY <2>1 DEF FoldUp, FoldLeft, MapThenFoldSet
<1>2. \A s \in SUBSET S : s # {} => Max(s) \in s /\ Max(s) \in S /\ seq[Max(s)] = Max(s)
  <2> SUFFICES ASSUME NEW s \in SUBSET S, s # {} PROVE Max(s) \in s
    OBVIOUS
  <2> QED BY GreatestIs
<1>3. IsFiniteSet(S)
  BY FS_Interval
<1> HIDE DEF S, seq
<1>a. f \in [S -> Int]
  BY DEF S
<1>4. /\ SumOf(f, {}) = 0 /\ \A s \in SUBSET S : SumOf(f, s) \in Int
      /\ \A s \in SUBSET S : \A x \in s : SumOf(f, s) = f[x] + SumOf(f, s \ {x})
  <2>1. Summed(f, S)
    BY <1>3, <1>a, OneMore
  <2>2. ASSUME NEW s \in SUBSET S, NEW x \in s PROVE SumOf(f, s) = f[x] + SumOf(f, s \ {x})
    <3> DEFINE T == s \ {x}
    <3>1. T \in SUBSET S /\ x \in S \ T /\ T \cup {x} = s
      OBVIOUS
    <3> HIDE DEF T
    <3>2. SumOf(f, T \cup {x}) = f[x] + SumOf(f, T)
      BY <2>1, <3>1 DEF Summed
    <3> QED BY <3>1, <3>2 DEF T
  <2> QED BY <2>1, <2>2 DEF Summed
<1>5. ASSUME NEW s \in SUBSET S, s # {}
      PROVE  SumOf(f, s) = SumOf(f, s \ {Max(s)}) + f[seq[Max(s)]]
  <2>1. SumOf(f, s) = f[Max(s)] + SumOf(f, s \ {Max(s)})
    BY <1>2, <1>4, <1>5
  <2>2. s \ {Max(s)} \in SUBSET S /\ Max(s) \in S
    BY <1>2, <1>5
  <2>3. f[Max(s)] \in Int /\ SumOf(f, s \ {Max(s)}) \in Int
    BY <1>4, <2>2, <1>a
  <2> QED BY <1>2, <1>5, <2>1, <2>3
<1>6. Def(h)
  <2>1. \A s \in SUBSET S : h[s] = IF s = {} THEN 0 ELSE h[s \ {Max(s)}] + f[seq[Max(s)]]
    <3> SUFFICES ASSUME NEW s \in SUBSET S
                 PROVE  h[s] = IF s = {} THEN 0 ELSE h[s \ {Max(s)}] + f[seq[Max(s)]]
      OBVIOUS
    <3>1. s \ {Max(s)} \in SUBSET S
      OBVIOUS
    <3>2. h[s] = SumOf(f, s) /\ h[s \ {Max(s)}] = SumOf(f, s \ {Max(s)})
      BY <3>1
    <3> HIDE DEF h
    <3> QED BY <1>4, <1>5, <3>2
  <2> QED BY <2>1
<1> HIDE DEF h
<1>7. PICK iter : iter = (CHOOSE c : Def(c)) /\ Def(iter)
  BY <1>6
<1>8. \A s \in SUBSET S : iter[s] = IF s = {} THEN 0 ELSE iter[s \ {Max(s)}] + f[seq[Max(s)]]
  BY <1>7
<1> HIDE DEF Def
<1> DEFINE N == {k \in Nat : k <= n => iter[1 .. k] = SumOf(f, 1 .. k)}
<1>9. 0 \in N
  <2>1. 1 .. 0 = {} /\ {} \in SUBSET S
    OBVIOUS
  <2>2. iter[{}] = 0
    BY <1>8, <2>1
  <2> QED BY <2>1, <2>2, <1>4
<1>10. ASSUME NEW k \in N PROVE k + 1 \in N
  <2> SUFFICES ASSUME k + 1 <= n PROVE iter[1 .. k + 1] = SumOf(f, 1 .. k + 1)
    OBVIOUS
  <2> DEFINE T == 1 .. k + 1
  <2>1. T \in SUBSET S /\ k + 1 \in T /\ T \ {k + 1} = 1 .. k
    BY DEF S
  <2>2. Max(T) = k + 1
    <3>1. Max(T) \in T /\ \A x \in T : x <= Max(T)
      BY <2>1, GreatestIs DEF S
    <3> QED BY <2>1, <3>1
  <2>3. iter[1 .. k] = SumOf(f, 1 .. k)
    OBVIOUS
  <2> HIDE DEF T
  <2>4. iter[T] = iter[T \ {Max(T)}] + f[seq[Max(T)]]
    BY <1>8, <2>1
  <2>5. SumOf(f, T) = SumOf(f, T \ {Max(T)}) + f[seq[Max(T)]]
    BY <1>5, <2>1
  <2>6. iter[T] = SumOf(f, T)
    BY <2>1, <2>2, <2>3, <2>4, <2>5
  <2> QED BY <2>6 DEF T
<1>11. N = Nat
  <2> HIDE DEF N
  <2>1. N \subseteq Nat
    BY DEF N
  <2> QED BY <1>9, <1>10, <2>1, UpFromZero
<1>12. iter[S] = SumOf(f, S)
  <2>1. n \in N /\ n <= n
    BY <1>11
  <2> QED BY <2>1 DEF S
<1> QED BY <1>1, <1>7, <1>12 DEF S

LEMMA FoldAgree ==
  ASSUME NEW n \in Nat, NEW f, NEW g, \A i \in 1 .. n : f[i] = g[i]
  PROVE  FoldUp(f, n) = FoldUp(g, n)
<1> DEFINE S == 1 .. n
           seq == [i \in S |-> i]
           Def(iter, e) == iter = [s \in SUBSET S |->
                             IF s = {} THEN 0 ELSE iter[s \ {Max(s)}] + e[seq[Max(s)]]]
<1>1. \A e : FoldUp(e, n) = (CHOOSE iter : Def(iter, e))[S]
  <2>1. DOMAIN seq = S
    OBVIOUS
  <2> QED BY <2>1 DEF FoldUp, FoldLeft, MapThenFoldSet
<1>2. \A s \in SUBSET S : s # {} => f[seq[Max(s)]] = g[seq[Max(s)]]
  <2> SUFFICES ASSUME NEW s \in SUBSET S, s # {} PROVE f[seq[Max(s)]] = g[seq[Max(s)]]
    OBVIOUS
  <2>1. Max(s) \in S
    BY GreatestIs
  <2>2. seq[Max(s)] = Max(s)
    BY <2>1
  <2> QED BY <2>1, <2>2
<1> HIDE DEF S, seq
<1>3. \A iter : Def(iter, f) <=> Def(iter, g)
  BY <1>2
<1> HIDE DEF Def
<1>4. (CHOOSE iter : Def(iter, f)) = (CHOOSE iter : Def(iter, g))
  BY <1>3
<1> QED BY <1>1, <1>4

\* What is summed before n + 1 is summed before n, and the n + 1st.
LEMMA FoldStep ==
  ASSUME NEW n \in Nat, NEW f, \A i \in 1 .. n + 1 : f[i] \in Int
  PROVE  /\ FoldUp(f, 0) = 0 /\ FoldUp(f, n) \in Int
         /\ FoldUp(f, n + 1) = FoldUp(f, n) + f[n + 1]
<1> DEFINE S == 1 .. n + 1
           g == [i \in S |-> f[i]]
<1>1. g \in [S -> Int] /\ (\A i \in S : f[i] = g[i]) /\ IsFiniteSet(S)
  BY FS_Interval
<1>2. Summed(g, S)
  <2> HIDE DEF g, S
  <2> QED BY <1>1, OneMore
<1>3. ASSUME NEW k \in 0 .. n + 1
      PROVE  FoldUp(f, k) = SumOf(g, 1 .. k)
  <2> DEFINE T == 1 .. k
             h == [i \in T |-> f[i]]
  <2>1. T \in SUBSET S /\ k \in Nat
    OBVIOUS
  <2>2. h \in [T -> Int] /\ (\A i \in T : f[i] = h[i]) /\ \A i \in T : g[i] = h[i]
    BY <1>1, <2>1
  <2> HIDE DEF h, g, S
  <2>3. FoldUp(f, k) = FoldUp(h, k)
    BY <2>1, <2>2, FoldAgree
  <2>4. FoldUp(h, k) = SumOf(h, T)
    BY <2>1, <2>2, FoldIsSum
  <2> HIDE DEF T
  <2>5. SumOf(g, T) = SumOf(h, T)
    BY <1>1, <2>1, <2>2, SumAgree, ZenonT(60)
  <2> QED BY <2>3, <2>4, <2>5 DEF T
<1>4. 1 .. 0 = {} /\ 1 .. n \in SUBSET S /\ n + 1 \in S \ (1 .. n) /\ S = (1 .. n) \cup {n + 1}
      /\ 0 \in 0 .. n + 1 /\ n \in 0 .. n + 1 /\ n + 1 \in 0 .. n + 1
  OBVIOUS
<1>5. FoldUp(f, 0) = SumOf(g, {}) /\ FoldUp(f, n) = SumOf(g, 1 .. n)
      /\ FoldUp(f, n + 1) = SumOf(g, S)
  BY <1>3, <1>4
<1>6. g[n + 1] = f[n + 1]
  BY <1>1, <1>4
<1> HIDE DEF g
<1> HIDE DEF S
<1>7. /\ SumOf(g, {}) = 0 /\ SumOf(g, 1 .. n) \in Int
      /\ SumOf(g, (1 .. n) \cup {n + 1}) = g[n + 1] + SumOf(g, 1 .. n) /\ g[n + 1] \in Int
  <2> DEFINE T == 1 .. n
  <2>1. T \in SUBSET S /\ n + 1 \in S \ T
    BY <1>4
  <2> HIDE DEF T
  <2>2. /\ SumOf(g, {}) = 0 /\ SumOf(g, T) \in Int /\ g[n + 1] \in Int
        /\ SumOf(g, T \cup {n + 1}) = g[n + 1] + SumOf(g, T)
    BY <1>2, <2>1 DEF Summed
  <2> QED BY <2>2 DEF T
<1> QED BY <1>4, <1>5, <1>6, <1>7
------------------------------------------------------------------------------
(* Sequences put together                                                  *)

\* What FlattenSeq computes with: the sequences up to each place, put together.
Flattens(f, seqs) ==
  f = [i \in 1 .. Len(seqs) |-> IF i = 1 THEN seqs[i] ELSE f[i - 1] \o seqs[i]]

LEMMA FlattenIsChosen ==
  ASSUME NEW seqs, Len(seqs) # 0
  PROVE  FlattenSeq(seqs) = (CHOOSE f : Flattens(f, seqs))[Len(seqs)]
BY DEF FlattenSeq, Flattens

LEMMA FirstsOf ==
  ASSUME NEW V, NEW M \in Nat, NEW s \in [1 .. M -> V], NEW m \in 0 .. M
  PROVE  /\ [k \in 1 .. m |-> s[k]] \in Seq(V) /\ Len([k \in 1 .. m |-> s[k]]) = m
         /\ m = 0 => [k \in 1 .. m |-> s[k]] = <<>>
<1>1. m \in Nat /\ \A k \in 1 .. m : s[k] \in V
  OBVIOUS
<1>2. [k \in 1 .. m |-> s[k]] \in [1 .. m -> V]
  BY <1>1
<1>3. [k \in 1 .. m |-> s[k]] \in Seq(V) /\ Len([k \in 1 .. m |-> s[k]]) = m
  <2> DEFINE r == [k \in 1 .. m |-> s[k]]
  <2>1. r \in [1 .. m -> V] /\ m \in Nat
    BY <1>1, <1>2
  <2> HIDE DEF r
  <2>2. r \in Seq(V) /\ Len(r) = m
    BY <2>1
  <2> QED BY <2>2 DEF r
<1>4. ASSUME m = 0 PROVE [k \in 1 .. m |-> s[k]] = <<>>
  <2> DEFINE r == [k \in 1 .. m |-> s[k]]
  <2>1. r \in Seq(V) /\ Len(r) = 0
    BY <1>3, <1>4
  <2> HIDE DEF r
  <2>2. r = <<>>
    BY <2>1
  <2> QED BY <2>2 DEF r
<1> QED BY <1>3, <1>4

\* g[k] are the first k sequences of s.
PutTogether(g, s, V, m) ==
  /\ g[0] = <<>>
  /\ \A k \in 1 .. m : g[k] = g[k - 1] \o s[k]
  /\ \A k \in 0 .. m : g[k] \in Seq(V)

LEMMA TogetherExists ==
  ASSUME NEW V, NEW M \in Nat, NEW s \in [1 .. M -> Seq(V)]
  PROVE  \E g : PutTogether(g, s, V, M)
<1> DEFINE N == {m \in Nat : m <= M => \E g : PutTogether(g, s, V, m)}
<1>1. 0 \in N
  <2> DEFINE g == [i \in {0} |-> <<>>]
  <2>1. g[0] = <<>> /\ (\A k \in 1 .. 0 : FALSE) /\ \A k \in 0 .. 0 : k = 0
    OBVIOUS
  <2>2. <<>> \in Seq(V)
    OBVIOUS
  <2> HIDE DEF g
  <2>3. PutTogether(g, s, V, 0)
    BY <2>1, <2>2 DEF PutTogether
  <2> QED BY <2>3
<1>2. ASSUME NEW m \in N PROVE m + 1 \in N
  <2> SUFFICES ASSUME m + 1 <= M PROVE \E h : PutTogether(h, s, V, m + 1)
    OBVIOUS
  <2>1. m \in Nat /\ m <= M /\ m + 1 \in 1 .. M
    OBVIOUS
  <2>2. PICK g : PutTogether(g, s, V, m)
    BY <2>1
  <2> DEFINE h == [i \in 0 .. m + 1 |-> IF i <= m THEN g[i] ELSE g[m] \o s[m + 1]]
  <2>3. h[0] = <<>>
    BY <2>1, <2>2 DEF PutTogether
  <2>4. h[m + 1] = g[m] \o s[m + 1] /\ \A k \in 0 .. m : h[k] = g[k]
    <3>1. m + 1 \in 0 .. m + 1 /\ ~(m + 1 <= m)
      BY <2>1
    <3>2. \A k \in 0 .. m : k \in 0 .. m + 1 /\ k <= m
      BY <2>1
    <3>3. h[m + 1] = g[m] \o s[m + 1]
      BY <3>1
    <3> QED BY <3>2, <3>3
  <2> HIDE DEF h
  <2>5. ASSUME NEW k \in 1 .. m + 1 PROVE h[k] = h[k - 1] \o s[k]
    <3>1. CASE k <= m
      <4>1. k \in 1 .. m /\ k \in 0 .. m /\ k - 1 \in 0 .. m
        BY <2>1, <3>1
      <4>2. g[k] = g[k - 1] \o s[k]
        BY <2>2, <4>1 DEF PutTogether
      <4> QED BY <2>4, <4>1, <4>2
    <3>2. CASE ~(k <= m)
      <4>1. k = m + 1 /\ k - 1 = m /\ m \in 0 .. m
        BY <2>1, <3>2
      <4> QED BY <2>4, <4>1
    <3> QED BY <3>1, <3>2
  <2>6. ASSUME NEW k \in 0 .. m + 1 PROVE h[k] \in Seq(V)
    <3>1. CASE k <= m
      <4>1. k \in 0 .. m
        BY <2>1, <3>1
      <4> QED BY <2>2, <2>4, <4>1 DEF PutTogether
    <3>2. CASE ~(k <= m)
      <4>1. k = m + 1 /\ m \in 0 .. m
        BY <2>1, <3>2
      <4>2. g[m] \in Seq(V) /\ s[m + 1] \in Seq(V)
        BY <2>1, <2>2, <4>1 DEF PutTogether
      <4>3. g[m] \o s[m + 1] \in Seq(V)
        BY <4>2
      <4> QED BY <2>4, <4>1, <4>3
    <3> QED BY <3>1, <3>2
  <2>7. PutTogether(h, s, V, m + 1)
    BY <2>3, <2>5, <2>6 DEF PutTogether
  <2> QED BY <2>7
<1>3. N = Nat
  <2> HIDE DEF N
  <2>1. N \subseteq Nat
    BY DEF N
  <2> QED BY <1>1, <1>2, <2>1, UpFromZero
<1>4. M \in N
  <2> HIDE DEF N
  <2> QED BY <1>3
<1>5. M <= M
  OBVIOUS
<1> QED BY <1>4, <1>5

\* FlattenSeq puts the sequences together.
FirstsAre(r, s, V, M, m) ==
  /\ M \in Nat /\ m \in 0 .. M /\ s \in [1 .. M -> Seq(V)]
  /\ r \in Seq(Seq(V)) /\ Len(r) = m /\ \A k \in 1 .. m : r[k] = s[k]

LEMMA FlattenIs ==
  ASSUME NEW V, NEW M, NEW s, NEW g, PutTogether(g, s, V, M), NEW m, NEW r, FirstsAre(r, s, V, M, m)
  PROVE  FlattenSeq(r) = g[m]
<1> USE DEF FirstsAre
<1>1. m = 0 => r = <<>>
  OBVIOUS
<1>2. \A k \in 1 .. m : r[k] = s[k] /\ s[k] \in Seq(V)
  OBVIOUS
<1>3. CASE m = 0
  <2>1. FlattenSeq(r) = r /\ g[0] = <<>>
    BY <1>1, <1>3 DEF FlattenSeq, PutTogether
  <2> QED BY <1>1, <1>3, <2>1
<1>4. CASE m # 0
  <2>0. m \in Nat \ {0} /\ m <= M
    BY <1>4
  <2>1. FlattenSeq(r) = (CHOOSE f : Flattens(f, r))[m]
    BY <1>1, <1>4, FlattenIsChosen
  <2> DEFINE h == [i \in 1 .. m |-> g[i]]
  <2>2. Flattens(h, r)
    <3> SUFFICES ASSUME NEW i \in 1 .. m
                 PROVE  g[i] = IF i = 1 THEN r[i] ELSE h[i - 1] \o r[i]
      BY <1>1 DEF Flattens
    <3>1. i \in 1 .. M /\ g[i] = g[i - 1] \o s[i] /\ r[i] = s[i] /\ s[i] \in Seq(V)
      <4>1. i \in 1 .. M
        BY <2>0
      <4>2. g[i] = g[i - 1] \o s[i]
        BY <4>1 DEF PutTogether
      <4> QED BY <1>2, <4>1, <4>2
    <3>2. CASE i = 1
      <4>1. g[0] = <<>>
        BY DEF PutTogether
      <4>2. i - 1 = 0 /\ <<>> \o s[i] = s[i]
        BY <3>1, <3>2
      <4> QED BY <3>1, <3>2, <4>1, <4>2
    <3>3. CASE i # 1
      <4>1. i - 1 \in 1 .. m
        BY <2>0, <3>3
      <4> QED BY <3>1, <3>3, <4>1
    <3> QED BY <3>2, <3>3
  <2> HIDE DEF h
  <2>3. PICK f : f = (CHOOSE c : Flattens(c, r)) /\ Flattens(f, r)
    BY <2>2
  <2>4. \A i \in 1 .. m : f[i] = IF i = 1 THEN r[i] ELSE f[i - 1] \o r[i]
    <3>1. 1 .. Len(r) = 1 .. m
      OBVIOUS
    <3> QED BY <2>3, <3>1 DEF Flattens
  <2> DEFINE N == {i \in Nat : i + 1 <= m => f[i + 1] = g[i + 1]}
  <2>5. 0 \in N
    <3>1. 1 \in 1 .. m /\ 1 \in 1 .. M /\ 1 - 1 = 0
      BY <2>0
    <3>2. f[1] = s[1] /\ s[1] \in Seq(V)
      BY <1>2, <2>4, <3>1
    <3>3. g[1] = g[0] \o s[1] /\ g[0] = <<>>
      BY <3>1 DEF PutTogether
    <3>4. <<>> \o s[1] = s[1]
      BY <3>2
    <3> QED BY <3>2, <3>3, <3>4
  <2>6. ASSUME NEW i \in N PROVE i + 1 \in N
    <3> SUFFICES ASSUME i + 1 + 1 <= m PROVE f[i + 1 + 1] = g[i + 1 + 1]
      OBVIOUS
    <3>1. i + 1 <= m /\ i + 1 + 1 \in 1 .. m /\ i + 1 + 1 \in 1 .. M /\ (i + 1 + 1) - 1 = i + 1
          /\ i + 1 + 1 # 1
      BY <2>0
    <3>2. f[i + 1] = g[i + 1]
      BY <3>1
    <3>3. f[i + 1 + 1] = f[i + 1] \o s[i + 1 + 1]
      BY <1>2, <2>4, <3>1
    <3>4. g[i + 1 + 1] = g[i + 1] \o s[i + 1 + 1]
      BY <3>1 DEF PutTogether
    <3> QED BY <3>2, <3>3, <3>4
  <2>7. N = Nat
    <3> HIDE DEF N
    <3>1. N \subseteq Nat
      BY DEF N
    <3> QED BY <2>5, <2>6, <3>1, UpFromZero
  <2>8. f[m] = g[m]
    <3>1. m - 1 \in Nat /\ (m - 1) + 1 = m /\ m <= m
      BY <2>0
    <3>2. m - 1 \in N
      BY <2>7, <3>1
    <3> QED BY <3>1, <3>2
  <2> QED BY <2>1, <2>3, <2>8
<1> QED BY <1>3, <1>4

------------------------------------------------------------------------------
(* Labels and actions                                                      *)

LEMMA Quotient ==
  ASSUME NEW d \in Nat \ {0}, NEW q \in Nat, NEW r \in Nat, r < d
  PROVE  (r + d * q) % d = r /\ (r + d * q) \div d = q
<1> DEFINE x == r + d * q
           u == x \div d
           v == x % d
<1>1. x \in Nat /\ u \in Nat /\ v \in Nat /\ v < d /\ x = d * u + v
  <2>1. d * q \in Nat
    OBVIOUS
  <2>2. x \in Nat
    BY <2>1
  <2> HIDE DEF x
  <2>3. u \in Int /\ v \in 0 .. d - 1 /\ x = d * u + v
    BY <2>2
  <2>4. u >= 0
    <3> HIDE DEF u, v
    <3> SUFFICES ASSUME u <= -1 PROVE FALSE
      BY <2>3
    <3>1. d * u <= d * (-1)
      BY <2>3
    <3> QED BY <2>2, <2>3, <3>1
  <2> QED BY <2>2, <2>3, <2>4
<1> HIDE DEF u, v
<1>2. d * u + v = d * q + r
  BY <1>1
<1>3. ~(u < q)
  <2> SUFFICES ASSUME u + 1 <= q PROVE FALSE
    BY <1>1
  <2>1. d * (u + 1) <= d * q
    BY <1>1
  <2>2. d * (u + 1) = d * u + d
    BY <1>1
  <2>3. d * u \in Nat /\ d * q \in Nat
    BY <1>1
  <2> QED BY <1>1, <1>2, <2>1, <2>2, <2>3
<1>4. ~(q < u)
  <2> SUFFICES ASSUME q + 1 <= u PROVE FALSE
    BY <1>1
  <2>1. d * (q + 1) <= d * u
    BY <1>1
  <2>2. d * (q + 1) = d * q + d
    OBVIOUS
  <2>3. d * u \in Nat /\ d * q \in Nat
    BY <1>1
  <2> QED BY <1>1, <1>2, <2>1, <2>2, <2>3
<1>5. u = q
  BY <1>1, <1>3, <1>4
<1>6. v = r
  BY <1>1, <1>2, <1>5
<1> QED BY <1>5, <1>6 DEF u, v

Options(options) == options \in Seq(Nat \ {0}) /\ options # <<>>

LEMMA ShiftsAre ==
  ASSUME NEW options, Options(options)
  PROVE  LET n == Len(options)
             s == discreteActionShifts(options)
         IN /\ n \in Nat \ {0} /\ DOMAIN options = 1 .. n
            /\ \A i \in 1 .. n : s[i] \in Nat \ {0} /\ options[i] \in Nat \ {0}
            /\ s[1] = 1 /\ \A i \in 1 .. n : i # 1 => s[i] = s[i - 1] * options[i - 1]
<1> DEFINE n == Len(options)
           s == discreteActionShifts(options)
           Def(f) == f = [i \in DOMAIN options |-> IF i = 1 THEN 1 ELSE f[i - 1] * options[i - 1]]
<1>1. n \in Nat \ {0} /\ DOMAIN options = 1 .. n /\ \A i \in 1 .. n : options[i] \in Nat \ {0}
  BY DEF Options
<1>2. s = CHOOSE f : Def(f)
  BY DEF discreteActionShifts
<1> HIDE DEF s
<1>3. \E f : Def(f)
  <2> DEFINE V == Nat
             F == [p \in (1 .. n) \X Nat |-> IF p[1] = 1 THEN 1 ELSE p[2] * options[p[1] - 1]]
  <2>1. F \in [(1 .. n) \X Nat -> Nat]
    <3>1. \A p \in (1 .. n) \X Nat : (IF p[1] = 1 THEN 1 ELSE p[2] * options[p[1] - 1]) \in Nat
      <4> SUFFICES ASSUME NEW p \in (1 .. n) \X Nat, p[1] # 1
                   PROVE  p[2] * options[p[1] - 1] \in Nat
        OBVIOUS
      <4>1. p[1] \in 1 .. n /\ p[2] \in Nat
        OBVIOUS
      <4>2. p[1] - 1 \in 1 .. n
        BY <1>1, <4>1
      <4>3. options[p[1] - 1] \in Nat
        BY <1>1, <4>2
      <4> QED BY <4>1, <4>3
    <3> QED BY <3>1
  <2>2. \A k \in 1 .. n, v \in Nat : F[<<k, v>>] = IF k = 1 THEN 1 ELSE v * options[k - 1]
    OBVIOUS
  <2> HIDE DEF F
  <2>a. 1 \in V /\ n \in Nat /\ F \in [(1 .. n) \X V -> V]
    BY <1>1, <2>1
  <2>b. \E g : Recursion(g, n, V, 1, F)
    <3> HIDE DEF n, V
    <3> QED BY <2>a, RecursionExists
  <2>c. PICK g : Recursion(g, n, V, 1, F)
    BY <2>b
  <2>3. g \in [0 .. n -> Nat] /\ g[0] = 1 /\ \A k \in 1 .. n : g[k] = F[<<k, g[k - 1]>>]
    BY <2>c DEF Recursion
  <2> DEFINE h == [i \in 1 .. n |-> g[i]]
  <2>4. ASSUME NEW i \in 1 .. n PROVE h[i] = IF i = 1 THEN 1 ELSE h[i - 1] * options[i - 1]
    <3>1. i - 1 \in 0 .. n /\ g[i - 1] \in Nat
      BY <1>1, <2>3, SMTT(30)
    <3>2. g[i] = IF i = 1 THEN 1 ELSE g[i - 1] * options[i - 1]
      BY <2>2, <2>3, <3>1
    <3>3. i # 1 => i - 1 \in 1 .. n
      BY <1>1
    <3> QED BY <3>2, <3>3
  <2>5. Def(h)
    BY <1>1, <2>4
  <2> HIDE DEF Def
  <2> QED BY <2>5
<1>4. Def(s)
  <2> HIDE DEF Def
  <2> QED BY <1>2, <1>3
<1>5. \A i \in 1 .. n : s[i] = IF i = 1 THEN 1 ELSE s[i - 1] * options[i - 1]
  BY <1>1, <1>4
<1> DEFINE N == {k \in Nat : k + 1 <= n => s[k + 1] \in Nat \ {0}}
<1>6. 0 \in N
  BY <1>1, <1>5
<1>7. ASSUME NEW k \in N PROVE k + 1 \in N
  <2> SUFFICES ASSUME k + 1 + 1 <= n PROVE s[k + 1 + 1] \in Nat \ {0}
    OBVIOUS
  <2>1. k + 1 + 1 \in 1 .. n /\ k + 1 \in 1 .. n /\ (k + 1 + 1) - 1 = k + 1 /\ k + 1 + 1 # 1
    BY <1>1
  <2>2. s[k + 1 + 1] = s[k + 1] * options[k + 1]
    BY <1>5, <2>1
  <2>3. s[k + 1] \in Nat \ {0} /\ options[k + 1] \in Nat \ {0}
    BY <1>1, <2>1
  <2>4. \A a, b \in Nat \ {0} : a * b \in Nat \ {0}
    OBVIOUS
  <2> QED BY <2>2, <2>3, <2>4
<1>8. N = Nat
  <2> HIDE DEF N
  <2>1. N \subseteq Nat
    BY DEF N
  <2> QED BY <1>6, <1>7, <2>1, UpFromZero
<1>9. ASSUME NEW i \in 1 .. n PROVE s[i] \in Nat \ {0}
  <2>1. i - 1 \in N /\ (i - 1) + 1 = i
    <3> HIDE DEF N
    <3> QED BY <1>1, <1>8
  <2> QED BY <2>1
<1> QED BY <1>1, <1>5, <1>9 DEF s

\* The numbers of an action, and the label that they make up to each place.
LEMMA LabelsUpTo ==
  ASSUME NEW options, Options(options), NEW action \in [DOMAIN options -> Nat],
         \A j \in DOMAIN options : action[j] < options[j]
  PROVE  LET n == Len(options)
             s == discreteActionShifts(options)
             f == [i \in 1 .. n |-> s[i] * action[i]]
         IN \A k \in 1 .. n :
              /\ FoldUp(f, k) \in Nat /\ FoldUp(f, k) < s[k] * options[k]
              /\ k < n => FoldUp(f, k) < s[k + 1]
              /\ FoldUp(f, k) = FoldUp(f, k - 1) + s[k] * action[k]
              /\ FoldUp(f, k) \div s[k] = action[k]
              /\ k # 1 => FoldUp(f, k) % s[k] = FoldUp(f, k - 1)
<1> DEFINE n == Len(options)
           s == discreteActionShifts(options)
           f == [i \in 1 .. n |-> s[i] * action[i]]
<1>1. /\ n \in Nat \ {0} /\ DOMAIN options = 1 .. n
      /\ \A i \in 1 .. n : s[i] \in Nat \ {0} /\ options[i] \in Nat \ {0} /\ action[i] \in Nat
                           /\ action[i] < options[i]
      /\ s[1] = 1 /\ \A i \in 1 .. n : i # 1 => s[i] = s[i - 1] * options[i - 1]
  BY ShiftsAre
<1> HIDE DEF s
<1>2. \A i \in 1 .. n : f[i] = s[i] * action[i] /\ f[i] \in Int
  <2>1. \A i \in 1 .. n : s[i] * action[i] \in Int
    BY <1>1
  <2> QED BY <2>1
<1> HIDE DEF f, n
<1>3. ASSUME NEW k \in 0 .. n - 1
      PROVE  FoldUp(f, 0) = 0 /\ FoldUp(f, k) \in Int /\ FoldUp(f, k + 1) = FoldUp(f, k) + s[k + 1] * action[k + 1]
  <2>1. k \in Nat /\ k + 1 \in 1 .. n /\ \A i \in 1 .. k + 1 : i \in 1 .. n
    BY <1>1
  <2>2. \A i \in 1 .. k + 1 : f[i] \in Int
    BY <1>2, <2>1
  <2> QED BY <1>2, <2>1, <2>2, FoldStep
<1>4. ASSUME NEW k \in 0 .. n - 1, FoldUp(f, k) \in Nat, FoldUp(f, k) < s[k + 1]
      PROVE  /\ FoldUp(f, k + 1) \in Nat /\ FoldUp(f, k + 1) < s[k + 1] * options[k + 1]
             /\ FoldUp(f, k + 1) \div s[k + 1] = action[k + 1]
             /\ FoldUp(f, k + 1) % s[k + 1] = FoldUp(f, k)
  <2> DEFINE r == FoldUp(f, k)
             d == s[k + 1]
             q == action[k + 1]
             o == options[k + 1]
  <2>1. k + 1 \in 1 .. n
    BY <1>1
  <2>2. d \in Nat \ {0} /\ q \in Nat /\ o \in Nat \ {0} /\ q < o
    BY <1>1, <2>1
  <2>3. FoldUp(f, k + 1) = r + d * q
    BY <1>3
  <2>4. r \in Nat /\ r < d
    BY <1>4
  <2> HIDE DEF r, d, q, o
  <2>5. (r + d * q) % d = r /\ (r + d * q) \div d = q
    BY <2>2, <2>4, Quotient
  <2>6. r + d * q \in Nat /\ r + d * q < d * o
    <3>1. d * (q + 1) <= d * o
      BY <2>2
    <3>2. d * (q + 1) = d * q + d /\ d * q \in Nat /\ d * o \in Nat
      BY <2>2
    <3> QED BY <2>2, <2>4, <3>1, <3>2
  <2> QED BY <2>3, <2>5, <2>6 DEF r, d, q, o
<1> DEFINE N == {k \in Nat : k + 1 <= n => FoldUp(f, k) \in Nat /\ FoldUp(f, k) < s[k + 1]}
<1>5. 0 \in N
  <2>1. 0 \in 0 .. n - 1
    BY <1>1
  <2> QED BY <1>1, <1>3, <2>1
<1>6. ASSUME NEW k \in N PROVE k + 1 \in N
  <2> SUFFICES ASSUME k + 1 + 1 <= n
               PROVE  FoldUp(f, k + 1) \in Nat /\ FoldUp(f, k + 1) < s[k + 1 + 1]
    OBVIOUS
  <2>1. /\ k \in 0 .. n - 1 /\ k + 1 \in 1 .. n /\ k + 1 + 1 \in 1 .. n /\ k + 1 + 1 # 1
        /\ (k + 1 + 1) - 1 = k + 1
    BY <1>1
  <2>2. FoldUp(f, k) \in Nat /\ FoldUp(f, k) < s[k + 1]
    BY <1>1, <2>1
  <2>3. s[k + 1 + 1] = s[k + 1] * options[k + 1]
    BY <1>1, <2>1
  <2> QED BY <1>4, <2>1, <2>2, <2>3
<1>7. N = Nat
  <2> HIDE DEF N
  <2>1. N \subseteq Nat
    BY DEF N
  <2> QED BY <1>5, <1>6, <2>1, UpFromZero
<1>8. \A k \in 0 .. n - 1 : FoldUp(f, k) \in Nat /\ FoldUp(f, k) < s[k + 1]
  <2> SUFFICES ASSUME NEW k \in 0 .. n - 1 PROVE FoldUp(f, k) \in Nat /\ FoldUp(f, k) < s[k + 1]
    OBVIOUS
  <2>1. k \in N /\ k + 1 <= n
    <3> HIDE DEF N
    <3> QED BY <1>1, <1>7
  <2> QED BY <2>1
<1>9. ASSUME NEW k \in 1 .. n
      PROVE  /\ FoldUp(f, k) \in Nat /\ FoldUp(f, k) < s[k] * options[k]
             /\ k < n => FoldUp(f, k) < s[k + 1]
             /\ FoldUp(f, k) = FoldUp(f, k - 1) + s[k] * action[k]
             /\ FoldUp(f, k) \div s[k] = action[k]
             /\ k # 1 => FoldUp(f, k) % s[k] = FoldUp(f, k - 1)
  <2>1. k - 1 \in 0 .. n - 1 /\ (k - 1) + 1 = k /\ (k < n => k \in 0 .. n - 1)
    BY <1>1
  <2> QED BY <1>3, <1>4, <1>8, <2>1
<1> QED BY <1>9 DEF n, s, f

\* For any numbers of options the label of an action is below the largest, and the action
\* is what comes out of its label: no two actions have the same
\* (ActionInfo::actionMessage2label, label2actionMessage).
THEOREM LabelsInvert ==
  ASSUME NEW options, Options(options), NEW action \in [DOMAIN options -> Nat],
         \A j \in DOMAIN options : action[j] < options[j]
  PROVE  LET label == actionMessage2label(options, action) IN
         /\ label \in Nat /\ label < maxActionLabel(options)
         /\ label2actionMessage(options, label) = action
<1> DEFINE n == Len(options)
           s == discreteActionShifts(options)
           f == [i \in 1 .. n |-> s[i] * action[i]]
           U(k) == FoldUp(f, k)
           label == actionMessage2label(options, action)
<1>1. /\ n \in Nat \ {0} /\ DOMAIN options = 1 .. n
      /\ \A i \in 1 .. n : s[i] \in Nat \ {0} /\ action[i] \in Nat
  BY ShiftsAre
<1>2. \A k \in 1 .. n :
        /\ U(k) \in Nat /\ U(k) < s[k] * options[k] /\ U(k) \div s[k] = action[k]
        /\ k # 1 => U(k) % s[k] = U(k - 1)
  BY LabelsUpTo
<1>3. label = U(n)
  <2> DEFINE S == 1 .. n
             seq == [i \in S |-> i]
             Def(iter) == iter = [t \in SUBSET S |->
               IF t = {} THEN 0 ELSE iter[t \ {Max(t)}] + f[seq[Max(t)]]]
             Der(iter) == iter = [t \in SUBSET S |->
               IF t = {} THEN 0 ELSE iter[t \ {Max(t)}] + s[seq[Max(t)]] * action[seq[Max(t)]]]
  <2>1. DOMAIN seq = S /\ DOMAIN options = S
    BY <1>1
  <2>2. U(n) = (CHOOSE iter : Def(iter))[S]
    BY <2>1 DEF FoldUp, FoldLeft, MapThenFoldSet
  <2>3. label = (CHOOSE iter : Der(iter))[S]
    BY <2>1 DEF actionMessage2label, FoldLeft, MapThenFoldSet
  <2>4. \A t \in SUBSET S : t # {} => f[seq[Max(t)]] = s[seq[Max(t)]] * action[seq[Max(t)]]
    <3> SUFFICES ASSUME NEW t \in SUBSET S, t # {}
                 PROVE  f[seq[Max(t)]] = s[seq[Max(t)]] * action[seq[Max(t)]]
      OBVIOUS
    <3>1. Max(t) \in S
      BY <1>1, GreatestIs
    <3>2. seq[Max(t)] = Max(t)
      BY <3>1
    <3> QED BY <3>1, <3>2
  <2> HIDE DEF S, seq, f, s
  <2>5. \A iter : Def(iter) <=> Der(iter)
    BY <2>4
  <2> HIDE DEF Def, Der
  <2>6. (CHOOSE iter : Def(iter)) = (CHOOSE iter : Der(iter))
    BY <2>5
  <2> QED BY <2>2, <2>3, <2>6
<1>4. n \in 1 .. n
  BY <1>1
<1>5. label \in Nat /\ label < maxActionLabel(options)
  BY <1>2, <1>3, <1>4 DEF maxActionLabel
<1> DEFINE Def(g) == g = [i \in 1 .. n |-> IF i = n THEN label ELSE g[i + 1] % s[i + 1]]
           rest == CHOOSE g : Def(g)
<1>6. label2actionMessage(options, label) = [i \in 1 .. n |-> rest[i] \div s[i]]
  BY DEF label2actionMessage
<1> HIDE DEF label, s, f, n
<1>7. Def([i \in 1 .. n |-> U(i)])
  <2> DEFINE h == [i \in 1 .. n |-> U(i)]
  <2>1. ASSUME NEW i \in 1 .. n PROVE h[i] = IF i = n THEN label ELSE h[i + 1] % s[i + 1]
    <3>1. i # n => i + 1 \in 1 .. n /\ i + 1 # 1 /\ (i + 1) - 1 = i
      BY <1>1
    <3> QED BY <1>2, <1>3, <3>1
  <2> QED BY <2>1
<1>8. Def(rest)
  <2> HIDE DEF Def
  <2> QED BY <1>7
<1>9. \A i \in 1 .. n : rest[i] = IF i = n THEN label ELSE rest[i + 1] % s[i + 1]
  BY <1>8
<1> HIDE DEF rest, Def
<1> DEFINE N == {k \in Nat : k < n => rest[n - k] = U(n - k)}
<1>10. 0 \in N
  BY <1>1, <1>3, <1>4, <1>9
<1>11. ASSUME NEW k \in N PROVE k + 1 \in N
  <2> SUFFICES ASSUME k + 1 < n PROVE rest[n - (k + 1)] = U(n - (k + 1))
    OBVIOUS
  <2>1. /\ n - (k + 1) \in 1 .. n /\ n - (k + 1) # n /\ (n - (k + 1)) + 1 = n - k /\ n - k \in 1 .. n
        /\ n - k # 1 /\ (n - k) - 1 = n - (k + 1)
    BY <1>1
  <2>2. rest[n - k] = U(n - k)
    BY <1>1, <2>1
  <2>3. rest[n - (k + 1)] = rest[n - k] % s[n - k]
    BY <1>9, <2>1
  <2> QED BY <1>2, <2>1, <2>2, <2>3
<1>12. N = Nat
  <2> HIDE DEF N
  <2>1. N \subseteq Nat
    BY DEF N
  <2> QED BY <1>10, <1>11, <2>1, UpFromZero
<1>13. \A i \in 1 .. n : rest[i] \div s[i] = action[i]
  <2> SUFFICES ASSUME NEW i \in 1 .. n PROVE rest[i] = U(i)
    BY <1>2
  <2>1. n - i \in N /\ n - (n - i) = i /\ n - i < n
    <3> HIDE DEF N
    <3> QED BY <1>1, <1>12
  <2> QED BY <2>1
<1>14. label2actionMessage(options, label) = action
  <2>1. action = [i \in 1 .. n |-> action[i]]
    BY <1>1
  <2> QED BY <1>6, <1>13, <2>1
<1> QED BY <1>5, <1>14 DEF label, n

------------------------------------------------------------------------------
(* Observed and hidden components                                          *)

PlaceIn(S, i) == Cardinality({j \in S : j <= i})

LEMMA PlacesInOrder ==
  ASSUME NEW n \in Nat, NEW S \in SUBSET (1 .. n)
  PROVE  /\ IsFiniteSet(S) /\ Cardinality(S) \in Nat
         /\ \A i \in S : PlaceIn(S, i) \in 1 .. Cardinality(S)
         /\ \A i, k \in S : PlaceIn(S, i) = PlaceIn(S, k) => i = k
<1> DEFINE To(i) == {j \in S : j <= i}
<1>0. \A j \in S : j \in Int
  OBVIOUS
<1>1. IsFiniteSet(S) /\ Cardinality(S) \in Nat
  <2>1. IsFiniteSet(1 .. n)
    BY FS_Interval
  <2> QED BY <2>1, FS_Subset, FS_CardinalityType
<1>2. \A i \in S : IsFiniteSet(To(i)) /\ Cardinality(To(i)) \in Nat
                   /\ Cardinality(To(i)) <= Cardinality(S)
  <2> SUFFICES ASSUME NEW i \in S
               PROVE  IsFiniteSet(To(i)) /\ Cardinality(To(i)) \in Nat
                      /\ Cardinality(To(i)) <= Cardinality(S)
    OBVIOUS
  <2>1. To(i) \in SUBSET S
    OBVIOUS
  <2> HIDE DEF To
  <2> QED BY <1>1, <2>1, FS_Subset, FS_CardinalityType
<1>3. ASSUME NEW i \in S, NEW k \in S, i < k
      PROVE  Cardinality(To(i)) < Cardinality(To(k))
  <2>1. i \in Int /\ k \in Int
    OBVIOUS
  <2>2. To(i) \in SUBSET To(k) /\ k \in To(k) /\ k \notin To(i)
    <3>1. \A j \in S : j <= i => j <= k
      BY <1>0, <1>3
    <3>2. k <= k /\ ~(k <= i)
      BY <1>0, <1>3
    <3> QED BY <3>1, <3>2
  <2>3. To(i) # To(k)
    BY <2>2
  <2>4. IsFiniteSet(To(k)) /\ Cardinality(To(i)) \in Nat /\ Cardinality(To(k)) \in Nat
    BY <1>2
  <2> HIDE DEF To
  <2>5. Cardinality(To(i)) <= Cardinality(To(k)) /\ Cardinality(To(i)) # Cardinality(To(k))
    BY <2>2, <2>3, <2>4, FS_Subset
  <2> QED BY <2>4, <2>5
<1>4. \A i \in S : Cardinality(To(i)) # 0
  <2> SUFFICES ASSUME NEW i \in S PROVE Cardinality(To(i)) # 0
    OBVIOUS
  <2>1. i \in To(i)
    OBVIOUS
  <2> QED BY <1>2, <2>1, FS_EmptySet
<1> HIDE DEF To
<1>5. \A i \in S : Cardinality(To(i)) \in 1 .. Cardinality(S)
  BY <1>1, <1>2, <1>4
<1>6. ASSUME NEW i \in S, NEW k \in S, Cardinality(To(i)) = Cardinality(To(k)) PROVE i = k
  <2>1. i \in Int /\ k \in Int /\ Cardinality(To(i)) \in Nat
    BY <1>2
  <2> QED BY <1>3, <1>6, <2>1
<1> QED BY <1>1, <1>5, <1>6 DEF PlaceIn, To

LEMMA PlacesFilled ==
  ASSUME NEW n \in Nat, NEW S \in SUBSET (1 .. n), NEW k \in 1 .. Cardinality(S)
  PROVE  \E i \in S : PlaceIn(S, i) = k
<1> DEFINE c == Cardinality(S)
           T == 1 .. c
           f == [i \in S |-> PlaceIn(S, i)]
<1>1. IsFiniteSet(S) /\ c \in Nat /\ f \in [S -> T] /\ \A i, j \in S : f[i] = f[j] => i = j
  BY PlacesInOrder
<1>2. IsFiniteSet(T) /\ Cardinality(T) = c
  <2> HIDE DEF c
  <2> QED BY <1>1, FS_Interval
<1>3. Cardinality(S) = c /\ k \in T
  OBVIOUS
<1> HIDE DEF T, c, f
<1>4. f \in Injection(S, T)
  BY <1>1 DEF Injection, IsInjective
<1>5. f \in Surjection(S, T)
  BY <1>1, <1>2, <1>3, <1>4, FS_Injection
<1>6. \E i \in S : f[i] = k
  BY <1>3, <1>5 DEF Surjection
<1> QED BY <1>6 DEF f

\* Each component is found at its place.
Finds(l, S, v) == \A i \in S : l[PlaceIn(S, i)] = v[i]

LEMMA AtIs ==
  ASSUME NEW n \in Nat, NEW S \in SUBSET (1 .. n), NEW V, NEW v \in [1 .. n -> V]
  PROVE  /\ At(v, S) \in [1 .. Cardinality(S) -> V] /\ Cardinality(S) \in Nat
         /\ Finds(At(v, S), S, v)
<1> DEFINE c == Cardinality(S)
           Pick(k) == CHOOSE i \in S : PlaceIn(S, i) = k
<1>1. c \in Nat /\ (\A i \in S : PlaceIn(S, i) \in 1 .. c)
      /\ \A i, k \in S : PlaceIn(S, i) = PlaceIn(S, k) => i = k
  BY PlacesInOrder
<1>2. \A k \in 1 .. c : \E i \in S : PlaceIn(S, i) = k
  BY PlacesFilled
<1>3. At(v, S) = [k \in 1 .. c |-> v[Pick(k)]]
  BY DEF At, PlaceIn
<1> HIDE DEF c
<1>4. \A k \in 1 .. c : Pick(k) \in S /\ PlaceIn(S, Pick(k)) = k
  BY <1>2
<1>5. \A i \in S : Pick(PlaceIn(S, i)) = i
  BY <1>1, <1>4
<1> HIDE DEF Pick
<1>6. \A k \in 1 .. c : v[Pick(k)] \in V
  BY <1>4
<1>7. At(v, S) \in [1 .. c -> V]
  BY <1>3, <1>6
<1>8. \A i \in S : At(v, S)[PlaceIn(S, i)] = v[i]
  BY <1>1, <1>3, <1>5
<1> QED BY <1>1, <1>7, <1>8 DEF c, Finds

LEMMA TwoParts ==
  ASSUME NEW n \in Nat, NEW S \in SUBSET (1 .. n), NEW i \in 0 .. n
  PROVE  /\ PlaceIn(S, i) \in Nat /\ PlaceIn((1 .. n) \ S, i) \in Nat
         /\ PlaceIn(S, i) + PlaceIn((1 .. n) \ S, i) = i
         /\ PlaceIn(S, n) = Cardinality(S)
<1> DEFINE H == (1 .. n) \ S
           A == {j \in S : j <= i}
           B == {j \in H : j <= i}
<1>1. IsFiniteSet(1 .. i) /\ Cardinality(1 .. i) = i
  BY FS_Interval
<1>0. \A j \in S : j \in 1 .. n
  OBVIOUS
<1>2. A \in SUBSET (1 .. i) /\ B \in SUBSET (1 .. i) /\ A \cup B = 1 .. i /\ A \cap B = {}
  <2>1. \A j \in A : j \in 1 .. i
    BY <1>0
  <2>2. \A j \in B : j \in 1 .. i
    OBVIOUS
  <2>3. \A j \in 1 .. i : j \in 1 .. n /\ j <= i
    OBVIOUS
  <2>4. \A j \in 1 .. i : j \in A \/ j \in B
    BY <2>3
  <2>5. \A j \in A : j \notin B
    OBVIOUS
  <2> HIDE DEF A, B
  <2> QED BY <2>1, <2>2, <2>4, <2>5
<1> HIDE DEF A, B
<1>3. IsFiniteSet(A) /\ IsFiniteSet(B) /\ Cardinality(A) \in Nat /\ Cardinality(B) \in Nat
  BY <1>1, <1>2, FS_Subset, FS_CardinalityType
<1>4. Cardinality(A \cup B) = Cardinality(A) + Cardinality(B) - Cardinality(A \cap B)
  BY <1>3, FS_Union
<1>5. Cardinality(A) + Cardinality(B) = i
  <2>1. Cardinality({}) = 0
    BY FS_EmptySet
  <2>2. Cardinality(A \cup B) = i /\ Cardinality(A \cap B) = 0
    BY <1>1, <1>2, <2>1, Zenon
  <2> QED BY <1>3, <1>4, <2>2
<1>6. {j \in S : j <= n} = S
  <2>1. \A j \in S : j <= n
    BY <1>0
  <2> QED BY <2>1
<1> QED BY <1>3, <1>5, <1>6 DEF PlaceIn, A, B

\* The observed components of a state.
Seen(mdp) == {i \in 1 .. mdp.dimState : mdp.observed[i]}

\* A descriptor that was accepted.
HasStates(mdp) == mdp.dimState \in Nat /\ mdp.observed \in [1 .. mdp.dimState -> BOOLEAN]

LEMMA PartsOfState ==
  ASSUME NEW mdp, HasStates(mdp), NEW V, NEW v \in [1 .. mdp.dimState -> V]
  PROVE  LET n == mdp.dimState
             dS == dimStateObserved(mdp)
         IN /\ dS \in 0 .. n
            /\ state2observed(mdp, v) \in [1 .. dS -> V]
            /\ state2nonObserved(mdp, v) \in [1 .. n - dS -> V]
            /\ observedAndLatent2state(mdp, state2observed(mdp, v), state2nonObserved(mdp, v)) = v
<1> DEFINE n == mdp.dimState
           dS == dimStateObserved(mdp)
           S == Seen(mdp)
           H == (1 .. n) \ S
           o == state2observed(mdp, v)
           l == state2nonObserved(mdp, v)
           nSeen(i) == Cardinality({j \in 1 .. i : mdp.observed[j]})
<1>1. n \in Nat /\ S \in SUBSET (1 .. n) /\ H \in SUBSET (1 .. n) /\ \A i \in 1 .. n : mdp.observed[i] <=> i \in S
  BY DEF HasStates, Seen
<1>2. dS = Cardinality(S)
  BY DEF HasStates, Seen, dimStateObserved
<1>3. o = At(v, S)
  BY DEF state2observed, Seen
<1>4. l = At(v, H)
  <2>1. H = {i \in 1 .. n : ~mdp.observed[i]}
    BY DEF Seen
  <2> HIDE DEF H
  <2> QED BY <2>1 DEF state2nonObserved
<1>5. Cardinality(S) \in Nat /\ Cardinality(H) \in Nat /\ Cardinality(S) + Cardinality(H) = n
  <2>1. n \in 0 .. n /\ (1 .. n) \ H = S
    BY <1>1
  <2>2. PlaceIn(S, n) = Cardinality(S) /\ PlaceIn(S, n) \in Nat /\ PlaceIn(H, n) \in Nat
        /\ PlaceIn(S, n) + PlaceIn(H, n) = n
    <3> HIDE DEF S, n
    <3> QED BY <1>1, <2>1, TwoParts
  <2>3. PlaceIn(H, n) = Cardinality(H)
    <3> HIDE DEF S, H, n
    <3> QED BY <1>1, <2>1, TwoParts
  <2> QED BY <2>2, <2>3
<1>6. ASSUME NEW i \in 1 .. n
      PROVE  nSeen(i) = PlaceIn(S, i) /\ i - nSeen(i) = PlaceIn(H, i)
  <2>1. {j \in 1 .. i : mdp.observed[j]} = {j \in S : j <= i}
    BY <1>1 DEF Seen
  <2>2. nSeen(i) = PlaceIn(S, i)
    BY <2>1 DEF PlaceIn
  <2>3. i \in 0 .. n
    BY <1>1
  <2>4. PlaceIn(S, i) \in Nat /\ PlaceIn(H, i) \in Nat /\ PlaceIn(S, i) + PlaceIn(H, i) = i
    <3> HIDE DEF S, n
    <3> QED BY <1>1, <2>3, TwoParts
  <2> HIDE DEF H, S, nSeen
  <2> QED BY <2>2, <2>4
<1>a. v \in [1 .. n -> V]
  OBVIOUS
<1>9. observedAndLatent2state(mdp, o, l) = [i \in 1 .. n |-> IF mdp.observed[i] THEN o[nSeen(i)] ELSE l[i - nSeen(i)]]
  BY DEF observedAndLatent2state
<1> HIDE DEF S, o, l, n
<1>7. o \in [1 .. Cardinality(S) -> V] /\ \A i \in S : o[PlaceIn(S, i)] = v[i]
  <2>1. n \in Nat /\ S \in SUBSET (1 .. n) /\ v \in [1 .. n -> V]
    BY <1>1, <1>a
  <2>2. /\ At(v, S) \in [1 .. Cardinality(S) -> V]
        /\ Finds(At(v, S), S, v)
    BY <2>1, AtIs, Zenon
  <2> QED BY <1>3, <2>2, Zenon DEF Finds
<1>8. l \in [1 .. Cardinality(H) -> V] /\ \A i \in H : l[PlaceIn(H, i)] = v[i]
  <2> HIDE DEF H
  <2>1. n \in Nat /\ H \in SUBSET (1 .. n) /\ v \in [1 .. n -> V]
    BY <1>1, <1>a
  <2>2. /\ At(v, H) \in [1 .. Cardinality(H) -> V]
        /\ Finds(At(v, H), H, v)
    BY <2>1, AtIs, Zenon
  <2> QED BY <1>4, <2>2, Zenon DEF Finds
<1>10. \A i \in 1 .. n : (IF mdp.observed[i] THEN o[nSeen(i)] ELSE l[i - nSeen(i)]) = v[i]
  <2> HIDE DEF nSeen
  <2> QED BY <1>1, <1>6, <1>7, <1>8
<1>11. observedAndLatent2state(mdp, o, l) = v
  <2>1. v = [i \in 1 .. n |-> v[i]]
    BY <1>a
  <2> HIDE DEF nSeen
  <2> QED BY <1>9, <1>10, <2>1
<1>12. dS \in 0 .. n /\ Cardinality(H) = n - dS
  BY <1>1, <1>2, <1>5
<1> QED BY <1>2, <1>7, <1>8, <1>11, <1>12 DEF o, l, n

------------------------------------------------------------------------------
(* Episodes that are packed and read back                                  *)

\* x is a, and b after it.
Joins(x, a, b, m, n) ==
  /\ x \in Seq(Int) /\ Len(x) = m + n
  /\ \A j \in 1 .. m : x[j] = a[j]
  /\ \A j \in 1 .. n : x[m + j] = b[j]

LEMMA Appended ==
  ASSUME NEW a \in Seq(Int), NEW b \in Seq(Int), NEW m, NEW n, Len(a) = m, Len(b) = n
  PROVE  Joins(a \o b, a, b, m, n)
<1>1. m \in Nat /\ n \in Nat
  OBVIOUS
<1>2. a \o b \in Seq(Int) /\ Len(a \o b) = m + n
  OBVIOUS
<1>3. \A j \in 1 .. m : (a \o b)[j] = a[j]
  BY <1>1
<1>4. ASSUME NEW j \in 1 .. n PROVE (a \o b)[m + j] = b[j]
  <2>1. m + j \in 1 .. m + n /\ ~(m + j <= m) /\ (m + j) - m = j
    BY <1>1
  <2>2. \A i \in 1 .. m + n : (a \o b)[i] = IF i <= m THEN a[i] ELSE b[i - m]
    BY ConcatProperties
  <2>3. (a \o b)[m + j] = b[(m + j) - m]
    BY <2>1, <2>2, Zenon
  <2> QED BY <2>1, <2>3
<1> QED BY <1>2, <1>3, <1>4 DEF Joins

\* Rows of one length, put together: each is found again.
Rows(d, s, k, L) ==
  /\ d \in Seq(Int) /\ Len(d) = k * L
  /\ \A t \in 1 .. k : \A j \in 1 .. L : d[(t - 1) * L + j] = s[t][j]

LEMMA OneMoreRow ==
  ASSUME NEW k \in Nat, NEW L \in Nat, NEW s, NEW a, Rows(a, s, k, L), NEW b, b = s[k + 1],
         b \in Seq(Int), Len(b) = L
  PROVE  Rows(a \o b, s, k + 1, L)
<1> DEFINE kL == k * L
<1>1. kL \in Nat /\ (k + 1) * L = kL + L /\ ((k + 1) - 1) * L = kL
  <2>1. k * L \in Nat
    OBVIOUS
  <2>2. (k + 1) * L = k * L + L
    OBVIOUS
  <2>3. (k + 1) - 1 = k
    OBVIOUS
  <2> QED BY <2>1, <2>2, <2>3
<1>2. a \in Seq(Int) /\ Len(a) = kL
  BY DEF Rows
<1>3. Joins(a \o b, a, b, kL, L)
  <2> HIDE DEF kL
  <2> QED BY <1>2, Appended, Zenon
<1> DEFINE x == a \o b
<1> HIDE DEF x
<1>4. ASSUME NEW t \in 1 .. k, NEW j \in 1 .. L PROVE x[(t - 1) * L + j] = s[t][j]
  <2> DEFINE q == (t - 1) * L
             m == (k - 1) * L
  <2>1. t - 1 \in Nat /\ t - 1 <= k - 1 /\ k - 1 \in Nat
    OBVIOUS
  <2>2. q \in Nat /\ m \in Nat /\ q <= m
    BY <2>1
  <2>3. m = kL - L
    OBVIOUS
  <2>4. a[q + j] = s[t][j]
    BY DEF Rows
  <2> HIDE DEF q, m, kL
  <2>5. q + j \in 1 .. kL
    BY <1>1, <2>2, <2>3
  <2>6. x[q + j] = a[q + j]
    BY <1>3, <2>5 DEF Joins, x
  <2> QED BY <2>4, <2>6 DEF q
<1>5. ASSUME NEW j \in 1 .. L PROVE x[((k + 1) - 1) * L + j] = s[k + 1][j]
  <2> HIDE DEF kL
  <2>1. x[kL + j] = b[j]
    BY <1>3 DEF Joins, x
  <2> QED BY <1>1, <2>1
<1>6. ASSUME NEW t \in 1 .. k + 1, NEW j \in 1 .. L PROVE x[(t - 1) * L + j] = s[t][j]
  <2>1. t \in 1 .. k \/ t = k + 1
    OBVIOUS
  <2> QED BY <1>4, <1>5, <2>1
<1>7. x \in Seq(Int) /\ Len(x) = (k + 1) * L
  <2> HIDE DEF kL
  <2> QED BY <1>1, <1>3 DEF Joins, x
<1> QED BY <1>6, <1>7 DEF Rows, x

LEMMA RowsJoined ==
  ASSUME NEW M \in Nat, NEW L \in Nat, NEW s \in [1 .. M -> Seq(Int)],
         \A t \in 1 .. M : Len(s[t]) = L
  PROVE  Rows(FlattenSeq(s), s, M, L)
<1>1. PICK g : PutTogether(g, s, Int, M)
  BY TogetherExists
<1>2. FlattenSeq(s) = g[M]
  <2>1. s \in Seq(Seq(Int)) /\ Len(s) = M
    OBVIOUS
  <2>2. FirstsAre(s, s, Int, M, M)
    BY <2>1 DEF FirstsAre
  <2> QED BY <1>1, <2>2, FlattenIs
<1> DEFINE N == {k \in Nat : k <= M => Rows(g[k], s, k, L)}
<1>3. 0 \in N
  <2>1. g[0] = <<>> /\ <<>> \in Seq(Int) /\ Len(<<>>) = 0 /\ 0 = 0 * L /\ 1 .. 0 = {}
    BY <1>1 DEF PutTogether
  <2> QED BY <2>1 DEF Rows
<1>4. ASSUME NEW k \in N PROVE k + 1 \in N
  <2> SUFFICES ASSUME k + 1 <= M PROVE Rows(g[k + 1], s, k + 1, L)
    OBVIOUS
  <2>1. k \in Nat /\ k + 1 \in 1 .. M /\ k <= M /\ (k + 1) - 1 = k
    OBVIOUS
  <2>2. Rows(g[k], s, k, L)
    BY <2>1
  <2>3. g[k + 1] = g[k] \o s[k + 1] /\ s[k + 1] \in Seq(Int) /\ Len(s[k + 1]) = L
    BY <1>1, <2>1 DEF PutTogether
  <2> QED BY <2>1, <2>2, <2>3, OneMoreRow
<1>5. N = Nat
  <2> HIDE DEF N
  <2>1. N \subseteq Nat
    BY DEF N
  <2> QED BY <1>3, <1>4, <2>1, UpFromZero
<1>6. M \in N /\ M <= M
  <2> HIDE DEF N
  <2> QED BY <1>5
<1> QED BY <1>2, <1>6

LEMMA CellsAre ==
  ASSUME NEW data \in Seq(Int), NEW at \in Nat, NEW n \in Nat, at + n <= Len(data),
         NEW r \in [1 .. n -> Int], \A i \in 1 .. n : data[at + i] = r[i]
  PROVE  SubSeq(data, at + 1, at + n) = r
<1>1. SubSeq(data, at + 1, at + n) = [i \in 1 .. n |-> data[at + i]]
  OBVIOUS
<1>2. r = [i \in 1 .. n |-> r[i]]
  OBVIOUS
<1> QED BY <1>1, <1>2

LEMMA ResizedSeq ==
  ASSUME NEW s \in Seq(Int), NEW n \in Nat
  PROVE  /\ Resized(s, n, 0) \in Seq(Int) /\ Len(Resized(s, n, 0)) = n
         /\ \A i \in 1 .. n : Resized(s, n, 0)[i] = IF i <= Len(s) THEN s[i] ELSE 0
<1> DEFINE r == Resized(s, n, 0)
<1>1. \A i \in 1 .. n : (IF i <= Len(s) THEN s[i] ELSE 0) \in Int
  OBVIOUS
<1>2. r \in [1 .. n -> Int] /\ \A i \in 1 .. n : r[i] = IF i <= Len(s) THEN s[i] ELSE 0
  BY <1>1 DEF Resized
<1> HIDE DEF r
<1>3. r \in Seq(Int) /\ Len(r) = n
  BY <1>2
<1> QED BY <1>2, <1>3 DEF r

LEMMA ResizedSame ==
  ASSUME NEW n \in Nat, NEW s \in [1 .. n -> Int]
  PROVE  Resized(s, n, 0) = s
<1>1. Len(s) = n /\ s = [i \in 1 .. n |-> s[i]]
  OBVIOUS
<1> QED BY <1>1 DEF Resized

EstimateNames == {"returnEstimator", "actionAdvantage", "stateValue", "deltaValue",
                  "offPolicImpW", "KullbLeibDiv"}

LEMMA EstimatesAre ==
  /\ Len(Estimates) = 6 /\ DOMAIN Estimates = 1 .. 6 /\ Range(Estimates) = EstimateNames
  /\ \A k \in 1 .. 6 : Estimates[k] \in EstimateNames
  /\ \A f \in EstimateNames : \E k \in 1 .. 6 : Estimates[k] = f
  /\ \A k, l \in 1 .. 6 : Estimates[k] = Estimates[l] => k = l
<1>1. Len(Estimates) = 6 /\ DOMAIN Estimates = 1 .. 6
  BY DEF Estimates
<1>2. /\ Estimates[1] = "returnEstimator" /\ Estimates[2] = "actionAdvantage"
      /\ Estimates[3] = "stateValue" /\ Estimates[4] = "deltaValue"
      /\ Estimates[5] = "offPolicImpW" /\ Estimates[6] = "KullbLeibDiv"
  BY DEF Estimates
<1>3. \A k \in 1 .. 6 : k = 1 \/ k = 2 \/ k = 3 \/ k = 4 \/ k = 5 \/ k = 6
  OBVIOUS
<1>4. \A k \in 1 .. 6 : Estimates[k] \in EstimateNames
  BY <1>2, <1>3 DEF EstimateNames
<1>5. \A f \in EstimateNames : \E k \in 1 .. 6 : Estimates[k] = f
  <2>1. 1 \in 1 .. 6 /\ 2 \in 1 .. 6 /\ 3 \in 1 .. 6 /\ 4 \in 1 .. 6 /\ 5 \in 1 .. 6 /\ 6 \in 1 .. 6
    OBVIOUS
  <2> QED BY <1>2, <2>1 DEF EstimateNames
<1>6. \A k, l \in 1 .. 6 : Estimates[k] = Estimates[l] => k = l
  BY <1>2, <1>3
<1>7. Range(Estimates) = EstimateNames
  BY <1>1, <1>4, <1>5 DEF Range
<1> QED BY <1>1, <1>4, <1>5, <1>6, <1>7

EpisodeFields == {"states", "latent_states", "actions", "policies", "rewards", "estimates",
                  "totR", "bReachedTermState", "ID", "just_sampled", "agentID"}

Table(N, L) == [1 .. N -> [1 .. L -> Int]]

\* An episode of N steps that is finished.
Finished(EP, mdp, policyVecDim, N) ==
  LET dS == dimStateObserved(mdp) IN
  /\ EP = [f \in EpisodeFields |-> EP[f]]
  /\ N \in Nat /\ EP.states \in Table(N, dS) /\ EP.latent_states \in Table(N, mdp.dimState - dS)
  /\ EP.actions \in Table(N, mdp.dimAction) /\ EP.policies \in Table(N, policyVecDim)
  /\ EP.rewards \in [1 .. N -> Int] /\ EP.estimates \in [EstimateNames -> [1 .. N -> Int]]
  /\ EP.totR = FoldUp(EP.rewards, N) /\ EP.bReachedTermState \in BOOLEAN
  /\ EP.ID \in Int /\ EP.just_sampled \in Int /\ EP.agentID \in Int

Sized(mdp, policyVecDim) ==
  /\ mdp.dimState \in Nat /\ mdp.dimAction \in Nat \ {0} /\ policyVecDim \in Nat
  /\ dimStateObserved(mdp) \in 0 .. mdp.dimState

Row(v, L) == v \in [1 .. L -> Int] /\ v \in Seq(Int) /\ Len(v) = L

LEMMA TypeOfTable ==
  ASSUME NEW N, NEW L \in Nat, NEW r \in Table(N, L), NEW t \in 1 .. N
  PROVE  Row(r[t], L)
<1> DEFINE v == r[t]
<1>1. v \in [1 .. L -> Int]
  BY DEF Table
<1> HIDE DEF v
<1>2. v \in Seq(Int) /\ Len(v) = L
  BY <1>1
<1> QED BY <1>1, <1>2 DEF v, Row

\* The cells of a step.
StepCells(EP, t) ==
  EP.states[t] \o <<EP.rewards[t]>> \o EP.actions[t] \o EP.policies[t] \o EP.latent_states[t]

LEMMA CellsOfStep ==
  ASSUME NEW mdp, NEW p, Sized(mdp, p), NEW EP, NEW N, Finished(EP, mdp, p, N), NEW t \in 1 .. N
  PROVE  LET c == StepCells(EP, t)
             dS == dimStateObserved(mdp)
             dA == mdp.dimAction
         IN /\ c \in Seq(Int) /\ Len(c) = tuplSize(mdp, p)
            /\ \A j \in 1 .. dS : c[j] = EP.states[t][j]
            /\ c[dS + 1] = EP.rewards[t]
            /\ \A j \in 1 .. dA : c[dS + 1 + j] = EP.actions[t][j]
            /\ \A j \in 1 .. p : c[dS + 1 + dA + j] = EP.policies[t][j]
            /\ \A j \in 1 .. mdp.dimState - dS : c[dS + 1 + dA + p + j] = EP.latent_states[t][j]
<1> DEFINE dS == dimStateObserved(mdp)
           dA == mdp.dimAction
           dL == mdp.dimState - dS
           a == EP.states[t]
           b == EP.rewards[t]
           c == EP.actions[t]
           d == EP.policies[t]
           e == EP.latent_states[t]
<1>1. dS \in Nat /\ dA \in Nat /\ dL \in Nat /\ p \in Nat /\ N \in Nat
  BY DEF Sized, Finished
<1>2. EP.states \in Table(N, dS) /\ EP.actions \in Table(N, dA) /\ EP.policies \in Table(N, p)
      /\ EP.latent_states \in Table(N, dL) /\ b \in Int
  BY DEF Finished
<1>3. /\ a \in Seq(Int) /\ Len(a) = dS /\ c \in Seq(Int) /\ Len(c) = dA
      /\ d \in Seq(Int) /\ Len(d) = p /\ e \in Seq(Int) /\ Len(e) = dL
  <2> HIDE DEF dS, dA, dL
  <2>1. Row(a, dS)
    BY <1>1, <1>2, TypeOfTable, Zenon
  <2>2. Row(c, dA)
    BY <1>1, <1>2, TypeOfTable, Zenon
  <2>3. Row(d, p)
    BY <1>1, <1>2, TypeOfTable, Zenon
  <2>4. Row(e, dL)
    BY <1>1, <1>2, TypeOfTable, Zenon
  <2> HIDE DEF a, c, d, e
  <2> QED BY <2>1, <2>2, <2>3, <2>4 DEF Row
<1>4. tuplSize(mdp, p) = dS + 1 + dA + p + dL
  BY DEF tuplSize, Sized
<1>5. StepCells(EP, t) = a \o <<b>> \o c \o d \o e
  BY DEF StepCells
<1> HIDE DEF dS, dA, dL, a, b, c, d, e
<1> DEFINE x == a \o <<b>> \o c \o d \o e
           x2 == a \o <<b>>
           x3 == x2 \o c
           x4 == x3 \o d
<1>60. <<b>> \in Seq(Int) /\ Len(<<b>>) = 1 /\ <<b>>[1] = b
  BY <1>2
<1>61. Joins(x2, a, <<b>>, dS, 1) /\ x2 \in Seq(Int) /\ Len(x2) = dS + 1
  <2>1. Joins(x2, a, <<b>>, dS, 1)
    BY <1>3, <1>60, Appended, Zenon
  <2> QED BY <2>1 DEF Joins
<1> HIDE DEF x2
<1>62. Joins(x3, x2, c, dS + 1, dA) /\ x3 \in Seq(Int) /\ Len(x3) = dS + 1 + dA
  <2>1. Joins(x3, x2, c, dS + 1, dA)
    BY <1>3, <1>61, Appended, Zenon
  <2> QED BY <2>1 DEF Joins
<1> HIDE DEF x3
<1>63. Joins(x4, x3, d, dS + 1 + dA, p) /\ x4 \in Seq(Int) /\ Len(x4) = dS + 1 + dA + p
  <2>1. Joins(x4, x3, d, dS + 1 + dA, p)
    BY <1>3, <1>62, Appended, Zenon
  <2> QED BY <2>1 DEF Joins
<1>a. x = x4 \o e
  BY DEF x4, x3, x2
<1> HIDE DEF x4, x
<1>64. Joins(x, x4, e, dS + 1 + dA + p, dL)
  BY <1>3, <1>63, <1>a, Appended, Zenon
<1>6. x \in Seq(Int) /\ Len(x) = dS + 1 + dA + p + dL
  BY <1>64 DEF Joins
<1>7. \A j \in 1 .. dS + 1 : x[j] = x2[j]
  <2> SUFFICES ASSUME NEW j \in 1 .. dS + 1 PROVE x[j] = x2[j]
    OBVIOUS
  <2>1. j \in 1 .. dS + 1 + dA /\ j \in 1 .. dS + 1 + dA + p
    BY <1>1
  <2>2. x[j] = x4[j]
    BY <1>64, <2>1 DEF Joins
  <2>3. x4[j] = x3[j]
    BY <1>63, <2>1 DEF Joins
  <2> QED BY <1>62, <2>2, <2>3 DEF Joins
<1>8. \A j \in 1 .. dS : x[j] = a[j]
  <2> SUFFICES ASSUME NEW j \in 1 .. dS PROVE x[j] = a[j]
    OBVIOUS
  <2>1. j \in 1 .. dS + 1
    BY <1>1
  <2> QED BY <1>7, <1>61, <2>1 DEF Joins
<1>9. x[dS + 1] = b
  <2>1. dS + 1 \in 1 .. dS + 1 /\ 1 \in 1 .. 1
    BY <1>1
  <2> QED BY <1>7, <1>60, <1>61, <2>1 DEF Joins
<1>10. \A j \in 1 .. dA : x[dS + 1 + j] = c[j]
  <2> SUFFICES ASSUME NEW j \in 1 .. dA PROVE x[dS + 1 + j] = c[j]
    OBVIOUS
  <2>1. dS + 1 + j \in 1 .. dS + 1 + dA /\ dS + 1 + j \in 1 .. dS + 1 + dA + p
    BY <1>1
  <2>2. x[dS + 1 + j] = x4[dS + 1 + j]
    BY <1>64, <2>1 DEF Joins
  <2>3. x4[dS + 1 + j] = x3[dS + 1 + j]
    BY <1>63, <2>1 DEF Joins
  <2> QED BY <1>62, <2>2, <2>3 DEF Joins
<1>12. \A j \in 1 .. p : x[dS + 1 + dA + j] = d[j]
  <2> SUFFICES ASSUME NEW j \in 1 .. p PROVE x[dS + 1 + dA + j] = d[j]
    OBVIOUS
  <2>1. dS + 1 + dA + j \in 1 .. dS + 1 + dA + p
    BY <1>1
  <2>2. x[dS + 1 + dA + j] = x4[dS + 1 + dA + j]
    BY <1>64, <2>1 DEF Joins
  <2> QED BY <1>63, <2>2 DEF Joins
<1>13. \A j \in 1 .. dL : x[dS + 1 + dA + p + j] = e[j]
  BY <1>64 DEF Joins
<1>11. StepCells(EP, t) = x
  BY <1>5 DEF x
<1> QED BY <1>4, <1>6, <1>8, <1>9, <1>10, <1>11, <1>12, <1>13 DEF dS, dA, dL, a, b, c, d, e

\* A buffer with the numbers of an episode of N steps.
Packed(data, EP, mdp, p, N) ==
  LET dS == dimStateObserved(mdp)
      dA == mdp.dimAction
      T == tuplSize(mdp, p)
  IN /\ data \in Seq(Int) /\ Len(data) = (T + 6) * N + 10
     /\ \A t \in 1 .. N :
          /\ \A j \in 1 .. dS : data[(t - 1) * T + j] = EP.states[t][j]
          /\ data[(t - 1) * T + dS + 1] = EP.rewards[t]
          /\ \A j \in 1 .. dA : data[(t - 1) * T + dS + 1 + j] = EP.actions[t][j]
          /\ \A j \in 1 .. p : data[(t - 1) * T + dS + 1 + dA + j] = EP.policies[t][j]
          /\ \A j \in 1 .. mdp.dimState - dS :
               data[(t - 1) * T + dS + 1 + dA + p + j] = EP.latent_states[t][j]
     /\ \A k \in 1 .. 6 : \A t \in 1 .. N :
          data[N * T + N * (k - 1) + t] = EP.estimates[Estimates[k]][t]
     /\ data[N * T + N * 6 + 1] = (IF EP.bReachedTermState THEN 1 ELSE 0)
     /\ data[N * T + N * 6 + 2] = EP.ID /\ data[N * T + N * 6 + 3] = EP.just_sampled
     /\ data[N * T + N * 6 + 4] = EP.agentID

LEMMA SizesOfSteps ==
  ASSUME NEW mdp, NEW p, Sized(mdp, p)
  PROVE  /\ tuplSize(mdp, p) \in Nat /\ dimStateObserved(mdp) \in Nat /\ mdp.dimAction \in Nat
         /\ p \in Nat /\ mdp.dimState - dimStateObserved(mdp) \in Nat
         /\ tuplSize(mdp, p) = dimStateObserved(mdp) + 1 + mdp.dimAction + p
                                + (mdp.dimState - dimStateObserved(mdp))
BY DEF Sized, tuplSize

LEMMA PackIsPacked ==
  ASSUME NEW mdp, NEW p, Sized(mdp, p), NEW EP, NEW N, Finished(EP, mdp, p, N)
  PROVE  Packed(packEpisode(EP, mdp, p), EP, mdp, p, N)
<1> DEFINE dS == dimStateObserved(mdp)
           dA == mdp.dimAction
           dL == mdp.dimState - dS
           T == tuplSize(mdp, p)
           steps == [t \in 1 .. N |-> StepCells(EP, t)]
           est(k) == EP.estimates[Estimates[k]]
           perStep == [k \in 1 .. 6 |-> est(k)]
           extras == <<IF EP.bReachedTermState THEN 1 ELSE 0, EP.ID, EP.just_sampled, EP.agentID>>
           F1 == FlattenSeq(steps)
           F2 == FlattenSeq(perStep)
           size == computeTotalEpisodeSize(mdp, p, N)
           data == packEpisode(EP, mdp, p)
<1>1. N \in Nat /\ T \in Nat /\ dS \in Nat /\ dA \in Nat /\ p \in Nat /\ dL \in Nat
      /\ T = dS + 1 + dA + p + dL
  BY SizesOfSteps DEF Finished
<1>2. Len(EP.states) = N
  <2>1. EP.states \in [1 .. N -> [1 .. dS -> Int]]
    BY DEF Finished, Table
  <2> DEFINE r == EP.states
  <2> HIDE DEF dS, r
  <2>2. Len(r) = N
    <3>1. r \in [1 .. N -> [1 .. dS -> Int]]
      BY <2>1 DEF r
    <3> QED BY <1>1, <3>1
  <2> QED BY <2>2 DEF r
<1>3. ASSUME NEW k \in 1 .. 6
      PROVE  est(k) \in [1 .. N -> Int] /\ Resized(est(k), N, 0) = est(k)
             /\ est(k) \in Seq(Int) /\ Len(est(k)) = N
  <2>1. est(k) \in [1 .. N -> Int]
    BY EstimatesAre DEF Finished
  <2> DEFINE v == est(k)
  <2> HIDE DEF v
  <2>2. v \in [1 .. N -> Int]
    BY <2>1 DEF v
  <2>3. Resized(v, N, 0) = v /\ v \in Seq(Int) /\ Len(v) = N
    BY <1>1, <2>2, ResizedSame
  <2> QED BY <2>2, <2>3 DEF v
<1>4. data = Resized(F1 \o F2 \o extras, size, 0)
  <2>1. [k \in DOMAIN Estimates |-> Resized(EP.estimates[Estimates[k]], N, 0)] = perStep
    <3>1. DOMAIN Estimates = 1 .. 6
      BY EstimatesAre
    <3> HIDE DEF est
    <3>2. \A k \in 1 .. 6 : Resized(est(k), N, 0) = est(k)
      BY <1>3
    <3>3. [k \in 1 .. 6 |-> Resized(est(k), N, 0)] = [k \in 1 .. 6 |-> est(k)]
      BY <3>2
    <3> QED BY <3>1, <3>3 DEF est
  <2>2. steps = [t \in 1 .. N |-> EP.states[t] \o <<EP.rewards[t]>> \o EP.actions[t]
                                 \o EP.policies[t] \o EP.latent_states[t]]
    BY DEF StepCells
  <2> HIDE DEF perStep, steps
  <2> QED BY <1>2, <2>1, <2>2 DEF packEpisode
<1>5. \A t \in 1 .. N : steps[t] = StepCells(EP, t)
  OBVIOUS
<1>6. steps \in [1 .. N -> Seq(Int)] /\ \A t \in 1 .. N : Len(steps[t]) = T
  <2>1. \A t \in 1 .. N : StepCells(EP, t) \in Seq(Int) /\ Len(StepCells(EP, t)) = T
    BY CellsOfStep
  <2> HIDE DEF T
  <2> QED BY <2>1
<1>7. Rows(F1, steps, N, T)
  <2> HIDE DEF steps, T
  <2> QED BY <1>1, <1>6, RowsJoined, Zenon
<1>8. perStep \in [1 .. 6 -> Seq(Int)] /\ (\A k \in 1 .. 6 : Len(perStep[k]) = N)
      /\ \A k \in 1 .. 6 : perStep[k] = est(k)
  <2> HIDE DEF est
  <2> QED BY <1>3
<1>9. Rows(F2, perStep, 6, N)
  <2> HIDE DEF perStep
  <2>1. 6 \in Nat
    OBVIOUS
  <2> QED BY <1>1, <1>8, <2>1, RowsJoined, Zenon
<1>10. extras \in Seq(Int) /\ Len(extras) = 4
  <2> DEFINE z == IF EP.bReachedTermState THEN 1 ELSE 0
  <2>1. z \in Int /\ EP.ID \in Int /\ EP.just_sampled \in Int /\ EP.agentID \in Int
    BY DEF Finished
  <2> HIDE DEF z
  <2>2. <<z, EP.ID, EP.just_sampled, EP.agentID>> \in Seq(Int)
        /\ Len(<<z, EP.ID, EP.just_sampled, EP.agentID>>) = 4
    BY <2>1
  <2> QED BY <2>2 DEF z
<1> DEFINE NT == N * T
           N6 == N * 6
<1>11. NT \in Nat /\ N6 \in Nat /\ size = NT + N6 + 10 /\ 6 * N = N6 /\ (T + 6) * N + 10 = size
       /\ T * N = NT
  <2>1. Len(Estimates) = 6
    BY EstimatesAre
  <2> HIDE DEF T
  <2>2. (T + 6) * N = N * T + N * 6 /\ N * T \in Nat /\ N * 6 \in Nat /\ 6 * N = N * 6 /\ T * N = N * T
    BY <1>1
  <2> QED BY <2>1, <2>2 DEF computeTotalEpisodeSize, extraSize, T
<1>12. F1 \in Seq(Int) /\ Len(F1) = NT /\ F2 \in Seq(Int) /\ Len(F2) = N6
  BY <1>7, <1>9, <1>11 DEF Rows
<1> HIDE DEF F1, F2, size, extras, NT, N6
<1> DEFINE x2 == F1 \o F2
           x == x2 \o extras
<1>13. Joins(x2, F1, F2, NT, N6) /\ x2 \in Seq(Int) /\ Len(x2) = NT + N6
  <2>1. Joins(x2, F1, F2, NT, N6)
    BY <1>12, Appended, Zenon
  <2> QED BY <2>1 DEF Joins
<1> HIDE DEF x2
<1>14. Joins(x, x2, extras, NT + N6, 4)
  BY <1>10, <1>13, Appended, Zenon
<1>15. data = Resized(x, size, 0)
  BY <1>4 DEF x, x2
<1> HIDE DEF x, data, T, dS, dA, dL
<1>16. /\ data \in Seq(Int) /\ Len(data) = size /\ \A i \in 1 .. NT + N6 + 4 : data[i] = x[i]
  <2>1. x \in Seq(Int) /\ Len(x) = NT + N6 + 4
    BY <1>14 DEF Joins
  <2>2. /\ data \in Seq(Int) /\ Len(data) = size
        /\ \A i \in 1 .. size : data[i] = IF i <= Len(x) THEN x[i] ELSE 0
    <3>1. size \in Nat /\ x \in Seq(Int)
      BY <1>11, <2>1
    <3>2. /\ Resized(x, size, 0) \in Seq(Int) /\ Len(Resized(x, size, 0)) = size
          /\ \A i \in 1 .. size : Resized(x, size, 0)[i] = IF i <= Len(x) THEN x[i] ELSE 0
      BY <3>1, ResizedSeq
    <3> QED BY <1>15, <3>2, Zenon
  <2> QED BY <1>11, <2>1, <2>2
<1>17. \A i \in 1 .. NT : data[i] = F1[i]
  <2> SUFFICES ASSUME NEW i \in 1 .. NT PROVE data[i] = F1[i]
    OBVIOUS
  <2>1. i \in 1 .. NT + N6 /\ i \in 1 .. NT + N6 + 4
    BY <1>11
  <2>2. x[i] = x2[i]
    BY <1>14, <2>1 DEF Joins
  <2> QED BY <1>13, <1>16, <2>1, <2>2 DEF Joins
<1>18. \A i \in 1 .. N6 : data[NT + i] = F2[i]
  <2> SUFFICES ASSUME NEW i \in 1 .. N6 PROVE data[NT + i] = F2[i]
    OBVIOUS
  <2>1. NT + i \in 1 .. NT + N6 /\ NT + i \in 1 .. NT + N6 + 4
    BY <1>11
  <2>2. x[NT + i] = x2[NT + i]
    BY <1>14, <2>1 DEF Joins
  <2> QED BY <1>13, <1>16, <2>1, <2>2 DEF Joins
<1>19. \A i \in 1 .. 4 : data[NT + N6 + i] = extras[i]
  <2> SUFFICES ASSUME NEW i \in 1 .. 4 PROVE data[NT + N6 + i] = extras[i]
    OBVIOUS
  <2>1. NT + N6 + i \in 1 .. NT + N6 + 4
    BY <1>11
  <2> QED BY <1>14, <1>16, <2>1 DEF Joins
<1>20. ASSUME NEW t \in 1 .. N, NEW j \in 1 .. T
       PROVE  data[(t - 1) * T + j] = StepCells(EP, t)[j]
  <2> DEFINE q == (t - 1) * T
             m == (N - 1) * T
  <2>1. t - 1 \in Nat /\ t - 1 <= N - 1 /\ N - 1 \in Nat
    BY <1>1
  <2>2. q \in Nat /\ m \in Nat /\ q <= m
    BY <1>1, <2>1
  <2>3. m = NT - T
    BY <1>1, <1>11 DEF NT
  <2>4. F1[q + j] = steps[t][j]
    BY <1>7 DEF Rows
  <2> HIDE DEF q, m
  <2>5. q + j \in 1 .. NT
    BY <1>1, <1>11, <2>2, <2>3
  <2>6. data[q + j] = steps[t][j]
    BY <1>17, <2>4, <2>5
  <2> QED BY <1>5, <2>6 DEF q
<1>21. ASSUME NEW k \in 1 .. 6, NEW t \in 1 .. N
       PROVE  data[N * T + N * (k - 1) + t] = EP.estimates[Estimates[k]][t]
  <2> DEFINE q == (k - 1) * N
  <2>1. q \in Nat /\ N * (k - 1) = q /\ q <= 5 * N
    <3>1. k = 1 \/ k = 2 \/ k = 3 \/ k = 4 \/ k = 5 \/ k = 6
      OBVIOUS
    <3> QED BY <1>1, <3>1
  <2>2. F2[q + t] = perStep[k][t]
    BY <1>9 DEF Rows
  <2> HIDE DEF q, perStep
  <2>3. q + t \in 1 .. N6
    BY <1>1, <1>11, <2>1
  <2>4. data[NT + (q + t)] = perStep[k][t]
    BY <1>18, <2>2, <2>3
  <2>5. NT + (q + t) = NT + q + t
    BY <1>1, <1>11, <2>1
  <2> QED BY <1>8, <2>1, <2>4, <2>5 DEF NT
<1>22. /\ data[N * T + N * 6 + 1] = (IF EP.bReachedTermState THEN 1 ELSE 0)
       /\ data[N * T + N * 6 + 2] = EP.ID /\ data[N * T + N * 6 + 3] = EP.just_sampled
       /\ data[N * T + N * 6 + 4] = EP.agentID
  <2>1. /\ extras[1] = (IF EP.bReachedTermState THEN 1 ELSE 0) /\ extras[2] = EP.ID
        /\ extras[3] = EP.just_sampled /\ extras[4] = EP.agentID
    BY DEF extras
  <2>2. 1 \in 1 .. 4 /\ 2 \in 1 .. 4 /\ 3 \in 1 .. 4 /\ 4 \in 1 .. 4
    OBVIOUS
  <2> QED BY <1>19, <2>1, <2>2 DEF NT, N6
<1>23. ASSUME NEW t \in 1 .. N
       PROVE  /\ \A j \in 1 .. dS : data[(t - 1) * T + j] = EP.states[t][j]
              /\ data[(t - 1) * T + dS + 1] = EP.rewards[t]
              /\ \A j \in 1 .. dA : data[(t - 1) * T + dS + 1 + j] = EP.actions[t][j]
              /\ \A j \in 1 .. p : data[(t - 1) * T + dS + 1 + dA + j] = EP.policies[t][j]
              /\ \A j \in 1 .. dL :
                   data[(t - 1) * T + dS + 1 + dA + p + j] = EP.latent_states[t][j]
  <2> DEFINE q == (t - 1) * T
             c == StepCells(EP, t)
  <2>1. /\ \A j \in 1 .. dS : c[j] = EP.states[t][j]
        /\ c[dS + 1] = EP.rewards[t]
        /\ \A j \in 1 .. dA : c[dS + 1 + j] = EP.actions[t][j]
        /\ \A j \in 1 .. p : c[dS + 1 + dA + j] = EP.policies[t][j]
        /\ \A j \in 1 .. dL : c[dS + 1 + dA + p + j] = EP.latent_states[t][j]
    BY CellsOfStep DEF dS, dA, dL
  <2>2. \A j \in 1 .. T : data[q + j] = c[j]
    BY <1>20
  <2>3. q \in Int
    <3>1. t - 1 \in Int
      OBVIOUS
    <3> QED BY <1>1, <3>1
  <2> HIDE DEF q, c
  <2>4. \A j \in 1 .. dS : data[q + j] = EP.states[t][j]
    <3>1. \A j \in 1 .. dS : j \in 1 .. T
      BY <1>1
    <3> QED BY <2>1, <2>2, <3>1
  <2>5. data[q + dS + 1] = EP.rewards[t]
    <3>1. dS + 1 \in 1 .. T /\ q + (dS + 1) = q + dS + 1
      BY <1>1, <2>3
    <3> QED BY <2>1, <2>2, <3>1
  <2>6. \A j \in 1 .. dA : data[q + dS + 1 + j] = EP.actions[t][j]
    <3>1. \A j \in 1 .. dA : dS + 1 + j \in 1 .. T /\ q + (dS + 1 + j) = q + dS + 1 + j
      BY <1>1, <2>3
    <3> QED BY <2>1, <2>2, <3>1
  <2>7. \A j \in 1 .. p : data[q + dS + 1 + dA + j] = EP.policies[t][j]
    <3>1. \A j \in 1 .. p : dS + 1 + dA + j \in 1 .. T
                             /\ q + (dS + 1 + dA + j) = q + dS + 1 + dA + j
      BY <1>1, <2>3
    <3> QED BY <2>1, <2>2, <3>1
  <2>8. \A j \in 1 .. dL : data[q + dS + 1 + dA + p + j] = EP.latent_states[t][j]
    <3>1. \A j \in 1 .. dL : dS + 1 + dA + p + j \in 1 .. T
                             /\ q + (dS + 1 + dA + p + j) = q + dS + 1 + dA + p + j
      BY <1>1, <2>3
    <3> QED BY <2>1, <2>2, <3>1
  <2> QED BY <2>4, <2>5, <2>6, <2>7, <2>8 DEF q
<1>24. data \in Seq(Int) /\ Len(data) = (T + 6) * N + 10
  BY <1>11, <1>16
<1>25. Packed(data, EP, mdp, p, N)
  BY <1>21, <1>22, <1>23, <1>24 DEF Packed, dS, dA, dL, T
<1> QED BY <1>25 DEF data

LEMMA RowsWithin ==
  ASSUME NEW N \in Nat, NEW T \in Nat, NEW t \in 1 .. N
  PROVE  (t - 1) * T \in Nat /\ N * T \in Nat /\ (t - 1) * T + T <= N * T
<1>1. t - 1 \in Nat /\ N - 1 \in Nat /\ t - 1 <= N - 1
  OBVIOUS
<1>2. (t - 1) * T \in Nat /\ (N - 1) * T \in Nat /\ (t - 1) * T <= (N - 1) * T
  BY <1>1
<1>3. (N - 1) * T = N * T - T /\ N * T \in Nat
  OBVIOUS
<1> DEFINE a == (t - 1) * T
           b == (N - 1) * T
           c == N * T
<1>4. a \in Nat /\ b \in Nat /\ c \in Nat /\ a <= b /\ b = c - T
  BY <1>2, <1>3
<1> HIDE DEF a, b, c
<1>5. a \in Nat /\ c \in Nat /\ a + T <= c
  BY <1>4
<1> QED BY <1>5 DEF a, c

LEMMA StepsAre ==
  ASSUME NEW T \in Nat, NEW N \in Nat
  PROVE  (((T + 6) * N + 10) - 10) \div (T + 6) = N
<1> DEFINE m == T + 6
<1>1. m \in Nat \ {0}
  OBVIOUS
<1> HIDE DEF m
<1>2. m * N \in Nat /\ (m * N + 10) - 10 = m * N
  BY <1>1
<1>3. (m * N) \div m = N
  <2>1. 0 < m /\ 0 \in Nat
    BY <1>1
  <2>2. (0 + m * N) \div m = N
    BY <1>1, <2>1, Quotient
  <2> QED BY <1>2, <2>2
<1> QED BY <1>2, <1>3 DEF m

\* The rewards that unpackEpisode adds up.
RewardsIn(data, T, dS, N) ==
  FoldLeft(LAMBDA x, t : x + data[(t - 1) * T + dS + 1], 0, [t \in 1 .. N |-> t])

RewardsAt(data, T, dS, N, f) ==
  N \in Nat /\ \A t \in 1 .. N : data[(t - 1) * T + dS + 1] = f[t]

LEMMA RewardsAdded ==
  ASSUME NEW data, NEW T, NEW dS, NEW N, NEW f, RewardsAt(data, T, dS, N, f)
  PROVE  RewardsIn(data, T, dS, N) = FoldUp(f, N)
<1> DEFINE S == 1 .. N
           seq == [i \in S |-> i]
           cell(t) == data[(t - 1) * T + dS + 1]
           DefF(iter) == iter = [s \in SUBSET S |->
                          IF s = {} THEN 0 ELSE iter[s \ {Max(s)}] + f[seq[Max(s)]]]
           DefC(iter) == iter = [s \in SUBSET S |->
                          IF s = {} THEN 0 ELSE iter[s \ {Max(s)}] + cell(seq[Max(s)])]
<1>0. DOMAIN seq = S
  OBVIOUS
<1>1. FoldUp(f, N) = (CHOOSE iter : DefF(iter))[S]
  BY <1>0 DEF FoldUp, FoldLeft, MapThenFoldSet
<1>2. RewardsIn(data, T, dS, N) = (CHOOSE iter : DefC(iter))[S]
  BY <1>0 DEF RewardsIn, FoldLeft, MapThenFoldSet
<1>3. \A s \in SUBSET S : s # {} => f[seq[Max(s)]] = cell(seq[Max(s)])
  <2> SUFFICES ASSUME NEW s \in SUBSET S, s # {} PROVE f[seq[Max(s)]] = cell(seq[Max(s)])
    OBVIOUS
  <2>1. Max(s) \in S
    BY GreatestIs DEF RewardsAt
  <2>2. seq[Max(s)] = Max(s)
    BY <2>1
  <2> QED BY <2>1, <2>2 DEF RewardsAt
<1> HIDE DEF S, seq, cell
<1>4. \A iter : DefF(iter) <=> DefC(iter)
  BY <1>3
<1> HIDE DEF DefF, DefC
<1>5. (CHOOSE iter : DefF(iter)) = (CHOOSE iter : DefC(iter))
  BY <1>4
<1> QED BY <1>1, <1>2, <1>5 DEF S, seq

\* A row that is read.
Holds(data, at, v, L) ==
  /\ data \in Seq(Int) /\ L \in Nat /\ at \in Nat /\ at + L <= Len(data)
  /\ \A j \in 1 .. L : data[at + j] = v[j]

IsRow(data, at, v, L) == SubSeq(data, at + 1, at + L) = v

LEMMA RowRead ==
  ASSUME NEW N, NEW L, NEW r, r \in Table(N, L), NEW t, t \in 1 .. N,
         NEW data, NEW at, Holds(data, at, r[t], L)
  PROVE  IsRow(data, at, r[t], L)
<1>1. r[t] \in [1 .. L -> Int]
  BY DEF Table
<1> DEFINE v == r[t]
<1>2. v \in [1 .. L -> Int] /\ Holds(data, at, v, L)
  BY <1>1
<1> HIDE DEF v
<1>3. SubSeq(data, at + 1, at + L) = v
  BY <1>2, CellsAre DEF Holds
<1> QED BY <1>3 DEF v, IsRow

\* What is read is what was packed.
LEMMA UnpackIs ==
  ASSUME NEW mdp, NEW p, Sized(mdp, p), NEW EP, NEW N, Finished(EP, mdp, p, N),
         NEW data, Packed(data, EP, mdp, p, N)
  PROVE  unpackEpisode(data, mdp, p) = EP
<1> DEFINE dS == dimStateObserved(mdp)
           dA == mdp.dimAction
           dL == mdp.dimState - dS
           T == tuplSize(mdp, p)
           read == unpackEpisode(data, mdp, p)
           row(t) == (t - 1) * T
           cells(at, n) == SubSeq(data, at + 1, at + n)
           rest == N * T
           extra == rest + N * 6
<1>1. N \in Nat /\ T \in Nat /\ dS \in Nat /\ dA \in Nat /\ p \in Nat /\ dL \in Nat
      /\ T = dS + 1 + dA + p + dL
  BY SizesOfSteps DEF Finished
<1>2. data \in Seq(Int) /\ Len(data) = (T + 6) * N + 10
  BY DEF Packed
<1>3. computeTotalEpisodeNstep(mdp, p, Len(data)) = N
  <2>1. Len(Estimates) = 6 /\ extraSize = 10
    BY EstimatesAre DEF extraSize
  <2> HIDE DEF T
  <2>2. (((T + 6) * N + 10) - 10) \div (T + 6) = N
    BY <1>1, StepsAre, Zenon
  <2> QED BY <1>2, <2>1, <2>2 DEF computeTotalEpisodeNstep, T
<1>4. rest \in Nat /\ rest + N * 6 + 10 = Len(data)
  <2> HIDE DEF T
  <2>1. (T + 6) * N = N * T + N * 6 /\ N * T \in Nat
    BY <1>1
  <2> QED BY <1>2, <2>1
<1>5. ASSUME NEW t \in 1 .. N
      PROVE  row(t) \in Nat /\ row(t) + T <= Len(data)
  <2> HIDE DEF T
  <2>1. row(t) \in Nat /\ rest \in Nat /\ row(t) + T <= rest
    BY <1>1, RowsWithin, Zenon
  <2> HIDE DEF row, rest
  <2> QED BY <1>1, <1>4, <2>1
<1>6. \A t \in 1 .. N :
         /\ \A j \in 1 .. dS : data[row(t) + j] = EP.states[t][j]
         /\ data[row(t) + dS + 1] = EP.rewards[t]
         /\ \A j \in 1 .. dA : data[row(t) + dS + 1 + j] = EP.actions[t][j]
         /\ \A j \in 1 .. p : data[row(t) + dS + 1 + dA + j] = EP.policies[t][j]
         /\ \A j \in 1 .. dL : data[row(t) + dS + 1 + dA + p + j] = EP.latent_states[t][j]
  BY DEF Packed
<1>7. /\ EP.states \in Table(N, dS) /\ EP.latent_states \in Table(N, dL)
      /\ EP.actions \in Table(N, dA) /\ EP.policies \in Table(N, p)
      /\ EP.rewards \in [1 .. N -> Int] /\ EP.estimates \in [EstimateNames -> [1 .. N -> Int]]
  BY DEF Finished
<1>8. /\ read.states = [t \in 1 .. N |-> cells(row(t), dS)]
      /\ read.rewards = [t \in 1 .. N |-> data[row(t) + dS + 1]]
      /\ read.actions = [t \in 1 .. N |-> cells(row(t) + dS + 1, dA)]
      /\ read.policies = [t \in 1 .. N |-> cells(row(t) + dS + 1 + dA, p)]
      /\ read.latent_states = [t \in 1 .. N |-> cells(row(t) + dS + 1 + dA + p, dL)]
  BY <1>3 DEF unpackEpisode
<1>9. /\ read.estimates = [f \in Range(Estimates) |->
              cells(rest + N * estimatesBefore(f), N)]
      /\ read.totR = RewardsIn(data, T, dS, N)
      /\ read.bReachedTermState = (data[extra + 1] = 1)
      /\ read.ID = data[extra + 2] /\ read.just_sampled = data[extra + 3]
      /\ read.agentID = data[extra + 4]
  <2>1. Len(Estimates) = 6 /\ Len(Estimates) - 1 = 5
    BY EstimatesAre
  <2>2. read.totR = RewardsIn(data, T, dS, N)
    BY <1>3 DEF unpackEpisode, RewardsIn
  <2> HIDE DEF T, dS, dA, dL
  <2>3. read.estimates = [f \in Range(Estimates) |->
              cells(rest + N * estimatesBefore(f), N)]
    BY <1>3, <2>1 DEF unpackEpisode, T
  <2>4. read.bReachedTermState = (data[extra + 1] = 1)
    BY <1>3, <2>1 DEF unpackEpisode, T
  <2>5. read.ID = data[extra + 2] /\ read.just_sampled = data[extra + 3]
        /\ read.agentID = data[extra + 4]
    BY <1>3, <2>1 DEF unpackEpisode, T
  <2> HIDE DEF read
  <2> QED BY <2>2, <2>3, <2>4, <2>5
<1>10. read = [f \in EpisodeFields |-> read[f]]
  BY DEF unpackEpisode, EpisodeFields
<1> HIDE DEF read, T, dS, dA, dL, rest
<1>11. read.states = EP.states
  <2>1. ASSUME NEW t \in 1 .. N PROVE cells(row(t), dS) = EP.states[t]
    <3> DEFINE r == EP.states
               at == row(t)
    <3>1. r \in Table(N, dS) /\ \A j \in 1 .. dS : data[at + j] = r[t][j]
      BY <1>6, <1>7
    <3>2. at \in Nat /\ at + dS <= Len(data)
      <4> DEFINE m == row(t)
      <4>1. m \in Nat /\ m + T <= Len(data) /\ Len(data) \in Nat
        BY <1>2, <1>5
      <4> HIDE DEF row
      <4> HIDE DEF m
      <4>2. m \in Nat /\ (m) + dS <= Len(data)
        BY <1>1, <4>1
      <4> QED BY <4>2 DEF m
    <3> HIDE DEF r, at
    <3>3. Holds(data, at, r[t], dS)
      BY <1>1, <1>2, <3>1, <3>2 DEF Holds
    <3>4. IsRow(data, at, r[t], dS)
      BY <3>1, <3>3, RowRead, Zenon
    <3> QED BY <3>4 DEF r, at, IsRow
  <2> HIDE DEF cells
  <2>2. EP.states = [t \in 1 .. N |-> EP.states[t]]
    BY <1>7 DEF Table
  <2> QED BY <1>8, <2>1, <2>2
<1>12. read.actions = EP.actions
  <2>1. ASSUME NEW t \in 1 .. N PROVE cells(row(t) + dS + 1, dA) = EP.actions[t]
    <3> DEFINE r == EP.actions
               at == row(t) + dS + 1
    <3>1. r \in Table(N, dA) /\ \A j \in 1 .. dA : data[at + j] = r[t][j]
      BY <1>6, <1>7
    <3>2. at \in Nat /\ at + dA <= Len(data)
      <4> DEFINE m == row(t)
      <4>1. m \in Nat /\ m + T <= Len(data) /\ Len(data) \in Nat
        BY <1>2, <1>5
      <4> HIDE DEF row
      <4> HIDE DEF m
      <4>2. m + dS + 1 \in Nat /\ (m + dS + 1) + dA <= Len(data)
        BY <1>1, <4>1
      <4> QED BY <4>2 DEF m
    <3> HIDE DEF r, at
    <3>3. Holds(data, at, r[t], dA)
      BY <1>1, <1>2, <3>1, <3>2 DEF Holds
    <3>4. IsRow(data, at, r[t], dA)
      BY <3>1, <3>3, RowRead, Zenon
    <3> QED BY <3>4 DEF r, at, IsRow
  <2> HIDE DEF cells
  <2>2. EP.actions = [t \in 1 .. N |-> EP.actions[t]]
    BY <1>7 DEF Table
  <2> QED BY <1>8, <2>1, <2>2
<1>13. read.policies = EP.policies
  <2>1. ASSUME NEW t \in 1 .. N PROVE cells(row(t) + dS + 1 + dA, p) = EP.policies[t]
    <3> DEFINE r == EP.policies
               at == row(t) + dS + 1 + dA
    <3>1. r \in Table(N, p) /\ \A j \in 1 .. p : data[at + j] = r[t][j]
      BY <1>6, <1>7
    <3>2. at \in Nat /\ at + p <= Len(data)
      <4> DEFINE m == row(t)
      <4>1. m \in Nat /\ m + T <= Len(data) /\ Len(data) \in Nat
        BY <1>2, <1>5
      <4> HIDE DEF row
      <4> HIDE DEF m
      <4>2. m + dS + 1 + dA \in Nat /\ (m + dS + 1 + dA) + p <= Len(data)
        BY <1>1, <4>1
      <4> QED BY <4>2 DEF m
    <3> HIDE DEF r, at
    <3>3. Holds(data, at, r[t], p)
      BY <1>1, <1>2, <3>1, <3>2 DEF Holds
    <3>4. IsRow(data, at, r[t], p)
      BY <3>1, <3>3, RowRead, Zenon
    <3> QED BY <3>4 DEF r, at, IsRow
  <2> HIDE DEF cells
  <2>2. EP.policies = [t \in 1 .. N |-> EP.policies[t]]
    BY <1>7 DEF Table
  <2> QED BY <1>8, <2>1, <2>2
<1>14. read.latent_states = EP.latent_states
  <2>1. ASSUME NEW t \in 1 .. N PROVE cells(row(t) + dS + 1 + dA + p, dL) = EP.latent_states[t]
    <3> DEFINE r == EP.latent_states
               at == row(t) + dS + 1 + dA + p
    <3>1. r \in Table(N, dL) /\ \A j \in 1 .. dL : data[at + j] = r[t][j]
      BY <1>6, <1>7
    <3>2. at \in Nat /\ at + dL <= Len(data)
      <4> DEFINE m == row(t)
      <4>1. m \in Nat /\ m + T <= Len(data) /\ Len(data) \in Nat
        BY <1>2, <1>5
      <4> HIDE DEF row
      <4> HIDE DEF m
      <4>2. m + dS + 1 + dA + p \in Nat /\ (m + dS + 1 + dA + p) + dL <= Len(data)
        BY <1>1, <4>1
      <4> QED BY <4>2 DEF m
    <3> HIDE DEF r, at
    <3>3. Holds(data, at, r[t], dL)
      BY <1>1, <1>2, <3>1, <3>2 DEF Holds
    <3>4. IsRow(data, at, r[t], dL)
      BY <3>1, <3>3, RowRead, Zenon
    <3> QED BY <3>4 DEF r, at, IsRow
  <2> HIDE DEF cells
  <2>2. EP.latent_states = [t \in 1 .. N |-> EP.latent_states[t]]
    BY <1>7 DEF Table
  <2> QED BY <1>8, <2>1, <2>2
<1>15. read.rewards = EP.rewards
  <2>1. EP.rewards = [t \in 1 .. N |-> EP.rewards[t]]
    BY <1>7
  <2> HIDE DEF row
  <2> QED BY <1>6, <1>8, <2>1
<1>16. read.estimates = EP.estimates
  <2>1. ASSUME NEW f \in EstimateNames
        PROVE  cells(rest + N * estimatesBefore(f), N) = EP.estimates[f]
    <3> DEFINE k == estimatesBefore(f)
               r == EP.estimates[f]
               at == rest + N * k
    <3>1. k \in 0 .. 5 /\ Estimates[k + 1] = f
      <4>1. PICK l \in 1 .. 6 : Estimates[l] = f
        BY EstimatesAre
      <4>2. l - 1 \in 0 .. 5 /\ (l - 1) + 1 = l
        OBVIOUS
      <4>3. Estimates[(l - 1) + 1] = f
        BY <4>1, <4>2
      <4>4. Len(Estimates) - 1 = 5
        BY EstimatesAre
      <4> QED BY <4>2, <4>3, <4>4 DEF estimatesBefore
    <3> HIDE DEF k
    <3>2. k + 1 \in 1 .. 6 /\ (k + 1) - 1 = k
      BY <3>1
    <3>3. \A t \in 1 .. N : data[rest + N * k + t] = EP.estimates[f][t]
      <4>1. \A t \in 1 .. N : data[N * T + N * ((k + 1) - 1) + t] = EP.estimates[Estimates[k + 1]][t]
        BY <3>2 DEF Packed, T
      <4> QED BY <3>1, <3>2, <4>1 DEF rest
    <3>4. at \in Nat /\ at + N <= Len(data)
      <4>1. k = 0 \/ k = 1 \/ k = 2 \/ k = 3 \/ k = 4 \/ k = 5
        BY <3>1
      <4>2. N * k \in Nat /\ N * k + N <= N * 6
        BY <1>1, <4>1
      <4> DEFINE u == N * k
                 w == N * 6
      <4>3. u \in Nat /\ w \in Nat /\ u + N <= w /\ rest + w + 10 = Len(data)
        BY <1>1, <1>4, <4>2
      <4> HIDE DEF u, w
      <4>4. rest + u \in Nat /\ (rest + u) + N <= Len(data)
        BY <1>1, <1>4, <4>3
      <4> QED BY <4>4 DEF u
    <3>5. r \in [1 .. N -> Int] /\ \A j \in 1 .. N : data[at + j] = r[j]
      BY <1>7, <3>3
    <3> HIDE DEF r, at
    <3>6. SubSeq(data, at + 1, at + N) = r
      BY <1>1, <1>2, <3>4, <3>5, CellsAre
    <3> QED BY <3>6 DEF r, at, k
  <2> HIDE DEF cells
  <2>2. EP.estimates = [f \in EstimateNames |-> EP.estimates[f]]
    BY <1>7
  <2>3. read.estimates = [f \in EstimateNames |->
              cells(rest + N * estimatesBefore(f), N)]
    BY <1>9, EstimatesAre
  <2> QED BY <2>1, <2>2, <2>3
<1>17. read.totR = EP.totR
  <2>1. RewardsAt(data, T, dS, N, EP.rewards)
    BY <1>1, <1>6 DEF RewardsAt
  <2>2. RewardsIn(data, T, dS, N) = FoldUp(EP.rewards, N)
    BY <2>1, RewardsAdded, Zenon
  <2>3. EP.totR = FoldUp(EP.rewards, N)
    BY DEF Finished
  <2> QED BY <1>9, <2>2, <2>3
<1>18. /\ read.bReachedTermState = EP.bReachedTermState
       /\ read.ID = EP.ID /\ read.just_sampled = EP.just_sampled /\ read.agentID = EP.agentID
  <2>1. /\ data[extra + 1] = (IF EP.bReachedTermState THEN 1 ELSE 0)
        /\ data[extra + 2] = EP.ID /\ data[extra + 3] = EP.just_sampled
        /\ data[extra + 4] = EP.agentID
    BY DEF Packed, rest, T
  <2>2. EP.bReachedTermState \in BOOLEAN
    BY DEF Finished
  <2>3. (data[extra + 1] = 1) = EP.bReachedTermState
    <3>1. CASE EP.bReachedTermState
      BY <2>1, <2>2, <3>1
    <3>2. CASE ~EP.bReachedTermState
      BY <2>1, <2>2, <3>2
    <3> QED BY <3>1, <3>2
  <2> QED BY <1>9, <2>1, <2>3
<1>19. \A f \in EpisodeFields : read[f] = EP[f]
  BY <1>11, <1>12, <1>13, <1>14, <1>15, <1>16, <1>17, <1>18 DEF EpisodeFields
<1>20. EP = [f \in EpisodeFields |-> EP[f]]
  BY DEF Finished
<1>21. read = EP
  BY <1>10, <1>19, <1>20
<1> QED BY <1>21 DEF read

\* An episode that is finished comes out of a buffer as it went in, whatever its length and
\* that of its vectors: the states are put together from the observed and the hidden
\* components, the actions and policies are cut where they were joined
\* (Episode::packEpisode, unpackEpisode).
THEOREM PackedEpisodesAreRead ==
  ASSUME NEW mdp, NEW p, Sized(mdp, p), NEW EP, NEW N, Finished(EP, mdp, p, N)
  PROVE  unpackEpisode(packEpisode(EP, mdp, p), mdp, p) = EP
<1>1. Packed(packEpisode(EP, mdp, p), EP, mdp, p, N)
  BY PackIsPacked
<1> QED BY <1>1, UnpackIs

------------------------------------------------------------------------------
(* Folds                                                                   *)

\* What FoldLeft computes with: a value for each set of places, from that of the set
\* without its last place.
Iterates(h, n, V, b, F) ==
  /\ h \in [SUBSET (1 .. n) -> V] /\ h[{}] = b
  /\ \A s \in SUBSET (1 .. n) : s # {} => h[s] = F[<<Max(s), h[s \ {Max(s)}]>>]

LEMMA IterationExists ==
  ASSUME NEW V, NEW n \in Nat, NEW b \in V, NEW F \in [(1 .. n) \X V -> V]
  PROVE  \E h : Iterates(h, n, V, b, F)
<1> DEFINE Part(h, m) == Iterates(h, m, V, b, F)
           N == {m \in Nat : m <= n => \E h : Part(h, m)}
<1>1. 0 \in N
  <2>1. 1 .. 0 = {}
    OBVIOUS
  <2> DEFINE h == [s \in SUBSET (1 .. 0) |-> b]
  <2>2. h \in [SUBSET (1 .. 0) -> V] /\ h[{}] = b
    OBVIOUS
  <2> HIDE DEF h
  <2>3. Part(h, 0)
    BY <2>1, <2>2 DEF Iterates
  <2> HIDE DEF Part
  <2> QED BY <2>3
<1>2. ASSUME NEW m \in N PROVE m + 1 \in N
  <2> SUFFICES ASSUME m + 1 <= n PROVE \E h : Part(h, m + 1)
    OBVIOUS
  <2>1. m \in Nat /\ m <= n /\ m + 1 \in 1 .. n
    OBVIOUS
  <2>2. PICK g : Part(g, m)
    BY <2>1
  <2> DEFINE S == 1 .. m
             T == 1 .. m + 1
             h == [s \in SUBSET T |-> IF m + 1 \in s THEN F[<<m + 1, g[s \ {m + 1}]>>] ELSE g[s]]
  <2>3. /\ \A s \in SUBSET T : m + 1 \in s => s \ {m + 1} \in SUBSET S
        /\ \A s \in SUBSET T : m + 1 \notin s => s \in SUBSET S
        /\ {} \in SUBSET T /\ m + 1 \notin {} /\ m + 1 \notin S
    <3>1. \A i \in T : i # m + 1 => i \in S
      BY <2>1
    <3>2. m + 1 \notin S
      BY <2>1
    <3> HIDE DEF T, S
    <3> QED BY <3>1, <3>2
  <2>4. g \in [SUBSET S -> V] /\ g[{}] = b
        /\ \A s \in SUBSET S : s # {} => g[s] = F[<<Max(s), g[s \ {Max(s)}]>>]
    BY <2>2 DEF Iterates
  <2>5. \A s \in SUBSET T : s # {} => /\ Max(s) \in s
                                      /\ m + 1 \in s => Max(s) = m + 1
    <3> SUFFICES ASSUME NEW s \in SUBSET T, s # {}
                 PROVE  Max(s) \in s /\ (m + 1 \in s => Max(s) = m + 1)
      OBVIOUS
    <3>1. Max(s) \in s /\ \A x \in s : x <= Max(s)
      <4>1. m + 1 \in Nat /\ s \in SUBSET (1 .. m + 1)
        BY <2>1
      <4> HIDE DEF T
      <4> QED BY <4>1, GreatestIs
    <3>2. Max(s) \in T
      BY <3>1
    <3> QED BY <2>1, <3>1, <3>2
  <2> HIDE DEF S, T
  <2>6. \A s \in SUBSET T : h[s] \in V
    <3> SUFFICES ASSUME NEW s \in SUBSET T PROVE h[s] \in V
      OBVIOUS
    <3>1. CASE m + 1 \in s
      <4>1. g[s \ {m + 1}] \in V
        BY <2>3, <2>4, <3>1
      <4>2. F[<<m + 1, g[s \ {m + 1}]>>] \in V
        BY <2>1, <4>1
      <4> QED BY <3>1, <4>2
    <3>2. CASE m + 1 \notin s
      BY <2>3, <2>4, <3>2
    <3> QED BY <3>1, <3>2
  <2>7. h \in [SUBSET T -> V] /\ h[{}] = b
    BY <2>3, <2>4, <2>6
  <2>8. ASSUME NEW s \in SUBSET T, s # {} PROVE h[s] = F[<<Max(s), h[s \ {Max(s)}]>>]
    <3>1. s \ {Max(s)} \in SUBSET T
      OBVIOUS
    <3>2. CASE m + 1 \in s
      <4>1. Max(s) = m + 1 /\ m + 1 \notin s \ {m + 1}
        BY <2>5, <3>2
      <4>2. h[s \ {m + 1}] = g[s \ {m + 1}]
        BY <3>1, <4>1
      <4> QED BY <3>2, <4>1, <4>2
    <3>3. CASE m + 1 \notin s
      <4>1. s \in SUBSET S /\ m + 1 \notin s \ {Max(s)}
        BY <2>3, <3>3
      <4>2. h[s \ {Max(s)}] = g[s \ {Max(s)}] /\ h[s] = g[s]
        BY <3>1, <3>3, <4>1
      <4> QED BY <2>4, <2>8, <4>1, <4>2
    <3> QED BY <3>2, <3>3
  <2> HIDE DEF h
  <2>9. Part(h, m + 1)
    BY <2>7, <2>8 DEF Iterates, T
  <2> HIDE DEF Part
  <2> QED BY <2>9
<1>3. N = Nat
  <2> HIDE DEF N
  <2>1. N \subseteq Nat
    BY DEF N
  <2> QED BY <1>1, <1>2, <2>1, UpFromZero
<1>4. n \in N /\ n <= n
  <2> HIDE DEF N
  <2> QED BY <1>3
<1> QED BY <1>4

\* The last place of the first k.
LEMMA LastOfFirst ==
  ASSUME NEW n \in Nat, NEW k \in 1 .. n
  PROVE  /\ 1 .. k \in SUBSET (1 .. n) /\ 1 .. k # {} /\ Max(1 .. k) = k
         /\ (1 .. k) \ {Max(1 .. k)} = 1 .. k - 1
<1> DEFINE T == 1 .. k
<1>1. T \in SUBSET (1 .. n) /\ k \in T /\ T \ {k} = 1 .. k - 1
  OBVIOUS
<1>2. Max(T) = k
  <2>1. Max(T) \in T /\ \A x \in T : x <= Max(T)
    BY <1>1, GreatestIs
  <2> QED BY <1>1, <2>1
<1> QED BY <1>1, <1>2

------------------------------------------------------------------------------
(* Returns                                                                 *)

\* Weights of the steps t + k.
Weights(P, EP, returnsEstimator, t, n) ==
  /\ P \in [0 .. n -> Int] /\ P[0] = 1
  /\ \A k \in 1 .. n : Clipped(EP, returnsEstimator, t + k) \in Int
  /\ \A k \in 1 .. n : P[k] = P[k - 1] * gamma * lambda * Clipped(EP, returnsEstimator, t + k)

WeightAt(P, EP, returnsEstimator, t, m) == Weight(EP, returnsEstimator, t, t + m) = P[m]

LEMMA WeightIs ==
  ASSUME NEW EP, NEW re, NEW t \in Nat, NEW n \in Nat, NEW P, Weights(P, EP, re, t, n), NEW m \in 0 .. n
  PROVE  WeightAt(P, EP, re, t, m)
<1> DEFINE S == 1 .. m
           S1 == 1 .. (t + m) - t
           seq == [j \in S1 |-> t + j]
           c(j) == Clipped(EP, re, j)
           Def(iter) == iter = [s \in SUBSET S1 |->
                          IF s = {} THEN 1 ELSE iter[s \ {Max(s)}] * gamma * lambda * c(seq[Max(s)])]
<1>0. (t + m) - t = m /\ m \in Nat /\ S1 = S /\ seq = [j \in S |-> t + j]
  OBVIOUS
<1>1. Weight(EP, re, t, t + m) = (CHOOSE iter : Def(iter))[S1]
  BY DEF Weight, FoldLeft, MapThenFoldSet
<1> DEFINE F == [x \in S \X Int |-> x[2] * gamma * lambda * c(t + x[1])]
<1>2. \A k \in S : c(t + k) \in Int
  <2>1. \A k \in S : k \in 1 .. n
    OBVIOUS
  <2>2. \A k \in 1 .. n : c(t + k) \in Int
    BY DEF Weights
  <2> HIDE DEF S, c
  <2> QED BY <2>1, <2>2
<1> HIDE DEF c, S1, seq
<1>3. F \in [S \X Int -> Int] /\ \A k \in S, x \in Int : F[<<k, x>>] = x * gamma * lambda * c(t + k)
  <2>1. \A x \in Int, k \in S : x * gamma * lambda * c(t + k) \in Int
    <3> SUFFICES ASSUME NEW x \in Int, NEW k \in S PROVE x * gamma * lambda * c(t + k) \in Int
      OBVIOUS
    <3> DEFINE y == c(t + k)
    <3>1. y \in Int
      BY <1>2
    <3> HIDE DEF y
    <3>2. x * gamma * lambda * y \in Int
      BY <3>1, DiscountsAssumption
    <3> QED BY <3>2 DEF y
  <2> HIDE DEF S
  <2> QED BY <2>1
<1>4. PICK h : Iterates(h, m, Int, 1, F)
  <2>1. m \in Nat /\ 1 \in Int /\ F \in [(1 .. m) \X Int -> Int]
    BY <1>0, <1>3
  <2> HIDE DEF F
  <2> QED BY <2>1, IterationExists, Zenon
<1>5. Def(h)
  <2> HIDE DEF F
  <2>1. h \in [SUBSET S -> Int] /\ h[{}] = 1
        /\ \A s \in SUBSET S : s # {} => h[s] = F[<<Max(s), h[s \ {Max(s)}]>>]
    BY <1>4 DEF Iterates
  <2>2. ASSUME NEW s \in SUBSET S
        PROVE  h[s] = IF s = {} THEN 1 ELSE h[s \ {Max(s)}] * gamma * lambda * c(seq[Max(s)])
    <3>1. CASE s = {}
      BY <2>1, <3>1
    <3>2. CASE s # {}
      <4>1. Max(s) \in S
        BY <1>0, <3>2, GreatestIs
      <4>2. seq[Max(s)] = t + Max(s)
        BY <1>0, <4>1
      <4> HIDE DEF S
      <4>3. h[s \ {Max(s)}] \in Int
        BY <2>1
      <4>4. h[s] = F[<<Max(s), h[s \ {Max(s)}]>>]
        BY <2>1, <3>2
      <4> QED BY <1>3, <3>2, <4>1, <4>2, <4>3, <4>4
    <3> QED BY <3>1, <3>2
  <2> HIDE DEF S
  <2> QED BY <1>0, <2>1, <2>2
<1>6. PICK iter : iter = (CHOOSE i : Def(i)) /\ Def(iter)
  <2> HIDE DEF Def, F
  <2> QED BY <1>5, Zenon
<1>7. \A s \in SUBSET S : iter[s] = IF s = {} THEN 1
                                     ELSE iter[s \ {Max(s)}] * gamma * lambda * c(seq[Max(s)])
  <2> HIDE DEF S
  <2> QED BY <1>0, <1>6
<1> HIDE DEF Def, F
<1> DEFINE N == {k \in Nat : k <= m => iter[1 .. k] = P[k]}
<1>8. 0 \in N
  <2>1. 1 .. 0 = {} /\ {} \in SUBSET S
    OBVIOUS
  <2>2. P[0] = 1
    BY DEF Weights
  <2> QED BY <1>7, <2>1, <2>2
<1>9. ASSUME NEW k \in N PROVE k + 1 \in N
  <2> SUFFICES ASSUME k + 1 <= m PROVE iter[1 .. k + 1] = P[k + 1]
    OBVIOUS
  <2>1. k + 1 \in 1 .. m /\ k \in Nat /\ (k + 1) - 1 = k /\ k + 1 \in 1 .. n
    OBVIOUS
  <2>2. /\ 1 .. k + 1 \in SUBSET S /\ 1 .. k + 1 # {} /\ Max(1 .. k + 1) = k + 1
        /\ (1 .. k + 1) \ {Max(1 .. k + 1)} = 1 .. k
    BY <1>0, <2>1, LastOfFirst
  <2>3. seq[k + 1] = t + (k + 1)
    BY <1>0, <2>1
  <2>4. iter[1 .. k] = P[k]
    BY <2>1
  <2>5. P[k + 1] = P[k] * gamma * lambda * c(t + (k + 1))
    BY <2>1 DEF Weights, c
  <2> HIDE DEF S
  <2> DEFINE T == 1 .. k + 1
             T0 == 1 .. k
  <2>6. T \in SUBSET S /\ T # {} /\ Max(T) = k + 1 /\ T \ {Max(T)} = T0 /\ iter[T0] = P[k]
    BY <2>2, <2>4
  <2> HIDE DEF T, T0
  <2>7. iter[T] = iter[T \ {Max(T)}] * gamma * lambda * c(seq[Max(T)])
    BY <1>7, <2>6
  <2>8. iter[T] = P[k + 1]
    BY <2>3, <2>5, <2>6, <2>7
  <2> QED BY <2>8 DEF T
<1>10. N = Nat
  <2> HIDE DEF N
  <2>1. N \subseteq Nat
    BY DEF N
  <2> QED BY <1>8, <1>9, <2>1, UpFromZero
<1>11. iter[S] = P[m]
  <2>1. m \in N /\ m <= m
    BY <1>0, <1>10
  <2> QED BY <2>1
<1> QED BY <1>0, <1>1, <1>6, <1>11 DEF WeightAt

\* An episode of N steps with the estimates that returns are made of.
Valued(EP, N) ==
  /\ N \in Nat \ {0} /\ Len(EP.states) = N /\ EP.rewards \in [1 .. N -> Int]
  /\ EP.estimates["stateValue"] \in [1 .. N -> Int]
  /\ EP.estimates["actionAdvantage"] \in [1 .. N -> Int]
  /\ EP.estimates["offPolicImpW"] \in [1 .. N -> Int]
  /\ EP.estimates["returnEstimator"] \in [1 .. N -> Int]

LEMMA ValuedTypes ==
  ASSUME NEW EP, NEW N, Valued(EP, N), NEW re, NEW t \in 1 .. N
  PROVE  /\ Clipped(EP, re, t) \in Int /\ AdvantagesOf(EP, re)[t] \in Int
         /\ EP.estimates["stateValue"][t] \in Int /\ EP.rewards[t] \in Int
<1>1. /\ EP.estimates["offPolicImpW"][t] \in Int /\ EP.estimates["actionAdvantage"][t] \in Int
      /\ EP.estimates["stateValue"][t] \in Int /\ EP.rewards[t] \in Int
  BY DEF Valued
<1>2. Clipped(EP, re, t) \in Int
  BY <1>1 DEF Clipped, clippedOffPolW
<1>3. AdvantagesOf(EP, re)[t] \in Int
  <2>1. Zeros(Len(EP.states))[t] = 0
    BY DEF Valued, Zeros
  <2> QED BY <1>1, <2>1 DEF AdvantagesOf
<1> QED BY <1>1, <1>2, <1>3

\* The summand of the step t + k.
Summand(P, EP, re, t, k) ==
  P[k - 1] * (EP.rewards[t + k] + gamma * EP.estimates["stateValue"][t + k])

Taken(P, EP, re, t, k) ==
  IF t + k = Len(EP.states) THEN 0
  ELSE P[k] * (AdvantagesOf(EP, re)[t + k] + EP.estimates["stateValue"][t + k])

Sums(Q, P, EP, re, t, n) ==
  /\ Q \in [0 .. n -> Int] /\ Q[0] = 0
  /\ \A k \in 1 .. n : Q[k] = Q[k - 1] + Summand(P, EP, re, t, k) - Taken(P, EP, re, t, k)

LEMMA SummandTypes ==
  ASSUME NEW EP, NEW N, Valued(EP, N), NEW re, NEW t \in 1 .. N - 1,
         NEW P, Weights(P, EP, re, t, N - t), NEW k \in 1 .. N - t
  PROVE  Summand(P, EP, re, t, k) \in Int /\ Taken(P, EP, re, t, k) \in Int
<1>0. N \in Nat
  BY DEF Valued
<1>1. N \in Nat /\ t + k \in 1 .. N /\ k - 1 \in 0 .. N - t /\ k \in 0 .. N - t
  BY <1>0
<1>2. P[k - 1] \in Int /\ P[k] \in Int
  BY <1>1 DEF Weights
<1>3. /\ AdvantagesOf(EP, re)[t + k] \in Int
      /\ EP.estimates["stateValue"][t + k] \in Int /\ EP.rewards[t + k] \in Int
  BY <1>1, ValuedTypes
<1> DEFINE p0 == P[k - 1]
           p1 == P[k]
           a == AdvantagesOf(EP, re)[t + k]
           v == EP.estimates["stateValue"][t + k]
           r == EP.rewards[t + k]
<1>4. p0 \in Int /\ p1 \in Int /\ a \in Int /\ v \in Int /\ r \in Int
  BY <1>2, <1>3
<1> HIDE DEF p0, p1, a, v, r
<1>5. p0 * (r + gamma * v) \in Int /\ p1 * (a + v) \in Int
  BY <1>4, DiscountsAssumption
<1> QED BY <1>5 DEF Summand, Taken, p0, p1, a, v, r

LEMMA SumsExist ==
  ASSUME NEW EP, NEW N, Valued(EP, N), NEW re, NEW t \in 1 .. N - 1
  PROVE  \E P, Q : Weights(P, EP, re, t, N - t) /\ Sums(Q, P, EP, re, t, N - t)
<1> DEFINE n == N - t
<1>1. n \in Nat /\ N \in Nat /\ \A k \in 1 .. n : t + k \in 1 .. N
  BY DEF Valued
<1> HIDE DEF n
<1>2. \E P : Weights(P, EP, re, t, n)
  <2> DEFINE c(k) == Clipped(EP, re, t + k)
             F == [x \in (1 .. n) \X Int |-> x[2] * gamma * lambda * c(x[1])]
  <2>1. \A k \in 1 .. n : c(k) \in Int
    BY <1>1, ValuedTypes
  <2> HIDE DEF c
  <2>2. \A k \in 1 .. n, x \in Int : x * gamma * lambda * c(k) \in Int
    <3> SUFFICES ASSUME NEW x \in Int, NEW k \in 1 .. n PROVE x * gamma * lambda * c(k) \in Int
      OBVIOUS
    <3> DEFINE y == c(k)
    <3>1. y \in Int
      BY <2>1
    <3> HIDE DEF y
    <3>2. x * gamma * lambda * y \in Int
      BY <3>1, DiscountsAssumption
    <3> QED BY <3>2 DEF y
  <2>3. F \in [(1 .. n) \X Int -> Int]
        /\ \A k \in 1 .. n, x \in Int : F[<<k, x>>] = x * gamma * lambda * c(k)
    BY <2>2
  <2>4. \E P : Recursion(P, n, Int, 1, F)
    <3>1. 1 \in Int /\ F \in [(1 .. n) \X Int -> Int]
      BY <2>3
    <3> HIDE DEF F
    <3> QED BY <1>1, <3>1, RecursionExists, Zenon
  <2>5. PICK P : Recursion(P, n, Int, 1, F)
    BY <2>4
  <2> HIDE DEF F
  <2>6. P \in [0 .. n -> Int] /\ P[0] = 1
    BY <2>5 DEF Recursion
  <2>7. \A k \in 1 .. n : P[k] = P[k - 1] * gamma * lambda * c(k)
    <3> SUFFICES ASSUME NEW k \in 1 .. n PROVE P[k] = P[k - 1] * gamma * lambda * c(k)
      OBVIOUS
    <3>1. k - 1 \in 0 .. n
      BY <1>1
    <3>2. P[k - 1] \in Int /\ P[k] = F[<<k, P[k - 1]>>]
      BY <2>5, <2>6, <3>1 DEF Recursion
    <3> QED BY <2>3, <3>2
  <2> QED BY <2>1, <2>6, <2>7 DEF Weights, c
<1>3. PICK P : Weights(P, EP, re, t, n)
  BY <1>2
<1>4. \E Q : Sums(Q, P, EP, re, t, n)
  <2> DEFINE a(k) == Summand(P, EP, re, t, k)
             b(k) == Taken(P, EP, re, t, k)
             F == [x \in (1 .. n) \X Int |-> x[2] + a(x[1]) - b(x[1])]
  <2>1. \A k \in 1 .. n : a(k) \in Int /\ b(k) \in Int
    BY <1>3, SummandTypes DEF n
  <2> HIDE DEF a, b
  <2>3. F \in [(1 .. n) \X Int -> Int]
        /\ \A k \in 1 .. n, x \in Int : F[<<k, x>>] = x + a(k) - b(k)
    BY <2>1
  <2>4. \E Q : Recursion(Q, n, Int, 0, F)
    <3>1. 0 \in Int /\ F \in [(1 .. n) \X Int -> Int]
      BY <2>3
    <3> HIDE DEF F
    <3> QED BY <1>1, <3>1, RecursionExists, Zenon
  <2>5. PICK Q : Recursion(Q, n, Int, 0, F)
    BY <2>4
  <2> HIDE DEF F
  <2>6. Q \in [0 .. n -> Int] /\ Q[0] = 0
    BY <2>5 DEF Recursion
  <2>7. \A k \in 1 .. n : Q[k] = Q[k - 1] + a(k) - b(k)
    <3> SUFFICES ASSUME NEW k \in 1 .. n PROVE Q[k] = Q[k - 1] + a(k) - b(k)
      OBVIOUS
    <3>1. k - 1 \in 0 .. n
      BY <1>1
    <3>2. Q[k - 1] \in Int /\ Q[k] = F[<<k, Q[k - 1]>>]
      BY <2>5, <2>6, <3>1 DEF Recursion
    <3> QED BY <2>3, <3>2
  <2> QED BY <2>6, <2>7 DEF Sums, a, b
<1> QED BY <1>3, <1>4 DEF n

LEMMA ReturnSumIs ==
  ASSUME NEW EP, NEW N, Valued(EP, N), NEW re, NEW t \in 1 .. N - 1,
         NEW P, Weights(P, EP, re, t, N - t), NEW Q, Sums(Q, P, EP, re, t, N - t)
  PROVE  ReturnSum(EP, re, t) = Q[N - t]
<1> DEFINE m == N - t
           S == 1 .. m
           len == Len(EP.states)
           S1 == 1 .. len - t
           seq == [j \in S1 |-> t + j]
           V == EP.estimates["stateValue"]
           A == AdvantagesOf(EP, re)
           up(j) == Weight(EP, re, t, j - 1) * (EP.rewards[j] + gamma * V[j])
           down(j) == IF j = len THEN 0 ELSE Weight(EP, re, t, j) * (A[j] + V[j])
           Def(iter) == iter = [s \in SUBSET S1 |->
                          IF s = {} THEN 0
                          ELSE iter[s \ {Max(s)}] + up(seq[Max(s)]) - down(seq[Max(s)])]
<1>0. /\ m \in Nat /\ t \in Nat /\ N \in Nat /\ len = N /\ S1 = S /\ seq = [j \in S |-> t + j]
      /\ \A k \in S : t + k \in 1 .. N
  BY DEF Valued
<1>1. ReturnSum(EP, re, t) = (CHOOSE iter : Def(iter))[S1]
  BY DEF ReturnSum, FoldLeft, MapThenFoldSet
<1>2. \A k \in S : up(t + k) = Summand(P, EP, re, t, k) /\ down(t + k) = Taken(P, EP, re, t, k)
  <2> SUFFICES ASSUME NEW k \in S
               PROVE  up(t + k) = Summand(P, EP, re, t, k) /\ down(t + k) = Taken(P, EP, re, t, k)
    OBVIOUS
  <2>2. k - 1 \in 0 .. m /\ k \in 0 .. m /\ (t + k) - 1 = t + (k - 1)
    BY <1>0
  <2> HIDE DEF m
  <2>3. Weights(P, EP, re, t, m)
    BY DEF m
  <2>4. WeightAt(P, EP, re, t, k - 1)
    BY <1>0, <2>2, <2>3, WeightIs, Zenon
  <2>5. WeightAt(P, EP, re, t, k)
    BY <1>0, <2>2, <2>3, WeightIs, Zenon
  <2> QED BY <2>2, <2>4, <2>5 DEF WeightAt, Summand, Taken
<1> DEFINE a(k) == Summand(P, EP, re, t, k)
           b(k) == Taken(P, EP, re, t, k)
<1>3. \A k \in S : a(k) \in Int /\ b(k) \in Int
  BY SummandTypes
<1>4. /\ Q \in [0 .. m -> Int] /\ Q[0] = 0
      /\ \A k \in 1 .. m : Q[k] = Q[k - 1] + a(k) - b(k)
  BY DEF Sums
<1>5. \A k \in S : up(t + k) = a(k) /\ down(t + k) = b(k)
  BY <1>2
<1> HIDE DEF a, b, S1, seq, up, down, len, m
<1> DEFINE F == [x \in S \X Int |-> x[2] + a(x[1]) - b(x[1])]
<1>6. F \in [S \X Int -> Int] /\ \A k \in S, x \in Int : F[<<k, x>>] = x + a(k) - b(k)
  <2> HIDE DEF S
  <2> QED BY <1>3
<1>7. PICK h : Iterates(h, m, Int, 0, F)
  <2>1. m \in Nat /\ 0 \in Int /\ F \in [(1 .. m) \X Int -> Int]
    BY <1>0, <1>6
  <2> HIDE DEF F
  <2> QED BY <2>1, IterationExists, Zenon
<1>8. Def(h)
  <2> HIDE DEF F
  <2>1. h \in [SUBSET S -> Int] /\ h[{}] = 0
        /\ \A s \in SUBSET S : s # {} => h[s] = F[<<Max(s), h[s \ {Max(s)}]>>]
    BY <1>7 DEF Iterates
  <2>2. ASSUME NEW s \in SUBSET S
        PROVE  h[s] = IF s = {} THEN 0
                      ELSE h[s \ {Max(s)}] + up(seq[Max(s)]) - down(seq[Max(s)])
    <3>1. CASE s = {}
      BY <2>1, <3>1
    <3>2. CASE s # {}
      <4>1. Max(s) \in S
        BY <1>0, <3>2, GreatestIs
      <4>2. seq[Max(s)] = t + Max(s)
        BY <1>0, <4>1
      <4> HIDE DEF S
      <4>3. h[s \ {Max(s)}] \in Int
        BY <2>1
      <4>4. h[s] = F[<<Max(s), h[s \ {Max(s)}]>>]
        BY <2>1, <3>2
      <4> QED BY <1>5, <1>6, <3>2, <4>1, <4>2, <4>3, <4>4
    <3> QED BY <3>1, <3>2
  <2> HIDE DEF S
  <2> QED BY <1>0, <2>1, <2>2
<1>9. PICK iter : iter = (CHOOSE i : Def(i)) /\ Def(iter)
  <2> HIDE DEF Def, F
  <2> QED BY <1>8, Zenon
<1>10. \A s \in SUBSET S : iter[s] = IF s = {} THEN 0
                       ELSE iter[s \ {Max(s)}] + up(seq[Max(s)]) - down(seq[Max(s)])
  <2> HIDE DEF S
  <2> QED BY <1>0, <1>9
<1> HIDE DEF Def, F
<1> DEFINE M == {k \in Nat : k <= m => iter[1 .. k] = Q[k]}
<1>11. 0 \in M
  <2>1. 1 .. 0 = {} /\ {} \in SUBSET S
    OBVIOUS
  <2> QED BY <1>4, <1>10, <2>1
<1>12. ASSUME NEW k \in M PROVE k + 1 \in M
  <2> SUFFICES ASSUME k + 1 <= m PROVE iter[1 .. k + 1] = Q[k + 1]
    OBVIOUS
  <2>0. k \in Nat /\ m \in Nat
    BY <1>0
  <2>1. k + 1 \in 1 .. m /\ k \in Nat /\ (k + 1) - 1 = k
    <3> HIDE DEF M
    <3> QED BY <2>0
  <2>2. /\ 1 .. k + 1 \in SUBSET S /\ 1 .. k + 1 # {} /\ Max(1 .. k + 1) = k + 1
        /\ (1 .. k + 1) \ {Max(1 .. k + 1)} = 1 .. k
    BY <1>0, <2>1, LastOfFirst
  <2>3. seq[k + 1] = t + (k + 1)
    BY <1>0, <2>1
  <2>4. iter[1 .. k] = Q[k]
    BY <1>0, <2>1
  <2>5. Q[k + 1] = Q[k] + up(t + (k + 1)) - down(t + (k + 1))
    BY <1>4, <1>5, <2>1
  <2> HIDE DEF S
  <2> DEFINE T == 1 .. k + 1
             T0 == 1 .. k
  <2>6. T \in SUBSET S /\ T # {} /\ Max(T) = k + 1 /\ T \ {Max(T)} = T0 /\ iter[T0] = Q[k]
    BY <2>2, <2>4
  <2> HIDE DEF T, T0
  <2>7. iter[T] = iter[T \ {Max(T)}] + up(seq[Max(T)]) - down(seq[Max(T)])
    BY <1>10, <2>6
  <2>8. iter[T] = Q[k + 1]
    BY <2>3, <2>5, <2>6, <2>7
  <2> QED BY <2>8 DEF T
<1>13. M = Nat
  <2> HIDE DEF M
  <2>1. M \subseteq Nat
    BY DEF M
  <2> QED BY <1>11, <1>12, <2>1, UpFromZero
<1>14. iter[S] = Q[m]
  <2>1. m \in M /\ m <= m
    BY <1>0, <1>13
  <2> QED BY <2>1
<1> QED BY <1>0, <1>1, <1>9, <1>14 DEF m

\* Returns that come from those of the next steps.
Recurs(R, EP, re, N) ==
  /\ R \in [1 .. N -> Int]
  /\ \A t \in 1 .. N - 1 : R[t] = createReturnEstimator(EP, re, t, R[t + 1])
  /\ R[N] = AdvantagesOf(EP, re)[N] + EP.estimates["stateValue"][N]

LEMMA NextReturn ==
  ASSUME NEW EP, NEW N, Valued(EP, N), NEW re, NEW t \in 1 .. N - 1, NEW Q \in Int
  PROVE  /\ createReturnEstimator(EP, re, t, Q) \in Int
         /\ createReturnEstimator(EP, re, t, Q)
              = EP.rewards[t + 1] + gamma * (EP.estimates["stateValue"][t + 1]
                  + lambda * Clipped(EP, re, t + 1)
                    * (Q - AdvantagesOf(EP, re)[t + 1] - EP.estimates["stateValue"][t + 1]))
<1>1. N \in Nat /\ t + 1 \in 1 .. N
  BY DEF Valued
<1> DEFINE r == EP.rewards[t + 1]
           v == EP.estimates["stateValue"][t + 1]
           a == AdvantagesOf(EP, re)[t + 1]
           c == Clipped(EP, re, t + 1)
           x == createReturnEstimator(EP, re, t, Q)
<1>2. r \in Int /\ v \in Int /\ a \in Int /\ c \in Int
  BY <1>1, ValuedTypes
<1>3. CASE re = "GAE"
  <2>1. x = r + gamma * (v + lambda * (Q - v))
    BY <1>3 DEF createReturnEstimator, computeGAE
  <2>2. c = 1 /\ a = 0
    <3>1. Zeros(Len(EP.states))[t + 1] = 0
      BY <1>1 DEF Valued, Zeros
    <3> QED BY <1>3, <3>1 DEF Clipped, AdvantagesOf
  <2> HIDE DEF x, r, v, a, c
  <2>3. x \in Int /\ x = r + gamma * (v + lambda * c * (Q - a - v))
    BY <1>2, <2>1, <2>2, DiscountsAssumption
  <2> QED BY <2>3 DEF x, r, v, a, c
<1>4. CASE re # "GAE"
  <2>1. x = r + gamma * (v + lambda * c * (Q - a - v))
    BY <1>4 DEF createReturnEstimator, computeRetrace, Clipped, AdvantagesOf
  <2> HIDE DEF x, r, v, a, c
  <2>2. x \in Int
    BY <1>2, <2>1, DiscountsAssumption
  <2> QED BY <2>1, <2>2 DEF x, r, v, a, c
<1> QED BY <1>3, <1>4

\* Polynomials of the steps.
Unrolls(s, w, r, v, a, c, q) ==
  s + w * (r + gamma * (v + lambda * c * (q - a - v)))
    = (s + w * (r + gamma * v) - (w * gamma * lambda * c) * (a + v)) + (w * gamma * lambda * c) * q

LEMMA OneMoreTerm ==
  ASSUME NEW s \in Int, NEW w \in Int, NEW r \in Int, NEW v \in Int, NEW a \in Int, NEW c \in Int,
         NEW q \in Int
  PROVE  Unrolls(s, w, r, v, a, c, q)
<1>1. gamma \in Int /\ lambda \in Int
  BY DiscountsAssumption
<1> DEFINE g == gamma * (lambda * c)
<1>2. g \in Int /\ w * gamma * lambda * c = w * g
      /\ gamma * (v + lambda * c * (q - a - v)) = gamma * v + g * (q - a - v)
  BY <1>1
<1> HIDE DEF g
<1>3. w * (r + (gamma * v + g * (q - a - v)))
        = w * (r + gamma * v) - (w * g) * (a + v) + (w * g) * q
  BY <1>1, <1>2
<1>4. w * (r + gamma * v) \in Int /\ (w * g) * (a + v) \in Int /\ (w * g) * q \in Int
  BY <1>1, <1>2
<1> QED BY <1>2, <1>3, <1>4 DEF Unrolls

\* The returns are sums of all that follows, but the last ...
LEMMA RecursionUnrolled ==
  ASSUME NEW EP, NEW N, Valued(EP, N), NEW re, NEW R, Recurs(R, EP, re, N), NEW t \in 1 .. N - 1,
         NEW P, Weights(P, EP, re, t, N - t), NEW Q, Sums(Q, P, EP, re, t, N - t)
  PROVE  R[t] = Q[N - t]
<1> DEFINE n == N - t
           r(k) == EP.rewards[t + k]
           v(k) == EP.estimates["stateValue"][t + k]
           a(k) == AdvantagesOf(EP, re)[t + k]
           c(k) == Clipped(EP, re, t + k)
<1>0. N \in Nat /\ Len(EP.states) = N
  BY DEF Valued
<1>1. N \in Nat /\ n \in Nat \ {0} /\ t \in Nat
      /\ \A k \in 1 .. n : t + k \in 1 .. N /\ (t + k = Len(EP.states) <=> k = n)
  BY <1>0
<1>2. \A k \in 1 .. n : r(k) \in Int /\ v(k) \in Int /\ a(k) \in Int /\ c(k) \in Int
  BY <1>1, ValuedTypes
<1>3. /\ P \in [0 .. n -> Int] /\ P[0] = 1
      /\ \A k \in 1 .. n : P[k] = P[k - 1] * gamma * lambda * c(k)
  BY DEF Weights
<1>4. /\ Q \in [0 .. n -> Int] /\ Q[0] = 0
      /\ \A k \in 1 .. n : Q[k] = Q[k - 1] + P[k - 1] * (r(k) + gamma * v(k))
                                   - (IF k = n THEN 0 ELSE P[k] * (a(k) + v(k)))
  <2>1. \A k \in 1 .. n : Summand(P, EP, re, t, k) = P[k - 1] * (r(k) + gamma * v(k))
    BY DEF Summand
  <2>2. \A k \in 1 .. n : Taken(P, EP, re, t, k) = IF k = n THEN 0 ELSE P[k] * (a(k) + v(k))
    BY <1>1 DEF Taken
  <2>3. /\ Q \in [0 .. n -> Int] /\ Q[0] = 0
        /\ \A k \in 1 .. n : Q[k] = Q[k - 1] + Summand(P, EP, re, t, k) - Taken(P, EP, re, t, k)
    BY DEF Sums
  <2> HIDE DEF n, r, v, a
  <2> QED BY <2>1, <2>2, <2>3
<1>5. \A k \in 0 .. n : R[t + k] \in Int
  BY <1>1 DEF Recurs
<1>6. \A k \in 1 .. n :
         R[t + (k - 1)] = r(k) + gamma * (v(k) + lambda * c(k) * (R[t + k] - a(k) - v(k)))
  <2> SUFFICES ASSUME NEW k \in 1 .. n
               PROVE  R[t + (k - 1)] = r(k) + gamma * (v(k) + lambda * c(k) * (R[t + k] - a(k) - v(k)))
    OBVIOUS
  <2> DEFINE u == t + (k - 1)
  <2>1. u \in 1 .. N - 1 /\ u + 1 = t + k /\ R[t + k] \in Int
    BY <1>1, <1>5
  <2> HIDE DEF u
  <2>2. R[u] = createReturnEstimator(EP, re, u, R[u + 1])
    BY <2>1 DEF Recurs
  <2>3. createReturnEstimator(EP, re, u, R[u + 1])
          = EP.rewards[u + 1] + gamma * (EP.estimates["stateValue"][u + 1]
              + lambda * Clipped(EP, re, u + 1)
                * (R[u + 1] - AdvantagesOf(EP, re)[u + 1] - EP.estimates["stateValue"][u + 1]))
    BY <2>1, NextReturn
  <2> QED BY <2>1, <2>2, <2>3 DEF u
<1>7. R[t + n] = a(n) + v(n)
  BY <1>1 DEF Recurs
<1> HIDE DEF n, r, v, a, c
<1> DEFINE M == {k \in Nat : k < n => R[t] = Q[k] + P[k] * R[t + k]}
<1>8. 0 \in M
  <2>1. t + 0 = t /\ R[t + 0] \in Int
    BY <1>1, <1>5
  <2> QED BY <1>3, <1>4, <2>1
<1>9. ASSUME NEW k \in M PROVE k + 1 \in M
  <2> SUFFICES ASSUME k + 1 < n PROVE R[t] = Q[k + 1] + P[k + 1] * R[t + (k + 1)]
    OBVIOUS
  <2>1. k \in Nat /\ k + 1 \in 1 .. n /\ (k + 1) - 1 = k /\ k + 1 # n /\ k \in 0 .. n
        /\ k + 1 \in 0 .. n
    BY <1>1
  <2>2. R[t] = Q[k] + P[k] * R[t + k]
    BY <1>1, <2>1
  <2> DEFINE s == Q[k]
             w == P[k]
             r1 == r(k + 1)
             v1 == v(k + 1)
             a1 == a(k + 1)
             c1 == c(k + 1)
             q1 == R[t + (k + 1)]
  <2>3. /\ s \in Int /\ w \in Int /\ r1 \in Int /\ v1 \in Int /\ a1 \in Int /\ c1 \in Int /\ q1 \in Int
    BY <1>2, <1>3, <1>4, <1>5, <2>1
  <2>4. R[t + k] = r1 + gamma * (v1 + lambda * c1 * (q1 - a1 - v1))
    BY <1>6, <2>1
  <2>5. P[k + 1] = w * gamma * lambda * c1
    BY <1>3, <2>1
  <2>6. Q[k + 1] = s + w * (r1 + gamma * v1) - P[k + 1] * (a1 + v1)
    BY <1>4, <2>1
  <2> HIDE DEF s, w, r1, v1, a1, c1, q1
  <2>7. Unrolls(s, w, r1, v1, a1, c1, q1)
    BY <2>3, OneMoreTerm
  <2>8. R[t] = s + w * R[t + k]
    BY <2>2 DEF s, w
  <2>9. R[t] = Q[k + 1] + P[k + 1] * q1
    BY <2>4, <2>5, <2>6, <2>7, <2>8 DEF Unrolls
  <2> QED BY <2>9 DEF q1
<1>10. M = Nat
  <2> HIDE DEF M
  <2>1. M \subseteq Nat
    BY DEF M
  <2> QED BY <1>8, <1>9, <2>1, UpFromZero
<1>11. R[t] = Q[n - 1] + P[n - 1] * R[t + (n - 1)]
  <2>1. n - 1 \in M /\ n - 1 < n
    BY <1>1, <1>10
  <2> QED BY <2>1
<1> DEFINE s == Q[n - 1]
           w == P[n - 1]
           r1 == r(n)
           v1 == v(n)
           a1 == a(n)
           c1 == c(n)
           q1 == R[t + n]
<1>12. n \in 1 .. n /\ n - 1 \in 0 .. n /\ n \in 0 .. n
  BY <1>1
<1>13. /\ s \in Int /\ w \in Int /\ r1 \in Int /\ v1 \in Int /\ a1 \in Int /\ c1 \in Int /\ q1 \in Int
  BY <1>2, <1>3, <1>4, <1>5, <1>12
<1>14. R[t + (n - 1)] = r1 + gamma * (v1 + lambda * c1 * (q1 - a1 - v1)) /\ q1 = a1 + v1
  BY <1>6, <1>7, <1>12
<1>15. Q[n] = s + w * (r1 + gamma * v1)
  <2>1. Q[n] = s + w * (r1 + gamma * v1) - 0
    BY <1>4, <1>12
  <2> HIDE DEF s, w, r1, v1
  <2> DEFINE y == w * (r1 + gamma * v1)
  <2>2. y \in Int
    BY <1>13, DiscountsAssumption
  <2>3. Q[n] = s + (y - 0)
    BY <2>1
  <2> HIDE DEF y
  <2>4. y - 0 = y
    BY <2>2
  <2>5. Q[n] = s + y
    BY <2>3, <2>4
  <2> QED BY <2>5 DEF y
<1>16. R[t] = s + w * R[t + (n - 1)]
  BY <1>11
<1> HIDE DEF s, w, r1, v1, a1, c1, q1
<1>17. q1 - a1 - v1 = 0 /\ lambda * c1 * 0 = 0
  BY <1>13, <1>14, DiscountsAssumption
<1>18. R[t + (n - 1)] = r1 + gamma * v1
  BY <1>13, <1>14, <1>17
<1>19. R[t] = Q[n]
  BY <1>15, <1>16, <1>18
<1> QED BY <1>19 DEF n

\* What updateReturnEstimator computes, from the last step to the first.
LEMMA Updated ==
  ASSUME NEW EP, NEW N, Valued(EP, N), NEW re
  PROVE  LET R == updateReturnEstimator(EP, N - 1, re) IN
         /\ R \in [1 .. N -> Int]
         /\ \A t \in 1 .. N - 1 : R[t] = createReturnEstimator(EP, re, t, R[t + 1])
         /\ R[N] = IF EP.bReachedTermState THEN EP.estimates["returnEstimator"][N]
                   ELSE EP.estimates["stateValue"][N]
<1> DEFINE S == 1 .. N
           last == IF EP.bReachedTermState THEN EP.estimates["returnEstimator"][N]
                   ELSE EP.estimates["stateValue"][N]
           next(t, Q) == createReturnEstimator(EP, re, t, Q)
           Def(ret) == ret = [t \in 1 .. Len(EP.states) |->
                          IF t = Len(EP.states) /\ ~EP.bReachedTermState
                          THEN EP.estimates["stateValue"][Len(EP.states)]
                          ELSE IF t > N - 1 THEN EP.estimates["returnEstimator"][t]
                          ELSE createReturnEstimator(EP, re, t, ret[t + 1])]
<1>0. N \in Nat \ {0} /\ Len(EP.states) = N /\ N \in S
  BY DEF Valued
<1>1. updateReturnEstimator(EP, N - 1, re)
        = [t \in 1 .. Len(EP.states) |-> (CHOOSE ret : Def(ret))[t]]
  BY DEF updateReturnEstimator
<1>2. last \in Int
  BY <1>0 DEF Valued
<1>3. \A t \in 1 .. N - 1, Q \in Int : next(t, Q) \in Int
  BY NextReturn
<1> HIDE DEF last
<1>4. \A ret : Def(ret) <=> ret = [t \in S |-> IF t = N THEN last ELSE next(t, ret[t + 1])]
  <2>1. \A t \in S : t > N - 1 <=> t = N
    BY <1>0
  <2> QED BY <1>0, <2>1 DEF last
<1> HIDE DEF next, S, Def
<1>5. \E R : Def(R)
  <2> DEFINE F == [x \in (1 .. N - 1) \X Int |-> next(N - x[1], x[2])]
  <2>1. \A k \in 1 .. N - 1 : N - k \in 1 .. N - 1
    BY <1>0
  <2>2. F \in [(1 .. N - 1) \X Int -> Int]
        /\ \A k \in 1 .. N - 1, x \in Int : F[<<k, x>>] = next(N - k, x)
    BY <1>3, <2>1
  <2> HIDE DEF F
  <2>3. \E g : Recursion(g, N - 1, Int, last, F)
    <3>1. N - 1 \in Nat
      BY <1>0
    <3> QED BY <1>2, <2>2, <3>1, RecursionExists, Zenon
  <2>4. PICK g : Recursion(g, N - 1, Int, last, F)
    BY <2>3
  <2> DEFINE R == [t \in S |-> g[N - t]]
  <2>5. g \in [0 .. N - 1 -> Int] /\ g[0] = last
        /\ \A k \in 1 .. N - 1 : g[k] = F[<<k, g[k - 1]>>]
    BY <2>4 DEF Recursion
  <2>6. \A t \in S : R[t] = IF t = N THEN last ELSE next(t, R[t + 1])
    <3> SUFFICES ASSUME NEW t \in S PROVE R[t] = IF t = N THEN last ELSE next(t, R[t + 1])
      OBVIOUS
    <3>1. CASE t = N
      <4>1. R[t] = g[0]
        BY <1>0, <3>1
      <4> QED BY <2>5, <3>1, <4>1
    <3>2. CASE t # N
      <4>1. N - t \in 1 .. N - 1 /\ (N - t) - 1 = N - (t + 1) /\ t + 1 \in S /\ N - (N - t) = t
            /\ (N - t) - 1 \in 0 .. N - 1
        BY <1>0, <3>2 DEF S
      <4>2. R[t] = g[N - t] /\ R[t + 1] = g[(N - t) - 1]
        BY <4>1
      <4>3. g[(N - t) - 1] \in Int
        BY <2>5, <4>1
      <4>4. g[N - t] = next(N - (N - t), g[(N - t) - 1])
        BY <2>2, <2>5, <4>1, <4>3
      <4> QED BY <3>2, <4>1, <4>2, <4>4
    <3> QED BY <3>1, <3>2
  <2>7. R = [t \in S |-> IF t = N THEN last ELSE next(t, R[t + 1])]
    BY <2>6
  <2> HIDE DEF R
  <2> QED BY <1>4, <2>7
<1>6. PICK R : R = (CHOOSE ret : Def(ret)) /\ Def(R)
  BY <1>5, Zenon
<1>7. R = [t \in S |-> IF t = N THEN last ELSE next(t, R[t + 1])]
  BY <1>4, <1>6
<1>8. \A t \in S : R[t] = IF t = N THEN last ELSE next(t, R[t + 1])
  BY <1>7
<1> DEFINE M == {k \in Nat : k < N => R[N - k] \in Int}
<1>9. 0 \in M
  <2>1. N - 0 = N
    BY <1>0
  <2> QED BY <1>0, <1>2, <1>8, <2>1
<1>10. ASSUME NEW k \in M PROVE k + 1 \in M
  <2> SUFFICES ASSUME k + 1 < N PROVE R[N - (k + 1)] \in Int
    OBVIOUS
  <2>1. k < N /\ N - (k + 1) \in S /\ N - (k + 1) # N /\ (N - (k + 1)) + 1 = N - k
        /\ N - (k + 1) \in 1 .. N - 1
    BY <1>0 DEF S
  <2>2. R[N - k] \in Int
    BY <2>1
  <2> QED BY <1>3, <1>8, <2>1, <2>2
<1>11. M = Nat
  <2> HIDE DEF M
  <2>1. M \subseteq Nat
    BY DEF M
  <2> QED BY <1>9, <1>10, <2>1, UpFromZero
<1>12. \A t \in S : R[t] \in Int
  <2> SUFFICES ASSUME NEW t \in S PROVE R[t] \in Int
    OBVIOUS
  <2>1. N - t \in Nat /\ N - t < N /\ N - (N - t) = t
    BY <1>0 DEF S
  <2>2. N - t \in M
    BY <1>11, <2>1
  <2> QED BY <2>1, <2>2
<1>13. R \in [S -> Int]
  BY <1>7, <1>12
<1>14. updateReturnEstimator(EP, N - 1, re) = R
  <2>1. updateReturnEstimator(EP, N - 1, re) = [t \in S |-> R[t]]
    BY <1>0, <1>1, <1>6 DEF S
  <2> QED BY <1>13, <2>1
<1>15. \A t \in 1 .. N - 1 : R[t] = next(t, R[t + 1])
  <2>1. \A t \in 1 .. N - 1 : t \in S /\ t # N
    BY <1>0 DEF S
  <2> QED BY <1>8, <2>1
<1>16. R[N] = last
  BY <1>0, <1>8
<1> QED BY <1>13, <1>14, <1>15, <1>16 DEF S, next, last

\* An episode whose last value is 0 if it was terminated.
ValuedToEnd(EP, N) ==
  /\ Valued(EP, N) /\ EP.estimates["actionAdvantage"][N] = 0
  /\ EP.bReachedTermState => /\ EP.estimates["stateValue"][N] = 0
                             /\ EP.estimates["returnEstimator"][N] = 0

\* The returns that are put in backwards, each from the next one, are the sums of all that
\* follows, discounted and weighted, for any rewards, values, advantages and weights
\* (updateReturnEstimator with computeRetrace or computeGAE).
THEOREM ReturnsComputed ==
  ASSUME NEW EP, NEW N, ValuedToEnd(EP, N), NEW re, re # "none",
         EP.estimates = [f \in EstimateNames |-> EP.estimates[f]],
         EP = [f \in EpisodeFields |-> EP[f]]
  PROVE  ReturnsAreSums(computeReturnEstimator(EP, re), re)
<1> DEFINE R == updateReturnEstimator(EP, N - 1, re)
           EP1 == computeReturnEstimator(EP, re)
<1>1. Valued(EP, N) /\ N \in Nat \ {0} /\ Len(EP.states) = N
  BY DEF ValuedToEnd, Valued
<1>2. /\ R \in [1 .. N -> Int]
      /\ \A t \in 1 .. N - 1 : R[t] = createReturnEstimator(EP, re, t, R[t + 1])
      /\ R[N] = IF EP.bReachedTermState THEN EP.estimates["returnEstimator"][N]
                ELSE EP.estimates["stateValue"][N]
  BY <1>1, Updated
<1>3. /\ EP1.states = EP.states /\ EP1.rewards = EP.rewards
      /\ EP1.bReachedTermState = EP.bReachedTermState
      /\ EP1.estimates["returnEstimator"] = R
      /\ \A f \in EstimateNames \ {"returnEstimator"} : EP1.estimates[f] = EP.estimates[f]
  <2>1. EP1 = [EP EXCEPT !.estimates = [f \in EstimateNames |->
                  IF f # "returnEstimator" THEN EP.estimates[f] ELSE R]]
    <3>1. DOMAIN EP.estimates = EstimateNames
      BY Zenon
    <3> HIDE DEF R
    <3> QED BY <1>1, <3>1 DEF computeReturnEstimator, R
  <2> HIDE DEF EP1, R
  <2> QED BY <2>1 DEF EpisodeFields, EstimateNames
<1> HIDE DEF EP1, R
<1>4. /\ EP1.estimates["stateValue"] = EP.estimates["stateValue"]
      /\ EP1.estimates["actionAdvantage"] = EP.estimates["actionAdvantage"]
      /\ EP1.estimates["offPolicImpW"] = EP.estimates["offPolicImpW"]
  BY <1>3 DEF EstimateNames
<1>5. Valued(EP1, N)
  BY <1>1, <1>2, <1>3, <1>4 DEF Valued
<1>6. \A t \in 1 .. N - 1 :
         createReturnEstimator(EP1, re, t, R[t + 1]) = createReturnEstimator(EP, re, t, R[t + 1])
  BY <1>3, <1>4 DEF createReturnEstimator, computeGAE, computeRetrace, clippedOffPolW
<1>7. R[N] = AdvantagesOf(EP1, re)[N] + EP1.estimates["stateValue"][N]
  <2>1. N \in 1 .. N
    BY <1>1
  <2>2. AdvantagesOf(EP1, re)[N] = 0
    <3>1. Zeros(Len(EP1.states))[N] = 0
      BY <1>1, <1>3, <2>1 DEF Zeros
    <3> QED BY <1>4, <3>1 DEF AdvantagesOf, ValuedToEnd
  <2>3. EP.estimates["stateValue"][N] \in Int
    BY <1>1, <2>1, ValuedTypes
  <2>4. R[N] = EP.estimates["stateValue"][N]
    BY <1>2 DEF ValuedToEnd
  <2> DEFINE a == AdvantagesOf(EP1, re)[N]
             v == EP.estimates["stateValue"][N]
  <2>5. a = 0 /\ v \in Int /\ R[N] = v
    BY <2>2, <2>3, <2>4
  <2> HIDE DEF a, v
  <2>6. R[N] = a + v
    BY <2>5
  <2> QED BY <1>4, <2>6 DEF a, v
<1>8. Recurs(R, EP1, re, N)
  BY <1>2, <1>6, <1>7 DEF Recurs
<1>9. ASSUME NEW t \in 1 .. N - 1 PROVE R[t] = ReturnSum(EP1, re, t)
  <2>1. PICK P, Q : Weights(P, EP1, re, t, N - t) /\ Sums(Q, P, EP1, re, t, N - t)
    BY <1>5, SumsExist
  <2>2. R[t] = Q[N - t]
    BY <1>5, <1>8, <2>1, RecursionUnrolled
  <2>3. ReturnSum(EP1, re, t) = Q[N - t]
    BY <1>5, <2>1, ReturnSumIs
  <2> QED BY <2>2, <2>3
<1>10. Len(EP1.states) = N
  BY <1>1, <1>3
<1>11. ReturnsAreSums(EP1, re)
  BY <1>3, <1>9, <1>10 DEF ReturnsAreSums
<1> QED BY <1>11 DEF EP1

------------------------------------------------------------------------------
(* Agents that are played                                                  *)

Begun(agent) ==
  LET a == Agent(agent.localID, agent.MDP, agent.trackEpisodes) IN
  [app |-> a, told |-> a, agent |-> a, EP |-> Episode, done |-> <<>>]

\* What FoldLeft computes with, for the first n calls.
Plays(h, n, agent, learner, statuses) ==
  /\ h = [s \in SUBSET (1 .. n) |-> h[s]] /\ h[{}] = Begun(agent)
  /\ \A s \in SUBSET (1 .. n) :
       s # {} => h[s] = Step(h[s \ {Max(s)}], agent.MDP, learner, statuses[Max(s)], Max(s))

LEMMA PlaysExist ==
  ASSUME NEW agent, NEW learner, NEW statuses, NEW n \in Nat
  PROVE  \E h : Plays(h, n, agent, learner, statuses)
<1> DEFINE Part(h, m) == Plays(h, m, agent, learner, statuses)
           call(s, t) == Step(s, agent.MDP, learner, statuses[t], t)
           N == {m \in Nat : \E h : Part(h, m)}
<1>0. \A h, m : Part(h, m) <=>
         /\ h = [s \in SUBSET (1 .. m) |-> h[s]] /\ h[{}] = Begun(agent)
         /\ \A s \in SUBSET (1 .. m) : s # {} => h[s] = call(h[s \ {Max(s)}], Max(s))
  BY Zenon DEF Plays
<1> HIDE DEF Part, call
<1>1. 0 \in N
  <2>1. 1 .. 0 = {}
    OBVIOUS
  <2> DEFINE h == [s \in SUBSET (1 .. 0) |-> Begun(agent)]
  <2>2. h = [s \in SUBSET (1 .. 0) |-> h[s]] /\ h[{}] = Begun(agent)
    OBVIOUS
  <2> HIDE DEF h
  <2>3. Part(h, 0)
    BY <1>0, <2>1, <2>2
  <2> QED BY <2>3
<1>2. ASSUME NEW m \in N PROVE m + 1 \in N
  <2>1. m \in Nat
    OBVIOUS
  <2>2. PICK g : Part(g, m)
    OBVIOUS
  <2> DEFINE S == 1 .. m
             T == 1 .. m + 1
             h == [s \in SUBSET T |-> IF m + 1 \in s THEN call(g[s \ {m + 1}], m + 1) ELSE g[s]]
  <2>3. /\ \A s \in SUBSET T : m + 1 \in s => s \ {m + 1} \in SUBSET S
        /\ \A s \in SUBSET T : m + 1 \notin s => s \in SUBSET S
        /\ {} \in SUBSET T /\ m + 1 \notin {} /\ m + 1 \notin S
    <3>1. \A i \in T : i # m + 1 => i \in S
      BY <2>1
    <3>2. m + 1 \notin S
      BY <2>1
    <3> HIDE DEF T, S
    <3> QED BY <3>1, <3>2
  <2>4. g[{}] = Begun(agent)
        /\ \A s \in SUBSET S : s # {} => g[s] = call(g[s \ {Max(s)}], Max(s))
    BY <1>0, <2>2
  <2>5. \A s \in SUBSET T : s # {} => /\ Max(s) \in s
                                      /\ m + 1 \in s => Max(s) = m + 1
    <3> SUFFICES ASSUME NEW s \in SUBSET T, s # {}
                 PROVE  Max(s) \in s /\ (m + 1 \in s => Max(s) = m + 1)
      OBVIOUS
    <3>1. Max(s) \in s /\ \A x \in s : x <= Max(s)
      <4>1. m + 1 \in Nat /\ s \in SUBSET (1 .. m + 1)
        BY <2>1
      <4> HIDE DEF T
      <4> QED BY <4>1, GreatestIs
    <3>2. Max(s) \in T
      BY <3>1
    <3> QED BY <2>1, <3>1, <3>2
  <2> HIDE DEF S, T
  <2>7. h = [s \in SUBSET T |-> h[s]] /\ h[{}] = Begun(agent)
    BY <2>3, <2>4
  <2>8. ASSUME NEW s \in SUBSET T, s # {} PROVE h[s] = call(h[s \ {Max(s)}], Max(s))
    <3>1. s \ {Max(s)} \in SUBSET T
      OBVIOUS
    <3>2. CASE m + 1 \in s
      <4>1. Max(s) = m + 1 /\ m + 1 \notin s \ {m + 1}
        BY <2>5, <3>2
      <4>2. h[s \ {m + 1}] = g[s \ {m + 1}]
        BY <3>1, <4>1
      <4> QED BY <3>2, <4>1, <4>2
    <3>3. CASE m + 1 \notin s
      <4>1. s \in SUBSET S /\ m + 1 \notin s \ {Max(s)}
        BY <2>3, <3>3
      <4>2. h[s \ {Max(s)}] = g[s \ {Max(s)}] /\ h[s] = g[s]
        BY <3>1, <3>3, <4>1
      <4> QED BY <2>4, <2>8, <4>1, <4>2
    <3> QED BY <3>2, <3>3
  <2> HIDE DEF h
  <2>9. Part(h, m + 1)
    BY <1>0, <2>7, <2>8 DEF T
  <2> QED BY <2>1, <2>9
<1>3. N = Nat
  <2> HIDE DEF N
  <2>1. N \subseteq Nat
    BY DEF N
  <2> QED BY <1>1, <1>2, <2>1, UpFromZero
<1> QED BY <1>3 DEF Part

\* The calls one after the other.
Calls(c, n, agent, learner, statuses) ==
  /\ c[0] = Begun(agent)
  /\ \A k \in 1 .. n : c[k] = Step(c[k - 1], agent.MDP, learner, statuses[k], k)
  /\ Played(agent, learner, statuses) = c[n]

LEMMA PlayedIs ==
  ASSUME NEW agent, NEW learner, NEW n \in Nat, NEW statuses \in [1 .. n -> Int]
  PROVE  \E c : Calls(c, n, agent, learner, statuses)
<1> DEFINE S == DOMAIN statuses
           seq == [t \in S |-> t]
           call(s, t) == Step(s, agent.MDP, learner, statuses[t], t)
           Def(iter) == iter = [s \in SUBSET S |->
                          IF s = {} THEN Begun(agent)
                          ELSE call(iter[s \ {Max(s)}], seq[Max(s)])]
<1>1. Played(agent, learner, statuses) = (CHOOSE iter : Def(iter))[S]
  BY DEF Played, Begun, FoldLeft, MapThenFoldSet
<1>0. S = 1 .. n /\ \A t \in S : seq[t] = t
  OBVIOUS
<1>a. \A h : Plays(h, n, agent, learner, statuses) <=>
         /\ h = [s \in SUBSET S |-> h[s]] /\ h[{}] = Begun(agent)
         /\ \A s \in SUBSET S : s # {} => h[s] = call(h[s \ {Max(s)}], Max(s))
  BY <1>0 DEF Plays
<1> HIDE DEF call, seq, S
<1>2. PICK h : Plays(h, n, agent, learner, statuses)
  BY PlaysExist, Zenon
<1>3. Def(h)
  <2>1. h = [s \in SUBSET S |-> h[s]] /\ h[{}] = Begun(agent)
        /\ \A s \in SUBSET S : s # {} => h[s] = call(h[s \ {Max(s)}], Max(s))
    BY <1>a, <1>2
  <2>2. ASSUME NEW s \in SUBSET S, s # {} PROVE seq[Max(s)] = Max(s)
    <3>1. Max(s) \in s
      BY <1>0, <2>2, GreatestIs
    <3> QED BY <1>0, <3>1
  <2>3. \A s \in SUBSET S :
           h[s] = IF s = {} THEN Begun(agent) ELSE call(h[s \ {Max(s)}], seq[Max(s)])
    BY <2>1, <2>2
  <2> QED BY <2>1, <2>3
<1>4. PICK iter : iter = (CHOOSE i : Def(i)) /\ Def(iter)
  <2> HIDE DEF Def
  <2> QED BY <1>3, Zenon
<1>5. \A s \in SUBSET S :
         iter[s] = IF s = {} THEN Begun(agent) ELSE call(iter[s \ {Max(s)}], seq[Max(s)])
  BY <1>4
<1> HIDE DEF Def
<1> DEFINE c == [k \in 0 .. n |-> iter[1 .. k]]
<1>6. c[0] = Begun(agent)
  <2>1. 1 .. 0 = {} /\ {} \in SUBSET S /\ 0 \in 0 .. n
    OBVIOUS
  <2> QED BY <1>5, <2>1
<1>7. ASSUME NEW k \in 1 .. n PROVE c[k] = call(c[k - 1], k)
  <2>1. /\ 1 .. k \in SUBSET S /\ 1 .. k # {} /\ Max(1 .. k) = k
        /\ (1 .. k) \ {Max(1 .. k)} = 1 .. k - 1
    BY <1>0, LastOfFirst
  <2>2. k \in 0 .. n /\ k - 1 \in 0 .. n /\ seq[k] = k
    BY <1>0
  <2> DEFINE T == 1 .. k
             T0 == 1 .. k - 1
  <2>3. c[k] = iter[T] /\ c[k - 1] = iter[T0]
    BY <2>2
  <2>4. T \in SUBSET S /\ T # {} /\ Max(T) = k /\ T \ {Max(T)} = T0
    BY <2>1
  <2> HIDE DEF T, T0, c
  <2> QED BY <1>5, <2>2, <2>3, <2>4
<1>8. c[n] = iter[S]
  BY <1>0
<1> HIDE DEF c
<1>9. Calls(c, n, agent, learner, statuses)
  BY <1>1, <1>4, <1>6, <1>7, <1>8 DEF Calls, call
<1> QED BY <1>9

------------------------------------------------------------------------------
(* The agents                                                              *)

AgentRecord(mdp) ==
  [localID : Int, trackEpisodes : BOOLEAN, agentStatus : Int, timeStepInEpisode : Int,
   learnStatus : Int, learnerTimeStepID : Int, learnerGradStepID : Int,
   sOld : [1 .. mdp.dimState -> Int], state : [1 .. mdp.dimState -> Int],
   action : [1 .. mdp.dimAction -> Int], policyVector : Seq(Int), reward : Int,
   cumulativeRewards : Int, learnerAvgCumulativeReward : Int]

\* A message of four numbers and a vector.
Read(m, b, c, d, n, x) ==
  m[2] = b /\ m[3] = c /\ m[4] = d /\ SubSeq(m, 5, 4 + n) = x

LEMMA MessageRead ==
  ASSUME NEW a \in Int, NEW b \in Int, NEW c \in Int, NEW d \in Int,
         NEW n \in Nat, NEW x \in [1 .. n -> Int], NEW m, m = <<a, b, c, d>> \o x
  PROVE  Read(m, b, c, d, n, x)
<1>1. /\ <<a, b, c, d>> \in Seq(Int) /\ Len(<<a, b, c, d>>) = 4
      /\ x \in Seq(Int) /\ Len(x) = n
  OBVIOUS
<1> DEFINE h == <<a, b, c, d>>
<1>2. h[2] = b /\ h[3] = c /\ h[4] = d
  OBVIOUS
<1>3. Joins(m, h, x, 4, n)
  <2>1. m = h \o x
    OBVIOUS
  <2> HIDE DEF h
  <2>2. h \in Seq(Int) /\ Len(h) = 4
    BY <1>1 DEF h
  <2> QED BY <1>1, <2>1, <2>2, Appended
<1> HIDE DEF h
<1>4. m[2] = b /\ m[3] = c /\ m[4] = d
  BY <1>2, <1>3 DEF Joins
<1>5. SubSeq(m, 4 + 1, 4 + n) = x
  <2>1. m \in Seq(Int) /\ 4 + n <= Len(m) /\ \A i \in 1 .. n : m[4 + i] = x[i]
    BY <1>3 DEF Joins
  <2>2. 4 \in Nat
    OBVIOUS
  <2> QED BY <2>1, <2>2, CellsAre
<1> QED BY <1>4, <1>5 DEF Read

\* Problems with states and actions.
Playable(mdp) ==
  /\ HasStates(mdp) /\ mdp.dimAction \in Nat \ {0}

\* The master's agent is where the application's is, and lacks the last reward.
Level(app, agent, mdp) ==
  /\ app \in AgentRecord(mdp) /\ agent \in AgentRecord(mdp)
  /\ agent.state = app.state /\ agent.timeStepInEpisode = app.timeStepInEpisode
  /\ agent.cumulativeRewards + agent.reward = app.cumulativeRewards

\* The same agent but for what a step changes.
MovedAs(a, b, mdp, status, x, cum, time, r) ==
  /\ b \in AgentRecord(mdp) /\ b.agentStatus = status /\ b.sOld = a.state
  /\ b.state = x /\ b.reward = r /\ b.localID = a.localID
  /\ b.trackEpisodes = a.trackEpisodes
  /\ b.cumulativeRewards = cum /\ b.timeStepInEpisode = time

LEMMA MovedTo ==
  ASSUME NEW mdp, NEW a \in AgentRecord(mdp), NEW status \in Int, NEW x \in [1 .. mdp.dimState -> Int],
         NEW cum \in Int, NEW time \in Int, NEW r \in Int, NEW b,
         b = [a EXCEPT !.agentStatus = status, !.sOld = a.state, !.cumulativeRewards = cum,
                       !.timeStepInEpisode = time, !.state = x, !.reward = r]
  PROVE  MovedAs(a, b, mdp, status, x, cum, time, r)
BY DEF AgentRecord, MovedAs

LEMMA StateTyped ==
  ASSUME NEW mdp, Playable(mdp), NEW t \in Nat
  PROVE  StateOf(mdp, t) \in [1 .. mdp.dimState -> Int]
<1>1. \A j \in 1 .. mdp.dimState : 10 * t + j \in Int
  BY DEF Playable, HasStates
<1> QED BY <1>1 DEF StateOf

\* A state is sent.
SentAs(sent, told, agent, mdp, status, t) ==
  /\ Level(sent, told, mdp) /\ sent.agentStatus = status /\ told.agentStatus = status
  /\ told.state = StateOf(mdp, t) /\ told.reward = RewardOf(status, t)
  /\ sent.reward = RewardOf(status, t) /\ told.sOld = sent.sOld
  /\ told.localID = agent.localID /\ told.trackEpisodes = agent.trackEpisodes

LEMMA StateSent ==
  ASSUME NEW mdp, Playable(mdp), NEW app, NEW agent, Level(app, agent, mdp),
         NEW status \in 0 .. 3, NEW t \in Nat
  PROVE  LET sent == update(app, status, StateOf(mdp, t), RewardOf(status, t))
             told == unpackStateMsg(agent, packStateMsg(sent))
         IN SentAs(sent, told, agent, mdp, status, t)
<1> DEFINE x == StateOf(mdp, t)
           r == RewardOf(status, t)
           sent == update(app, status, x, r)
           told == unpackStateMsg(agent, packStateMsg(sent))
           n == mdp.dimState
<1>1. x \in [1 .. n -> Int] /\ n \in Nat /\ r \in Int /\ (status = INIT => r = 0)
      /\ status \in Int
  <2>1. r \in Int /\ (status = INIT => r = 0)
    BY DEF RewardOf, INIT
  <2> QED BY <2>1, StateTyped DEF Playable, HasStates
<1> HIDE DEF x, r
<1> USE DEF Level
<1>2. /\ sent = [app EXCEPT !.agentStatus = status, !.sOld = app.state,
                    !.cumulativeRewards = IF status = INIT THEN 0 ELSE @ + r,
                    !.timeStepInEpisode = IF status = INIT THEN 0 ELSE @ + 1,
                    !.state = x, !.reward = r]
  BY DEF update, Moved, AgentRecord
<1>3. /\ sent \in AgentRecord(mdp) /\ sent.agentStatus = status /\ sent.sOld = app.state
      /\ sent.state = x /\ sent.reward = r /\ sent.localID = app.localID
      /\ sent.cumulativeRewards = (IF status = INIT THEN 0 ELSE app.cumulativeRewards + r)
      /\ sent.timeStepInEpisode = (IF status = INIT THEN 0 ELSE app.timeStepInEpisode + 1)
  <2> DEFINE cum == IF status = INIT THEN 0 ELSE app.cumulativeRewards + r
             time == IF status = INIT THEN 0 ELSE app.timeStepInEpisode + 1
  <2>1. cum \in Int /\ time \in Int
    <3>1. app.cumulativeRewards \in Int /\ app.timeStepInEpisode \in Int /\ app.reward \in Int
      BY DEF AgentRecord
    <3> HIDE DEF n
    <3> QED BY <1>1, <3>1
  <2>2. sent = [app EXCEPT !.agentStatus = status, !.sOld = app.state, !.cumulativeRewards = cum,
                       !.timeStepInEpisode = time, !.state = x, !.reward = r]
    BY <1>2 DEF AgentRecord
  <2> HIDE DEF sent, cum, time
  <2>3. /\ sent \in AgentRecord(mdp) /\ sent.agentStatus = status /\ sent.sOld = app.state
        /\ sent.state = x /\ sent.reward = r /\ sent.localID = app.localID
        /\ sent.trackEpisodes = app.trackEpisodes
        /\ sent.cumulativeRewards = cum /\ sent.timeStepInEpisode = time
    <3>1. mdp.dimState = n /\ app \in AgentRecord(mdp)
      OBVIOUS
    <3> HIDE DEF n
    <3>2. x \in [1 .. mdp.dimState -> Int] /\ status \in Int /\ r \in Int
      BY <1>1, <3>1
    <3>3. MovedAs(app, sent, mdp, status, x, cum, time, r)
      BY <2>1, <2>2, <3>1, <3>2, MovedTo, Zenon
    <3> QED BY <3>3 DEF MovedAs
  <2> QED BY <2>3 DEF cum, time
<1> HIDE DEF sent
<1> DEFINE m == packStateMsg(sent)
<1>4. m[2] = status /\ m[4] = r /\ SubSeq(m, 5, 4 + n) = x
  <2>1. m = <<sent.localID, sent.agentStatus, sent.timeStepInEpisode, sent.reward>> \o x
    BY <1>3 DEF packStateMsg
  <2>2. sent.localID \in Int /\ sent.agentStatus \in Int /\ sent.timeStepInEpisode \in Int
        /\ sent.reward \in Int
    BY <1>3 DEF AgentRecord
  <2> DEFINE a == sent.localID
             b == sent.agentStatus
             c == sent.timeStepInEpisode
             d == sent.reward
  <2>3. m = <<a, b, c, d>> \o x /\ a \in Int /\ b \in Int /\ c \in Int /\ d \in Int
        /\ b = status /\ d = r
    BY <1>3, <2>1, <2>2
  <2> HIDE DEF m, a, b, c, d, n
  <2>4. m[2] = b /\ m[4] = d /\ SubSeq(m, 5, 4 + n) = x
    <3>1. x \in [1 .. n -> Int] /\ n \in Nat
      BY <1>1
    <3>2. Read(m, b, c, d, n, x)
      BY <2>3, <3>1, MessageRead, Zenon
    <3> QED BY <3>2 DEF Read
  <2> QED BY <2>3, <2>4
<1> HIDE DEF m
<1>5. Len(agent.state) = n
  <2>1. agent.state \in [1 .. n -> Int]
    BY DEF AgentRecord
  <2> DEFINE v == agent.state
  <2> HIDE DEF v
  <2>2. v \in [1 .. n -> Int]
    BY <2>1 DEF v
  <2>3. Len(v) = n
    BY <1>1, <2>2
  <2> QED BY <2>3 DEF v
<1>6. told = [agent EXCEPT !.agentStatus = status, !.sOld = agent.state,
                    !.cumulativeRewards = IF status = INIT THEN 0 ELSE @ + agent.reward,
                    !.timeStepInEpisode = IF status = INIT THEN 0 ELSE @ + 1,
                    !.reward = r, !.state = x]
  <2> HIDE DEF n
  <2>1. told = [Moved(agent, status, agent.reward) EXCEPT !.reward = r,
                    !.state = SubSeq(m, 5, 4 + Len(@))]
    BY <1>4 DEF unpackStateMsg, m
  <2>2. Moved(agent, status, agent.reward)
          = [agent EXCEPT !.agentStatus = status, !.sOld = agent.state,
                    !.cumulativeRewards = IF status = INIT THEN 0 ELSE @ + agent.reward,
                    !.timeStepInEpisode = IF status = INIT THEN 0 ELSE @ + 1]
    BY DEF Moved
  <2> HIDE DEF told
  <2> QED BY <1>4, <1>5, <2>1, <2>2 DEF AgentRecord
<1>7. /\ told \in AgentRecord(mdp) /\ told.agentStatus = status /\ told.sOld = agent.state
      /\ told.state = x /\ told.reward = r /\ told.localID = agent.localID
      /\ told.trackEpisodes = agent.trackEpisodes
      /\ told.cumulativeRewards = (IF status = INIT THEN 0 ELSE agent.cumulativeRewards + agent.reward)
      /\ told.timeStepInEpisode = (IF status = INIT THEN 0 ELSE agent.timeStepInEpisode + 1)
  <2> DEFINE cum == IF status = INIT THEN 0 ELSE agent.cumulativeRewards + agent.reward
             time == IF status = INIT THEN 0 ELSE agent.timeStepInEpisode + 1
  <2>1. cum \in Int /\ time \in Int
    <3>1. agent.cumulativeRewards \in Int /\ agent.timeStepInEpisode \in Int /\ agent.reward \in Int
      BY DEF AgentRecord
    <3> HIDE DEF n
    <3> QED BY <1>1, <3>1
  <2>2. told = [agent EXCEPT !.agentStatus = status, !.sOld = agent.state, !.cumulativeRewards = cum,
                       !.timeStepInEpisode = time, !.state = x, !.reward = r]
    <3> HIDE DEF told
    <3> QED BY <1>6 DEF AgentRecord
  <2> HIDE DEF told, cum, time
  <2>3. /\ told \in AgentRecord(mdp) /\ told.agentStatus = status /\ told.sOld = agent.state
        /\ told.state = x /\ told.reward = r /\ told.localID = agent.localID
        /\ told.trackEpisodes = agent.trackEpisodes
        /\ told.cumulativeRewards = cum /\ told.timeStepInEpisode = time
    <3>1. mdp.dimState = n /\ agent \in AgentRecord(mdp)
      OBVIOUS
    <3> HIDE DEF n
    <3>2. x \in [1 .. mdp.dimState -> Int] /\ status \in Int /\ r \in Int
      BY <1>1, <3>1
    <3>3. MovedAs(agent, told, mdp, status, x, cum, time, r)
      BY <2>1, <2>2, <3>1, <3>2, MovedTo, Zenon
    <3> QED BY <3>3 DEF MovedAs
  <2> QED BY <2>3 DEF cum, time
<1> HIDE DEF told
<1>8. told.cumulativeRewards + told.reward = sent.cumulativeRewards
  <2>1. agent.cumulativeRewards \in Int /\ agent.reward \in Int /\ app.cumulativeRewards \in Int
    BY DEF AgentRecord
  <2> QED BY <1>1, <1>3, <1>7, <2>1
<1>9. Level(sent, told, mdp)
  BY <1>3, <1>7, <1>8
<1> QED BY <1>3, <1>7, <1>9 DEF sent, told, x, r, m, SentAs

\* An agent of the master that is given an action, or a reward.
Given2(a, b, mdp) ==
  /\ b \in AgentRecord(mdp)
  /\ b.state = a.state /\ b.timeStepInEpisode = a.timeStepInEpisode /\ b.reward = a.reward
  /\ b.cumulativeRewards = a.cumulativeRewards /\ b.localID = a.localID
  /\ b.trackEpisodes = a.trackEpisodes

LEMMA ActionsTyped ==
  ASSUME NEW mdp, Playable(mdp), NEW p \in Nat, NEW t \in Nat
  PROVE  /\ ActionOf(mdp, t) \in [1 .. mdp.dimAction -> Int]
         /\ Zeros(mdp.dimAction) \in [1 .. mdp.dimAction -> Int]
         /\ PolicyOf(p, t) \in [1 .. p -> Int] /\ Zeros(p) \in [1 .. p -> Int]
         /\ PolicyOf(p, t) \in Seq(Int) /\ Zeros(p) \in Seq(Int)
         /\ Len(Zeros(mdp.dimAction)) = mdp.dimAction /\ Len(Zeros(p)) = p
<1> DEFINE dA == mdp.dimAction
<1>1. dA \in Nat
  BY DEF Playable
<1> HIDE DEF dA
<1>2. /\ \A j \in 1 .. dA : 10000 * t + j \in Int
      /\ \A j \in 1 .. p : 20000 * t + j \in Int
  BY <1>1
<1>3. ActionOf(mdp, t) \in [1 .. dA -> Int] /\ PolicyOf(p, t) \in [1 .. p -> Int]
      /\ Zeros(dA) \in [1 .. dA -> Int] /\ Zeros(p) \in [1 .. p -> Int]
  BY <1>2 DEF ActionOf, PolicyOf, Zeros, dA
<1> DEFINE a == Zeros(dA)
           b == PolicyOf(p, t)
           c == Zeros(p)
<1>4. a \in [1 .. dA -> Int] /\ b \in [1 .. p -> Int] /\ c \in [1 .. p -> Int]
  BY <1>3
<1> HIDE DEF a, b, c
<1>5. Len(a) = dA /\ b \in Seq(Int) /\ c \in Seq(Int) /\ Len(c) = p
  BY <1>1, <1>4
<1> QED BY <1>3, <1>5 DEF a, b, c, dA

LEMMA Selected ==
  ASSUME NEW mdp, Playable(mdp), NEW learner \in Learners, NEW EP, NEW a \in AgentRecord(mdp),
         NEW t \in Nat
  PROVE  LET b == select(EP, mdp, learner, a, t).agent IN
         /\ Given2(a, b, mdp)
         /\ b.agentStatus = IF a.trackEpisodes THEN a.agentStatus ELSE INIT
         /\ b.agentStatus >= LAST => b.action = Zeros(mdp.dimAction)
<1> DEFINE a1 == storeState(EP, mdp, a)[2]
           p == learner.policyVecDim
           b == select(EP, mdp, learner, a, t).agent
<1>1. p \in Nat
  BY DEF Learners
<1>2. a1 = IF a.trackEpisodes THEN a ELSE [a EXCEPT !.agentStatus = INIT]
  BY DEF storeState
<1>3. b = IF a1.agentStatus < LAST
          THEN [a1 EXCEPT !.action = ActionOf(mdp, t), !.policyVector = PolicyOf(p, t)]
          ELSE [a1 EXCEPT !.action = Zeros(mdp.dimAction), !.policyVector = Zeros(p)]
  BY DEF select
<1> HIDE DEF a1, p, b
<1>4. /\ a1 \in AgentRecord(mdp) /\ Given2(a, a1, mdp)
      /\ a1.agentStatus = IF a.trackEpisodes THEN a.agentStatus ELSE INIT
  <2>1. CASE a.trackEpisodes
    <3>1. a1 = a
      BY <1>2, <2>1
    <3> QED BY <2>1, <3>1 DEF AgentRecord, Given2
  <2>2. CASE ~a.trackEpisodes
    <3> DEFINE c == [a EXCEPT !.agentStatus = 0]
    <3>1. a1 = c
      BY <1>2, <2>2 DEF INIT
    <3>2. c \in AgentRecord(mdp) /\ c.agentStatus = 0
      <4>1. \A i \in Int : [a EXCEPT !.agentStatus = i] \in AgentRecord(mdp)
        BY DEF AgentRecord
      <4>2. c.agentStatus = 0
        BY DEF AgentRecord
      <4> QED BY <4>1, <4>2
    <3>3. Given2(a, c, mdp)
      BY <3>2 DEF Given2, AgentRecord
    <3> HIDE DEF c
    <3> QED BY <2>2, <3>1, <3>2, <3>3 DEF INIT
  <2> QED BY <2>1, <2>2
<1>5. /\ ActionOf(mdp, t) \in [1 .. mdp.dimAction -> Int]
      /\ Zeros(mdp.dimAction) \in [1 .. mdp.dimAction -> Int]
      /\ PolicyOf(p, t) \in Seq(Int) /\ Zeros(p) \in Seq(Int)
  BY <1>1, ActionsTyped
<1>6. Given2(a1, b, mdp) /\ b.agentStatus = a1.agentStatus
      /\ (b.agentStatus >= LAST => b.action = Zeros(mdp.dimAction))
  <2>1. a1.agentStatus \in Int /\ LAST \in Int
    BY <1>4 DEF AgentRecord, LAST
  <2> DEFINE A == ActionOf(mdp, t)
             P == PolicyOf(p, t)
             A0 == Zeros(mdp.dimAction)
             P0 == Zeros(p)
  <2>4. A \in [1 .. mdp.dimAction -> Int] /\ P \in Seq(Int)
        /\ A0 \in [1 .. mdp.dimAction -> Int] /\ P0 \in Seq(Int)
    BY <1>5
  <2>2. CASE a1.agentStatus < LAST
    <3>1. b = [a1 EXCEPT !.action = A, !.policyVector = P]
      BY <1>3, <2>2
    <3> HIDE DEF A, P, A0, P0
    <3>2. Given2(a1, b, mdp) /\ b.agentStatus = a1.agentStatus
      BY <1>4, <2>4, <3>1 DEF AgentRecord, Given2
    <3> QED BY <2>1, <2>2, <3>2
  <2>3. CASE ~(a1.agentStatus < LAST)
    <3>1. b = [a1 EXCEPT !.action = A0, !.policyVector = P0]
      BY <1>3, <2>3
    <3> HIDE DEF A, P, A0, P0
    <3>2. Given2(a1, b, mdp) /\ b.agentStatus = a1.agentStatus /\ b.action = A0
      BY <1>4, <2>4, <3>1 DEF AgentRecord, Given2
    <3> QED BY <3>2 DEF A0
  <2> QED BY <2>2, <2>3
<1>7. Given2(a, b, mdp)
  BY <1>4, <1>6 DEF Given2
<1> QED BY <1>4, <1>6, <1>7 DEF b

LEMMA Answered ==
  ASSUME NEW mdp, Playable(mdp), NEW a \in AgentRecord(mdp), NEW t \in Nat,
         a.agentStatus >= LAST => a.action = Zeros(mdp.dimAction)
  PROVE  LET b == answerStateAction(a, t) IN
         /\ Given2(a, b, mdp)
         /\ a.agentStatus >= LAST => b.action[1] = AvgCumulativeReward(t)
<1> DEFINE b == answerStateAction(a, t)
           z == Zeros(mdp.dimAction)
           x == <<AvgCumulativeReward(t)>> \o Tail(z)
<1>1. mdp.dimAction \in Nat \ {0} /\ z \in [1 .. mdp.dimAction -> Int]
  BY ActionsTyped DEF Playable
<1>2. x \in [1 .. mdp.dimAction -> Int] /\ x[1] = AvgCumulativeReward(t)
  <2> DEFINE n == mdp.dimAction
             y == Tail(z)
             v == AvgCumulativeReward(t)
  <2>1. n \in Nat \ {0} /\ z \in [1 .. n -> Int]
    BY <1>1
  <2> HIDE DEF n, z
  <2>2. z \in Seq(Int) /\ Len(z) = n
    BY <2>1
  <2>3. y \in Seq(Int) /\ Len(y) = n - 1 /\ v \in Int
    BY <2>1, <2>2 DEF AvgCumulativeReward
  <2> HIDE DEF y, v
  <2> DEFINE w == <<v>> \o y
  <2>4. w \in Seq(Int) /\ Len(w) = n /\ w[1] = v
    BY <2>1, <2>3
  <2> HIDE DEF w
  <2>5. w \in [1 .. n -> Int] /\ w[1] = v
    BY <2>1, <2>4
  <2> QED BY <2>5 DEF w, n, v, y
<1>3. b = [a EXCEPT !.learnerTimeStepID = t, !.learnerGradStepID = t + 1,
                    !.action = IF a.agentStatus >= LAST THEN <<AvgCumulativeReward(t)>> \o Tail(@)
                               ELSE @]
  BY DEF answerStateAction
<1> HIDE DEF b
<1>4. b = [a EXCEPT !.learnerTimeStepID = t, !.learnerGradStepID = t + 1,
                    !.action = IF a.agentStatus >= LAST THEN x ELSE @]
  BY <1>3 DEF AgentRecord
<1> HIDE DEF x
<1>5. CASE a.agentStatus >= LAST
  <2>1. b = [a EXCEPT !.learnerTimeStepID = t, !.learnerGradStepID = t + 1, !.action = x]
    BY <1>4, <1>5 DEF AgentRecord
  <2>2. t \in Int /\ t + 1 \in Int
    OBVIOUS
  <2>3. Given2(a, b, mdp) /\ b.action = x
    BY <1>2, <2>1, <2>2 DEF AgentRecord, Given2
  <2> QED BY <1>2, <2>3 DEF b
<1>6. CASE ~(a.agentStatus >= LAST)
  <2> DEFINE y == a.action
  <2>1. b = [a EXCEPT !.learnerTimeStepID = t, !.learnerGradStepID = t + 1, !.action = y]
    BY <1>4, <1>6 DEF AgentRecord
  <2>2. t \in Int /\ t + 1 \in Int /\ y \in [1 .. mdp.dimAction -> Int]
    BY DEF AgentRecord
  <2> HIDE DEF y
  <2>3. Given2(a, b, mdp)
    BY <2>1, <2>2 DEF AgentRecord, Given2
  <2> QED BY <1>6, <2>3 DEF b
<1> QED BY <1>5, <1>6

LEMMA ActionSent ==
  ASSUME NEW mdp, Playable(mdp), NEW sent \in AgentRecord(mdp), NEW agent \in AgentRecord(mdp)
  PROVE  LET app == unpackActionMsg(sent, packActionMsg(agent)) IN
         /\ app \in AgentRecord(mdp)
         /\ \A f \in {"action", "learnStatus", "learnerTimeStepID", "learnerGradStepID"} :
              app[f] = agent[f]
         /\ \A f \in {"state", "sOld", "agentStatus", "timeStepInEpisode", "reward",
                      "cumulativeRewards", "localID", "trackEpisodes"} : app[f] = sent[f]
<1> DEFINE app == unpackActionMsg(sent, packActionMsg(agent))
           m == packActionMsg(agent)
           n == mdp.dimAction
<1>1. n \in Nat /\ agent.action \in [1 .. n -> Int] /\ sent.action \in [1 .. n -> Int]
      /\ agent.localID \in Int /\ agent.learnStatus \in Int /\ agent.learnerTimeStepID \in Int
      /\ agent.learnerGradStepID \in Int
  BY DEF Playable, AgentRecord
<1>2. m[2] = agent.learnStatus /\ m[3] = agent.learnerTimeStepID /\ m[4] = agent.learnerGradStepID
      /\ SubSeq(m, 5, 4 + n) = agent.action
  <2>1. m = <<agent.localID, agent.learnStatus, agent.learnerTimeStepID, agent.learnerGradStepID>>
            \o agent.action
    BY DEF packActionMsg
  <2> HIDE DEF m, n
  <2>2. Read(m, agent.learnStatus, agent.learnerTimeStepID, agent.learnerGradStepID, n,
             agent.action)
    BY <1>1, <2>1, MessageRead, Zenon
  <2> QED BY <2>2 DEF Read
<1>3. Len(sent.action) = n
  <2> DEFINE v == sent.action
  <2> HIDE DEF v
  <2>1. v \in [1 .. n -> Int]
    BY <1>1 DEF v
  <2>2. Len(v) = n
    BY <1>1, <2>1
  <2> QED BY <2>2 DEF v
<1>4. app = [sent EXCEPT !.learnStatus = m[2], !.learnerTimeStepID = m[3],
            !.learnerGradStepID = m[4], !.action = SubSeq(m, 5, 4 + Len(@))]
  BY DEF unpackActionMsg
<1> HIDE DEF app, m, n
<1>5. app = [sent EXCEPT !.learnStatus = agent.learnStatus,
                         !.learnerTimeStepID = agent.learnerTimeStepID,
                         !.learnerGradStepID = agent.learnerGradStepID, !.action = agent.action]
  BY <1>2, <1>3, <1>4 DEF AgentRecord
<1> QED BY <1>1, <1>5 DEF AgentRecord, app, m, n

------------------------------------------------------------------------------
(* An episode that is being played                                         *)

\* The vector x is v with one element more.
OneMoreOf(x, v, N, e, V) ==
  /\ x \in [1 .. N + 1 -> V] /\ x[N + 1] = e /\ \A i \in 1 .. N : x[i] = v[i]

LEMMA AppendOne ==
  ASSUME NEW V, NEW N \in Nat, NEW v \in [1 .. N -> V], NEW e \in V
  PROVE  OneMoreOf(Append(v, e), v, N, e, V)
<1>1. v \in Seq(V) /\ Len(v) = N
  OBVIOUS
<1> DEFINE x == Append(v, e)
<1>2. x \in Seq(V) /\ Len(x) = N + 1 /\ x[N + 1] = e /\ \A i \in 1 .. N : x[i] = v[i]
  BY <1>1
<1> HIDE DEF x
<1>3. x \in [1 .. N + 1 -> V]
  BY <1>2
<1> QED BY <1>2, <1>3 DEF OneMoreOf, x

\* What the application gave: the step t is its call first + t.
AsPlayed(EP, mdp, first, N) ==
  \A t \in 1 .. N :
    /\ EP.states[t] = state2observed(mdp, StateOf(mdp, first + t))
    /\ EP.latent_states[t] = state2nonObserved(mdp, StateOf(mdp, first + t))
    /\ EP.rewards[t] = RewardOf(IF t = 1 THEN INIT ELSE CONT, first + t)

Criticized(learner, f) == learner.critic /\ f \in {"stateValue", "actionAdvantage"}

\* Numbers of an episode, which do not depend on its steps.
Numbered(EP) ==
  /\ EP = [f \in EpisodeFields |-> EP[f]]
  /\ EP.bReachedTermState \in BOOLEAN /\ EP.ID \in Int /\ EP.just_sampled \in Int
  /\ EP.agentID \in Int

\* Its states and rewards.
Given3(EP, mdp, first, N) ==
  /\ EP.states \in Table(N, dimStateObserved(mdp))
  /\ EP.latent_states \in Table(N, mdp.dimState - dimStateObserved(mdp))
  /\ EP.rewards \in [1 .. N -> Int] /\ EP.totR = FoldUp(EP.rewards, N)
  /\ AsPlayed(EP, mdp, first, N)

Acted(EP, mdp, learner, N) ==
  /\ EP.actions \in Table(N, mdp.dimAction) /\ EP.policies \in Table(N, learner.policyVecDim)

Estimated(EP, learner, N) ==
  /\ EP.estimates = [f \in EstimateNames |-> EP.estimates[f]]
  /\ \A f \in EstimateNames :
       EP.estimates[f] \in [1 .. (IF Criticized(learner, f) THEN N ELSE 0) -> Int]

Building(EP, mdp, learner, first, N) ==
  /\ N \in Nat /\ first \in Nat
  /\ Numbered(EP) /\ Given3(EP, mdp, first, N) /\ Acted(EP, mdp, learner, N)
  /\ Estimated(EP, learner, N)

LEMMA EpisodeBegins ==
  ASSUME NEW mdp, NEW learner, NEW first \in Nat
  PROVE  Building(Episode, mdp, learner, first, 0)
<1> DEFINE E == Episode
<1>1. /\ E.states = <<>> /\ E.latent_states = <<>> /\ E.actions = <<>> /\ E.policies = <<>>
      /\ E.rewards = <<>> /\ E.totR = 0 /\ E.bReachedTermState = FALSE
      /\ E.ID = -1 /\ E.just_sampled = -1 /\ E.agentID = -1
  BY DEF Episode
<1>2. E.estimates = [f \in EstimateNames |-> <<>>]
  BY EstimatesAre DEF Episode
<1>3. E = [f \in EpisodeFields |-> E[f]]
  BY DEF Episode, EpisodeFields
<1> HIDE DEF E
<1>4. \A V : <<>> \in [1 .. 0 -> V]
  OBVIOUS
<1>5. FoldUp(E.rewards, 0) = 0
  <2>1. \A i \in 1 .. 0 : E.rewards[i] \in Int
    OBVIOUS
  <2> DEFINE f == [i \in 1 .. 1 |-> 0]
  <2>2. \A i \in 1 .. 0 + 1 : f[i] \in Int
    OBVIOUS
  <2>3. \A i \in 1 .. 0 : E.rewards[i] = f[i]
    OBVIOUS
  <2> HIDE DEF f
  <2>4. FoldUp(f, 0) = 0
    BY <2>2, FoldStep
  <2> QED BY <2>3, <2>4, FoldAgree
<1>6. Numbered(E)
  <2>1. -1 \in Int /\ FALSE \in BOOLEAN
    OBVIOUS
  <2> QED BY <1>1, <1>3, <2>1, Zenon DEF Numbered
<1>7. Given3(E, mdp, first, 0)
  BY <1>1, <1>4, <1>5 DEF Given3, Table, AsPlayed
<1>8. Acted(E, mdp, learner, 0)
  BY <1>1, <1>4 DEF Acted, Table
<1>9. Estimated(E, learner, 0)
  <2>1. \A f \in EstimateNames : E.estimates[f] = <<>>
    BY <1>2
  <2>2. E.estimates = [f \in EstimateNames |-> E.estimates[f]]
    BY <1>2
  <2>3. \A f \in EstimateNames : (IF Criticized(learner, f) THEN 0 ELSE 0) = 0
    OBVIOUS
  <2> QED BY <1>4, <2>1, <2>2, <2>3 DEF Estimated
<1> QED BY <1>6, <1>7, <1>8, <1>9 DEF Building, E

\* The fields of an episode with a state more.
LEMMA StateStored ==
  ASSUME NEW mdp, NEW learner, NEW EP, NEW first, NEW N, Building(EP, mdp, learner, first, N),
         NEW a \in AgentRecord(mdp), a.trackEpisodes, a.agentStatus = INIT => N = 0
  PROVE  LET E == storeState(EP, mdp, a)[1] IN
         /\ Numbered(E) /\ E.bReachedTermState = (a.agentStatus = TERM)
         /\ E.states = Append(EP.states, state2observed(mdp, a.state))
         /\ E.latent_states = Append(EP.latent_states, state2nonObserved(mdp, a.state))
         /\ E.rewards = Append(EP.rewards, a.reward)
         /\ E.totR = IF a.agentStatus = INIT THEN EP.totR ELSE EP.totR + a.reward
         /\ E.actions = EP.actions /\ E.policies = EP.policies /\ E.estimates = EP.estimates
<1> DEFINE E == storeState(EP, mdp, a)[1]
           o == state2observed(mdp, a.state)
           l == state2nonObserved(mdp, a.state)
<1>1. E = [EP EXCEPT !.agentID = IF a.agentStatus = INIT THEN a.localID ELSE @,
                    !.latent_states = Append(@, l),
                    !.bReachedTermState = a.agentStatus = TERM,
                    !.states = Append(@, o),
                    !.rewards = Append(@, a.reward),
                    !.totR = IF a.agentStatus = INIT THEN @ ELSE @ + a.reward]
  BY DEF storeState
<1>2. Numbered(EP) /\ a.localID \in Int
  BY DEF Building, AgentRecord
<1>3. DOMAIN EP = EpisodeFields
  BY <1>2, Zenon DEF Numbered
<1> DEFINE id == IF a.agentStatus = INIT THEN a.localID ELSE EP.agentID
           L == Append(EP.latent_states, l)
           B == a.agentStatus = TERM
           S == Append(EP.states, o)
           R == Append(EP.rewards, a.reward)
           T == IF a.agentStatus = INIT THEN EP.totR ELSE EP.totR + a.reward
<1>4. E = [EP EXCEPT !.agentID = id, !.latent_states = L, !.bReachedTermState = B,
                     !.states = S, !.rewards = R, !.totR = T]
  BY <1>1, <1>3, Zenon DEF EpisodeFields
<1>5. id \in Int /\ B \in BOOLEAN
  BY <1>2 DEF Numbered
<1> HIDE DEF E, id, L, B, S, R, T
<1>6. /\ E = [f \in EpisodeFields |-> E[f]]
      /\ E.agentID = id /\ E.latent_states = L /\ E.states = S
      /\ E.rewards = R /\ E.totR = T /\ E.actions = EP.actions /\ E.policies = EP.policies
      /\ E.estimates = EP.estimates /\ E.ID = EP.ID /\ E.just_sampled = EP.just_sampled
  BY <1>2, <1>4 DEF EpisodeFields, Numbered
<1>7. E.bReachedTermState = B
  BY <1>3, <1>4, Zenon DEF EpisodeFields
<1>8. Numbered(E)
  BY <1>2, <1>5, <1>6, <1>7 DEF Numbered
<1> QED BY <1>6, <1>7, <1>8 DEF E, L, B, S, R, T

\* A state and its reward are those of the next call.
NextCall(a, mdp, first, N) ==
  /\ a \in AgentRecord(mdp) /\ a.trackEpisodes /\ a.agentStatus \in 0 .. 3
  /\ (a.agentStatus = INIT) <=> (N = 0)
  /\ a.state = StateOf(mdp, first + N + 1)
  /\ a.reward = RewardOf(a.agentStatus, first + N + 1)

LEMMA StateGiven ==
  ASSUME NEW mdp, Playable(mdp), NEW learner, NEW EP, NEW first, NEW N,
         Building(EP, mdp, learner, first, N), NEW a, NextCall(a, mdp, first, N)
  PROVE  Given3(storeState(EP, mdp, a)[1], mdp, first, N + 1)
<1> DEFINE E == storeState(EP, mdp, a)[1]
           t == first + N + 1
           x == StateOf(mdp, t)
           o == state2observed(mdp, x)
           l == state2nonObserved(mdp, x)
           r == a.reward
           dS == dimStateObserved(mdp)
           dL == mdp.dimState - dS
           O == [1 .. dS -> Int]
           H == [1 .. dL -> Int]
<1>1. /\ E.states = Append(EP.states, o) /\ E.latent_states = Append(EP.latent_states, l)
      /\ E.rewards = Append(EP.rewards, r)
      /\ E.totR = IF a.agentStatus = INIT THEN EP.totR ELSE EP.totR + r
  BY StateStored DEF NextCall
<1>2. N \in Nat /\ first \in Nat /\ t \in Nat /\ N + 1 \in Nat
  BY DEF Building
<1>3. x \in [1 .. mdp.dimState -> Int]
  BY <1>2, StateTyped
<1>4. o \in O /\ l \in H
  <2> HIDE DEF x
  <2> QED BY <1>3, PartsOfState DEF Playable
<1>5. r \in Int /\ r = RewardOf(IF N + 1 = 1 THEN INIT ELSE CONT, t)
      /\ (a.agentStatus = INIT => r = 0 /\ N = 0)
  <2>1. r = RewardOf(a.agentStatus, t) /\ (a.agentStatus = INIT <=> N = 0)
    BY DEF NextCall
  <2> HIDE DEF r, t
  <2> QED BY <1>2, <2>1 DEF RewardOf, INIT, CONT
<1>6. /\ EP.states \in [1 .. N -> O] /\ EP.latent_states \in [1 .. N -> H]
      /\ EP.rewards \in [1 .. N -> Int] /\ EP.totR = FoldUp(EP.rewards, N)
      /\ AsPlayed(EP, mdp, first, N)
  BY DEF Building, Given3, Table
<1> HIDE DEF E, o, l, r, O, H
<1>7. /\ OneMoreOf(E.states, EP.states, N, o, O)
      /\ OneMoreOf(E.latent_states, EP.latent_states, N, l, H)
      /\ OneMoreOf(E.rewards, EP.rewards, N, r, Int)
  BY <1>1, <1>2, <1>4, <1>5, <1>6, AppendOne
<1>8. E.totR = FoldUp(E.rewards, N + 1)
  <2>1. \A i \in 1 .. N + 1 : E.rewards[i] \in Int
    BY <1>7 DEF OneMoreOf
  <2>2. FoldUp(E.rewards, N + 1) = FoldUp(E.rewards, N) + E.rewards[N + 1]
        /\ FoldUp(E.rewards, N) \in Int /\ FoldUp(E.rewards, 0) = 0
    BY <1>2, <2>1, FoldStep
  <2>3. FoldUp(E.rewards, N) = FoldUp(EP.rewards, N) /\ E.rewards[N + 1] = r
    BY <1>2, <1>7, FoldAgree DEF OneMoreOf
  <2>4. CASE a.agentStatus = INIT
    BY <1>1, <1>5, <1>6, <2>2, <2>3, <2>4
  <2>5. CASE a.agentStatus # INIT
    BY <1>1, <1>5, <1>6, <2>2, <2>3, <2>5
  <2> QED BY <2>4, <2>5
<1>9. ASSUME NEW i \in 1 .. N + 1
      PROVE  /\ E.states[i] = state2observed(mdp, StateOf(mdp, first + i))
             /\ E.latent_states[i] = state2nonObserved(mdp, StateOf(mdp, first + i))
             /\ E.rewards[i] = RewardOf(IF i = 1 THEN INIT ELSE CONT, first + i)
  <2>1. CASE i \in 1 .. N
    BY <1>6, <1>7, <2>1 DEF OneMoreOf, AsPlayed
  <2>2. CASE i = N + 1
    <3>1. first + i = t
      BY <1>2, <2>2
    <3> HIDE DEF t
    <3> QED BY <1>5, <1>7, <2>2, <3>1 DEF OneMoreOf, o, l, x
  <2> QED BY <1>2, <2>1, <2>2
<1>10. AsPlayed(E, mdp, first, N + 1)
  BY <1>9 DEF AsPlayed
<1>11. E.states \in Table(N + 1, dS) /\ E.latent_states \in Table(N + 1, dL)
       /\ E.rewards \in [1 .. N + 1 -> Int]
  BY <1>7 DEF OneMoreOf, Table, O, H
<1> QED BY <1>8, <1>10, <1>11 DEF Given3, E

\* The values of a critic: that of a last state is 0 if it was terminated, and the action
\* that is not taken there has none of its own.
LEMMA ValuesAppended ==
  ASSUME NEW EP, NEW learner \in Learners, NEW N \in Nat, Numbered(EP),
         Estimated(EP, learner, N), NEW V \in Int, NEW Q \in Int
  PROVE  LET E == IF ~learner.critic THEN EP ELSE appendValues(EP, V, Q) IN
         /\ Numbered(E) /\ Estimated(E, learner, N + 1)
         /\ \A f \in EpisodeFields \ {"estimates"} : E[f] = EP[f]
         /\ learner.critic => /\ E.estimates["stateValue"][N + 1] = V
                              /\ E.estimates["actionAdvantage"][N + 1] = Q - V
<1> DEFINE E == IF ~learner.critic THEN EP ELSE appendValues(EP, V, Q)
<1>1. CASE ~learner.critic
  <2>1. E = EP
    BY <1>1
  <2>2. \A f \in EstimateNames, n \in Nat : (IF Criticized(learner, f) THEN n ELSE 0) = 0
    BY <1>1 DEF Criticized
  <2>3. Estimated(EP, learner, N + 1)
    <3>1. N + 1 \in Nat
      OBVIOUS
    <3> QED BY <2>2, <3>1 DEF Estimated
  <2> QED BY <1>1, <2>1, <2>3
<1>2. CASE learner.critic
  <2> DEFINE W == [f \in EstimateNames |->
                     CASE f = "stateValue"      -> Append(EP.estimates[f], V)
                       [] f = "actionAdvantage" -> Append(EP.estimates[f], Q - V)
                       [] OTHER                 -> EP.estimates[f]]
  <2>1. DOMAIN EP.estimates = EstimateNames
    BY Zenon DEF Estimated
  <2>2. E = [EP EXCEPT !.estimates = W]
    BY <1>2, <2>1 DEF appendValues
  <2>3. \A f \in EstimateNames : Criticized(learner, f) <=> f \in {"stateValue", "actionAdvantage"}
    BY <1>2 DEF Criticized
  <2>4. ASSUME NEW f \in EstimateNames
        PROVE  /\ W[f] \in [1 .. (IF Criticized(learner, f) THEN N + 1 ELSE 0) -> Int]
               /\ f = "stateValue" => W[f][N + 1] = V
               /\ f = "actionAdvantage" => W[f][N + 1] = Q - V
    <3>1. CASE f = "stateValue"
      <4>1. W[f] = Append(EP.estimates[f], V) /\ EP.estimates[f] \in [1 .. N -> Int]
        BY <2>3, <3>1 DEF Estimated
      <4>2. OneMoreOf(W[f], EP.estimates[f], N, V, Int)
        <5> HIDE DEF W
        <5> QED BY <4>1, AppendOne
      <4> HIDE DEF W
      <4> QED BY <2>3, <3>1, <4>2 DEF OneMoreOf
    <3>2. CASE f = "actionAdvantage"
      <4> DEFINE d == Q - V
      <4>1. W[f] = Append(EP.estimates[f], d) /\ EP.estimates[f] \in [1 .. N -> Int] /\ d \in Int
        BY <2>3, <3>2 DEF Estimated
      <4>2. OneMoreOf(W[f], EP.estimates[f], N, d, Int)
        <5> HIDE DEF W, d
        <5> QED BY <4>1, AppendOne
      <4> HIDE DEF W
      <4> QED BY <2>3, <3>2, <4>2 DEF OneMoreOf
    <3>3. CASE f # "stateValue" /\ f # "actionAdvantage"
      <4>1. W[f] = EP.estimates[f] /\ EP.estimates[f] \in [1 .. 0 -> Int]
        BY <2>3, <3>3 DEF Estimated
      <4> HIDE DEF W
      <4> QED BY <2>3, <3>3, <4>1
    <3> QED BY <3>1, <3>2, <3>3
  <2>a. W = [f \in EstimateNames |-> W[f]]
    OBVIOUS
  <2> HIDE DEF E, W
  <2>5. E.estimates = W /\ (\A f \in EpisodeFields \ {"estimates"} : E[f] = EP[f])
        /\ E = [f \in EpisodeFields |-> E[f]]
    BY <2>2 DEF Numbered, EpisodeFields
  <2>6. Numbered(E)
    <3>1. /\ E.bReachedTermState = EP.bReachedTermState /\ E.ID = EP.ID
          /\ E.just_sampled = EP.just_sampled /\ E.agentID = EP.agentID
      BY <2>5 DEF EpisodeFields
    <3> QED BY <2>5, <3>1, Zenon DEF Numbered
  <2>7. Estimated(E, learner, N + 1)
    BY <2>4, <2>5, <2>a DEF Estimated
  <2>8. E.estimates["stateValue"][N + 1] = V /\ E.estimates["actionAdvantage"][N + 1] = Q - V
    BY <2>4, <2>5 DEF EstimateNames
  <2> QED BY <2>5, <2>6, <2>7, <2>8 DEF E
<1> QED BY <1>1, <1>2

\* An episode that is finished, with the estimates that returns are made of: ID is the call
\* that ended it.
Ready(EP, mdp, policyVecDim, N) ==
  /\ Finished(EP, mdp, policyVecDim, N) /\ ValuedToEnd(EP, N)
  /\ EP.ID - N \in Nat /\ AsPlayed(EP, mdp, EP.ID - N, N)

\* The last action of an episode is made of zeros.
LEMMA LastAction ==
  ASSUME NEW mdp, Playable(mdp), NEW learner \in Learners, NEW EP, NEW N \in Nat, Numbered(EP),
         Acted(EP, mdp, learner, N),
         NEW a, a.action = Zeros(mdp.dimAction), a.policyVector = Zeros(learner.policyVecDim)
  PROVE  LET E == terminateCurrentEpisode(EP, a) IN
         /\ Numbered(E) /\ Acted(E, mdp, learner, N + 1)
         /\ \A f \in EpisodeFields \ {"actions", "policies"} : E[f] = EP[f]
<1> DEFINE E == terminateCurrentEpisode(EP, a)
           p == learner.policyVecDim
           dA == mdp.dimAction
           zA == Zeros(dA)
           zP == Zeros(p)
           A == Append(EP.actions, zA)
           P == Append(EP.policies, zP)
           VA == [1 .. dA -> Int]
           VP == [1 .. p -> Int]
<1>1. p \in Nat
  BY DEF Learners
<1>2. zA \in VA /\ zP \in VP /\ Len(zA) = dA /\ Len(zP) = p
  BY <1>1, ActionsTyped
<1>3. E = [EP EXCEPT !.actions = A, !.policies = P]
  <2>1. E = [EP EXCEPT !.actions = Append(@, Zeros(Len(zA))), !.policies = Append(@, Zeros(Len(zP)))]
    BY DEF terminateCurrentEpisode
  <2>2. DOMAIN EP = EpisodeFields
    BY Zenon DEF Numbered
  <2> HIDE DEF E
  <2> QED BY <1>2, <2>1, <2>2 DEF EpisodeFields
<1>4. EP.actions \in [1 .. N -> VA] /\ EP.policies \in [1 .. N -> VP]
  BY DEF Acted, Table
<1> HIDE DEF E, zA, zP, VA, VP
<1>5. OneMoreOf(A, EP.actions, N, zA, VA) /\ OneMoreOf(P, EP.policies, N, zP, VP)
  BY <1>2, <1>4, AppendOne
<1> HIDE DEF A, P
<1>6. /\ E = [f \in EpisodeFields |-> E[f]] /\ E.actions = A /\ E.policies = P
      /\ \A f \in EpisodeFields \ {"actions", "policies"} : E[f] = EP[f]
  BY <1>3 DEF Numbered, EpisodeFields
<1>7. Numbered(E)
  <2>1. /\ E.bReachedTermState = EP.bReachedTermState /\ E.ID = EP.ID
        /\ E.just_sampled = EP.just_sampled /\ E.agentID = EP.agentID
    BY <1>6 DEF EpisodeFields
  <2> QED BY <1>6, <2>1, Zenon DEF Numbered
<1>8. Acted(E, mdp, learner, N + 1)
  BY <1>5, <1>6 DEF Acted, Table, OneMoreOf, VA, VP
<1> QED BY <1>6, <1>7, <1>8 DEF E

LEMMA ActionStored ==
  ASSUME NEW mdp, Playable(mdp), NEW learner \in Learners, NEW EP, NEW N \in Nat, Numbered(EP),
         Acted(EP, mdp, learner, N), NEW t \in Nat,
         NEW a, a.trackEpisodes, a.action = ActionOf(mdp, t),
         a.policyVector = PolicyOf(learner.policyVecDim, t)
  PROVE  LET E == storeAction(EP, a) IN
         /\ Numbered(E) /\ Acted(E, mdp, learner, N + 1)
         /\ \A f \in EpisodeFields \ {"actions", "policies"} : E[f] = EP[f]
<1> DEFINE E == storeAction(EP, a)
           p == learner.policyVecDim
           dA == mdp.dimAction
           zA == ActionOf(mdp, t)
           zP == PolicyOf(p, t)
           A == Append(EP.actions, zA)
           P == Append(EP.policies, zP)
           VA == [1 .. dA -> Int]
           VP == [1 .. p -> Int]
<1>1. p \in Nat
  BY DEF Learners
<1>2. zA \in VA /\ zP \in VP
  BY <1>1, ActionsTyped
<1>3. E = [EP EXCEPT !.actions = A, !.policies = P]
  <2>1. E = [EP EXCEPT !.actions = Append(@, zA), !.policies = Append(@, zP)]
    BY DEF storeAction
  <2>2. DOMAIN EP = EpisodeFields
    BY Zenon DEF Numbered
  <2> HIDE DEF E
  <2> QED BY <1>2, <2>1, <2>2 DEF EpisodeFields
<1>4. EP.actions \in [1 .. N -> VA] /\ EP.policies \in [1 .. N -> VP]
  BY DEF Acted, Table
<1> HIDE DEF E, zA, zP, VA, VP
<1>5. OneMoreOf(A, EP.actions, N, zA, VA) /\ OneMoreOf(P, EP.policies, N, zP, VP)
  BY <1>2, <1>4, AppendOne
<1> HIDE DEF A, P
<1>6. /\ E = [f \in EpisodeFields |-> E[f]] /\ E.actions = A /\ E.policies = P
      /\ \A f \in EpisodeFields \ {"actions", "policies"} : E[f] = EP[f]
  BY <1>3 DEF Numbered, EpisodeFields
<1>7. Numbered(E)
  <2>1. /\ E.bReachedTermState = EP.bReachedTermState /\ E.ID = EP.ID
        /\ E.just_sampled = EP.just_sampled /\ E.agentID = EP.agentID
    BY <1>6 DEF EpisodeFields
  <2> QED BY <1>6, <2>1, Zenon DEF Numbered
<1>8. Acted(E, mdp, learner, N + 1)
  BY <1>5, <1>6 DEF Acted, Table, OneMoreOf, VA, VP
<1> QED BY <1>6, <1>7, <1>8 DEF E

\* A vector that is as long as the episode, or empty.
LEMMA ResizedTo ==
  ASSUME NEW N \in Nat, NEW M \in Nat, NEW v \in [1 .. M -> Int], M = 0 \/ M = N, NEW x \in Int
  PROVE  /\ Resized(v, N, x) \in [1 .. N -> Int]
         /\ \A i \in 1 .. N : Resized(v, N, x)[i] = IF M = 0 THEN x ELSE v[i]
<1>1. Len(v) = M
  OBVIOUS
<1>2. \A i \in 1 .. N : /\ (i <= M <=> M # 0)
                       /\ (IF i <= M THEN v[i] ELSE x) \in Int
  OBVIOUS
<1>3. Resized(v, N, x) = [i \in 1 .. N |-> IF i <= M THEN v[i] ELSE x]
  BY <1>1 DEF Resized
<1> QED BY <1>2, <1>3

LEMMA EpisodeFinalized ==
  ASSUME NEW learner \in Learners, NEW EP, NEW N \in Nat \ {0}, Numbered(EP),
         Len(EP.states) = N, Estimated(EP, learner, N), NEW index \in Nat
  PROVE  LET E == finalize(EP, index) IN
         /\ Numbered(E) /\ E.ID = index
         /\ \A f \in EpisodeFields \ {"estimates", "ID"} : E[f] = EP[f]
         /\ E.estimates = [f \in EstimateNames |-> E.estimates[f]]
         /\ \A f \in EstimateNames : E.estimates[f] \in [1 .. N -> Int]
         /\ E.estimates["returnEstimator"][N] = 0
         /\ \A f \in {"stateValue", "actionAdvantage"} :
              E.estimates[f][N] = IF learner.critic THEN EP.estimates[f][N] ELSE 0
<1> DEFINE E == finalize(EP, index)
           W == [f \in EstimateNames |->
                   IF f = "offPolicImpW" THEN Append(Resized(EP.estimates[f], N - 1, 1), 0)
                   ELSE Resized(EP.estimates[f], N, 0)]
<1>1. DOMAIN EP.estimates = EstimateNames /\ DOMAIN EP = EpisodeFields
  BY Zenon DEF Estimated, Numbered
<1>2. E = [EP EXCEPT !.ID = index, !.estimates = W]
  BY <1>1 DEF finalize
<1>3. ASSUME NEW f \in EstimateNames
      PROVE  /\ W[f] \in [1 .. N -> Int]
             /\ f = "returnEstimator" => W[f][N] = 0
             /\ f \in {"stateValue", "actionAdvantage"} =>
                  W[f][N] = IF learner.critic THEN EP.estimates[f][N] ELSE 0
  <2> DEFINE v == EP.estimates[f]
             M == IF Criticized(learner, f) THEN N ELSE 0
  <2>1. v \in [1 .. M -> Int] /\ M \in Nat /\ (M = 0 \/ M = N)
    BY DEF Estimated
  <2>2. CASE f = "offPolicImpW"
    <3>1. ~Criticized(learner, f)
      BY <2>2 DEF Criticized
    <3>2. v \in [1 .. 0 -> Int]
      BY <2>1, <3>1
    <3> DEFINE w == Resized(v, N - 1, 1)
    <3>3. w \in [1 .. N - 1 -> Int]
      <4> DEFINE K == N - 1
      <4>1. K \in Nat /\ 0 \in Nat /\ 1 \in Int
        OBVIOUS
      <4> HIDE DEF v, K
      <4>2. Resized(v, K, 1) \in [1 .. K -> Int]
        BY <3>2, <4>1, ResizedTo, Zenon
      <4> QED BY <4>2 DEF K
    <3>4. W[f] = Append(w, 0)
      BY <2>2
    <3> HIDE DEF w, W
    <3>5. OneMoreOf(W[f], w, N - 1, 0, Int)
      BY <3>3, <3>4, AppendOne
    <3>6. N - 1 + 1 = N
      OBVIOUS
    <3> QED BY <2>2, <3>5, <3>6 DEF OneMoreOf
  <2>3. CASE f # "offPolicImpW"
    <3>1. W[f] = Resized(v, N, 0)
      BY <2>3
    <3>2. N \in 1 .. N
      OBVIOUS
    <3> HIDE DEF W, v, M
    <3>3. W[f] \in [1 .. N -> Int] /\ W[f][N] = IF M = 0 THEN 0 ELSE v[N]
      BY <2>1, <3>1, <3>2, ResizedTo
    <3>4. (M = 0) <=> ~Criticized(learner, f)
      BY <2>1 DEF M
    <3> QED BY <3>3, <3>4 DEF Criticized, v
  <2> QED BY <2>2, <2>3
<1>4. W = [f \in EstimateNames |-> W[f]]
  OBVIOUS
<1> HIDE DEF E, W
<1>5. /\ E = [f \in EpisodeFields |-> E[f]] /\ E.ID = index /\ E.estimates = W
      /\ \A f \in EpisodeFields \ {"estimates", "ID"} : E[f] = EP[f]
  BY <1>1, <1>2 DEF EpisodeFields
<1>6. Numbered(E)
  <2>1. /\ E.bReachedTermState = EP.bReachedTermState
        /\ E.just_sampled = EP.just_sampled /\ E.agentID = EP.agentID /\ E.ID \in Int
    BY <1>5, SMTT(30) DEF EpisodeFields
  <2> QED BY <1>5, <2>1, Zenon DEF Numbered
<1>7. /\ \A f \in EstimateNames : E.estimates[f] \in [1 .. N -> Int]
      /\ E.estimates["returnEstimator"][N] = 0
      /\ \A f \in {"stateValue", "actionAdvantage"} :
           E.estimates[f][N] = IF learner.critic THEN EP.estimates[f][N] ELSE 0
  BY <1>3, <1>5 DEF EstimateNames
<1> QED BY <1>4, <1>5, <1>6, <1>7 DEF E

\* A call makes the episode longer by a step, or ends it.
LEMMA EpisodeGrows ==
  ASSUME NEW mdp, Playable(mdp), NEW learner \in Learners, NEW EP, NEW first, NEW N,
         Building(EP, mdp, learner, first, N), NEW a, NextCall(a, mdp, first, N)
  PROVE  LET b == select(EP, mdp, learner, a, first + N + 1) IN
         /\ a.agentStatus < LAST =>
              Building(b.EP, mdp, learner, first, N + 1) /\ b.done = <<>>
         /\ ~(a.agentStatus < LAST) =>
              /\ b.EP = Episode
              /\ \E EP1 : /\ Ready(EP1, mdp, learner.policyVecDim, N + 1)
                          /\ b.done = <<computeReturnEstimator(EP1, learner.returnsEstimator)>>
<1> DEFINE t == first + N + 1
           b == select(EP, mdp, learner, a, t)
           E1 == storeState(EP, mdp, a)[1]
           V == IF a.agentStatus = TERM THEN 0 ELSE ValueOf(t)
           Q == IF a.agentStatus < LAST THEN QOf(t) ELSE V
           E2 == IF ~learner.critic THEN E1 ELSE appendValues(E1, V, Q)
           p == learner.policyVecDim
<1>1. N \in Nat /\ first \in Nat /\ t \in Nat /\ N + 1 \in Nat /\ N + 1 \in Nat \ {0}
      /\ a.agentStatus \in Int /\ (N + 1) - 1 = N /\ t - (N + 1) = first
  BY DEF Building, NextCall
<1>2. Numbered(EP) /\ Acted(EP, mdp, learner, N) /\ Estimated(EP, learner, N)
  BY DEF Building
<1>3. storeState(EP, mdp, a)[2] = a
  BY DEF storeState, NextCall
<1>4. V \in Int /\ Q \in Int /\ (a.agentStatus = TERM => V = 0)
      /\ (~(a.agentStatus < LAST) => Q = V)
  <2>1. ValueOf(t) \in Int /\ QOf(t) \in Int
    BY <1>1 DEF ValueOf, QOf
  <2> QED BY <2>1
<1>5. b = IF a.agentStatus < LAST
          THEN [agent |-> [a EXCEPT !.action = ActionOf(mdp, t), !.policyVector = PolicyOf(p, t)],
                EP |-> storeAction(E2, [a EXCEPT !.action = ActionOf(mdp, t),
                                                 !.policyVector = PolicyOf(p, t)]),
                done |-> <<>>]
          ELSE [agent |-> [a EXCEPT !.action = Zeros(mdp.dimAction), !.policyVector = Zeros(p)],
                EP |-> Episode,
                done |-> <<computeReturnEstimator(
                      finalize(terminateCurrentEpisode(E2,
                        [a EXCEPT !.action = Zeros(mdp.dimAction), !.policyVector = Zeros(p)]), t),
                      learner.returnsEstimator)>>]
  BY <1>3 DEF select
<1>6. /\ Numbered(E1) /\ E1.bReachedTermState = (a.agentStatus = TERM)
      /\ E1.actions = EP.actions /\ E1.policies = EP.policies /\ E1.estimates = EP.estimates
  BY StateStored DEF NextCall
<1>7. Given3(E1, mdp, first, N + 1)
  BY StateGiven
<1> HIDE DEF t, b, E1, V, Q
<1>8. Acted(E1, mdp, learner, N) /\ Estimated(E1, learner, N)
  BY <1>2, <1>6 DEF Acted, Estimated
<1>9. /\ Numbered(E2) /\ Estimated(E2, learner, N + 1)
      /\ \A f \in EpisodeFields \ {"estimates"} : E2[f] = E1[f]
      /\ learner.critic => /\ E2.estimates["stateValue"][N + 1] = V
                           /\ E2.estimates["actionAdvantage"][N + 1] = Q - V
  BY <1>1, <1>4, <1>6, <1>8, ValuesAppended
<1> HIDE DEF E2
<1>10. /\ E2.states = E1.states /\ E2.latent_states = E1.latent_states /\ E2.rewards = E1.rewards
       /\ E2.totR = E1.totR /\ E2.actions = E1.actions /\ E2.policies = E1.policies
       /\ E2.bReachedTermState = E1.bReachedTermState
  BY <1>9 DEF EpisodeFields
<1>11. Given3(E2, mdp, first, N + 1) /\ Acted(E2, mdp, learner, N)
  BY <1>7, <1>8, <1>10 DEF Given3, Acted, AsPlayed
<1>12. CASE a.agentStatus < LAST
  <2> DEFINE c == [a EXCEPT !.action = ActionOf(mdp, t), !.policyVector = PolicyOf(p, t)]
             E == storeAction(E2, c)
  <2>1. b.EP = E /\ b.done = <<>>
    BY <1>5, <1>12
  <2>2. c.trackEpisodes /\ c.action = ActionOf(mdp, t) /\ c.policyVector = PolicyOf(p, t)
    BY DEF NextCall, AgentRecord
  <2> HIDE DEF c
  <2>3. /\ Numbered(E) /\ Acted(E, mdp, learner, N + 1)
        /\ \A f \in EpisodeFields \ {"actions", "policies"} : E[f] = E2[f]
    BY <1>1, <1>9, <1>11, <2>2, ActionStored
  <2> HIDE DEF E
  <2>4. /\ E.states = E2.states /\ E.latent_states = E2.latent_states /\ E.rewards = E2.rewards
        /\ E.totR = E2.totR /\ E.estimates = E2.estimates
    BY <2>3 DEF EpisodeFields
  <2>5. Given3(E, mdp, first, N + 1)
    BY <1>11, <2>4 DEF Given3, AsPlayed
  <2>6. Estimated(E, learner, N + 1)
    BY <1>9, <2>4 DEF Estimated
  <2> QED BY <1>1, <1>12, <2>1, <2>3, <2>5, <2>6 DEF Building, b, t
<1>13. CASE ~(a.agentStatus < LAST)
  <2> DEFINE c == [a EXCEPT !.action = Zeros(mdp.dimAction), !.policyVector = Zeros(p)]
             E3 == terminateCurrentEpisode(E2, c)
             E == finalize(E3, t)
             M == N + 1
  <2>1. b.EP = Episode /\ b.done = <<computeReturnEstimator(E, learner.returnsEstimator)>>
    BY <1>5, <1>13
  <2>2. c.action = Zeros(mdp.dimAction) /\ c.policyVector = Zeros(p)
    BY DEF NextCall, AgentRecord
  <2> HIDE DEF c
  <2>3. /\ Numbered(E3) /\ Acted(E3, mdp, learner, M)
        /\ \A f \in EpisodeFields \ {"actions", "policies"} : E3[f] = E2[f]
    BY <1>1, <1>9, <1>11, <2>2, LastAction
  <2> HIDE DEF E3
  <2>4. /\ E3.states = E2.states /\ E3.latent_states = E2.latent_states /\ E3.rewards = E2.rewards
        /\ E3.totR = E2.totR /\ E3.estimates = E2.estimates
        /\ E3.bReachedTermState = E2.bReachedTermState
    BY <2>3 DEF EpisodeFields
  <2>5. Len(E3.states) = M
    <3>1. E2.states \in Table(M, dimStateObserved(mdp))
      BY <1>11 DEF Given3
    <3> DEFINE W == [1 .. dimStateObserved(mdp) -> Int]
               w == E2.states
    <3>2. w \in [1 .. M -> W]
      BY <3>1 DEF Table
    <3> HIDE DEF W, w
    <3>3. Len(w) = M
      BY <1>1, <3>2
    <3> QED BY <2>4, <3>3 DEF w
  <2>6. Estimated(E3, learner, M)
    BY <1>9, <2>4 DEF Estimated
  <2> HIDE DEF M
  <2>7. M \in Nat \ {0} /\ M \in Nat /\ t - M = first /\ M = N + 1
    BY <1>1 DEF M
  <2>8. /\ Numbered(E) /\ E.ID = t
        /\ \A f \in EpisodeFields \ {"estimates", "ID"} : E[f] = E3[f]
        /\ E.estimates = [f \in EstimateNames |-> E.estimates[f]]
        /\ \A f \in EstimateNames : E.estimates[f] \in [1 .. M -> Int]
        /\ E.estimates["returnEstimator"][M] = 0
        /\ \A f \in {"stateValue", "actionAdvantage"} :
             E.estimates[f][M] = IF learner.critic THEN E3.estimates[f][M] ELSE 0
    BY <1>1, <2>3, <2>5, <2>6, <2>7, EpisodeFinalized
  <2> HIDE DEF E
  <2>9. /\ E.states = E3.states /\ E.latent_states = E3.latent_states /\ E.rewards = E3.rewards
        /\ E.totR = E3.totR /\ E.actions = E3.actions /\ E.policies = E3.policies
        /\ E.bReachedTermState = E3.bReachedTermState
    BY <2>8 DEF EpisodeFields
  <2>10. Given3(E, mdp, first, M) /\ Acted(E, mdp, learner, M)
    BY <1>11, <2>3, <2>4, <2>7, <2>9 DEF Given3, Acted, AsPlayed
  <2>11. E.estimates \in [EstimateNames -> [1 .. M -> Int]]
    BY <2>8
  <2>12. Finished(E, mdp, p, M)
    BY <2>7, <2>8, <2>10, <2>11 DEF Finished, Numbered, Given3, Acted
  <2>13. /\ E.estimates["stateValue"][M] = IF learner.critic THEN V ELSE 0
         /\ E.estimates["actionAdvantage"][M] = IF learner.critic THEN Q - V ELSE 0
    BY <1>9, <2>4, <2>7, <2>8
  <2>14. E.estimates["actionAdvantage"][M] = 0
    BY <1>4, <1>13, <2>13
  <2>15. E.bReachedTermState => E.estimates["stateValue"][M] = 0
    BY <1>4, <1>6, <1>10, <2>4, <2>9, <2>13
  <2>16. Valued(E, M)
    <3>1. /\ E.estimates["stateValue"] \in [1 .. M -> Int]
          /\ E.estimates["actionAdvantage"] \in [1 .. M -> Int]
          /\ E.estimates["offPolicImpW"] \in [1 .. M -> Int]
          /\ E.estimates["returnEstimator"] \in [1 .. M -> Int]
      BY <2>8 DEF EstimateNames
    <3>2. Len(E.states) = M /\ E.rewards \in [1 .. M -> Int]
      BY <2>5, <2>9, <2>10 DEF Given3
    <3> QED BY <2>7, <3>1, <3>2 DEF Valued
  <2>17. ValuedToEnd(E, M)
    BY <2>8, <2>14, <2>15, <2>16 DEF ValuedToEnd
  <2>18. Ready(E, mdp, p, M)
    BY <1>1, <2>7, <2>8, <2>10, <2>12, <2>17 DEF Ready, Given3
  <2> QED BY <1>13, <2>1, <2>7, <2>18 DEF b, t
<1> QED BY <1>12, <1>13

------------------------------------------------------------------------------
(* Episodes that are finished                                              *)

\* The same episode with other estimates.
Reestimated(E, EP, N) ==
  /\ E = [f \in EpisodeFields |-> E[f]]
  /\ \A f \in EpisodeFields \ {"estimates"} : E[f] = EP[f]
  /\ E.estimates = [f \in EstimateNames |-> E.estimates[f]]
  /\ \A f \in EstimateNames : E.estimates[f] \in [1 .. N -> Int]
  /\ E.estimates["stateValue"] = EP.estimates["stateValue"]
  /\ E.estimates["actionAdvantage"] = EP.estimates["actionAdvantage"]
  /\ EP.bReachedTermState =>
       E.estimates["returnEstimator"][N] = EP.estimates["returnEstimator"][N]

LEMMA ReestimatedReady ==
  ASSUME NEW mdp, NEW p, NEW N, NEW EP, Ready(EP, mdp, p, N), NEW E, Reestimated(E, EP, N)
  PROVE  Ready(E, mdp, p, N)
<1>1. /\ Finished(EP, mdp, p, N) /\ ValuedToEnd(EP, N) /\ EP.ID - N \in Nat
      /\ AsPlayed(EP, mdp, EP.ID - N, N)
  BY DEF Ready
<1>2. /\ E.states = EP.states /\ E.latent_states = EP.latent_states /\ E.rewards = EP.rewards
      /\ E.totR = EP.totR /\ E.actions = EP.actions /\ E.policies = EP.policies
      /\ E.bReachedTermState = EP.bReachedTermState /\ E.ID = EP.ID
      /\ E.just_sampled = EP.just_sampled /\ E.agentID = EP.agentID
  BY DEF Reestimated, EpisodeFields
<1>3. E.estimates \in [EstimateNames -> [1 .. N -> Int]]
  BY DEF Reestimated
<1>4. Finished(E, mdp, p, N)
  <2>1. E = [f \in EpisodeFields |-> E[f]]
    BY DEF Reestimated
  <2> QED BY <1>1, <1>2, <1>3, <2>1 DEF Finished
<1>5. Valued(E, N)
  <2>1. /\ E.estimates["stateValue"] \in [1 .. N -> Int]
        /\ E.estimates["actionAdvantage"] \in [1 .. N -> Int]
        /\ E.estimates["offPolicImpW"] \in [1 .. N -> Int]
        /\ E.estimates["returnEstimator"] \in [1 .. N -> Int]
    BY DEF Reestimated, EstimateNames
  <2> QED BY <1>1, <1>2, <2>1 DEF Valued, ValuedToEnd
<1>6. ValuedToEnd(E, N)
  <2>1. /\ E.estimates["stateValue"] = EP.estimates["stateValue"]
        /\ E.estimates["actionAdvantage"] = EP.estimates["actionAdvantage"]
        /\ EP.bReachedTermState =>
             E.estimates["returnEstimator"][N] = EP.estimates["returnEstimator"][N]
    BY DEF Reestimated
  <2> QED BY <1>1, <1>2, <1>5, <2>1 DEF ValuedToEnd
<1>7. AsPlayed(E, mdp, E.ID - N, N) /\ E.ID - N \in Nat
  BY <1>1, <1>2 DEF AsPlayed
<1> QED BY <1>4, <1>6, <1>7 DEF Ready

\* Estimates of a finished episode are those of all steps.
EstimatesOfAll(EP, N) ==
  /\ EP = [f \in EpisodeFields |-> EP[f]] /\ DOMAIN EP = EpisodeFields
  /\ EP.estimates = [f \in EstimateNames |-> EP.estimates[f]]
  /\ DOMAIN EP.estimates = EstimateNames
  /\ \A f \in EstimateNames : EP.estimates[f] \in [1 .. N -> Int]
  /\ N \in Nat \ {0} /\ Len(EP.states) = N

LEMMA ReadyEstimates ==
  ASSUME NEW mdp, NEW p, NEW N, NEW EP, Ready(EP, mdp, p, N)
  PROVE  EstimatesOfAll(EP, N)
<1>1. EP.estimates \in [EstimateNames -> [1 .. N -> Int]] /\ EP = [f \in EpisodeFields |-> EP[f]]
  BY DEF Ready, Finished
<1>2. DOMAIN EP = EpisodeFields
  BY <1>1, Zenon
<1>3. N \in Nat \ {0} /\ Len(EP.states) = N
  BY DEF Ready, ValuedToEnd, Valued
<1> DEFINE W == EP.estimates
<1> HIDE DEF W
<1>4. W = [f \in EstimateNames |-> W[f]] /\ DOMAIN W = EstimateNames
      /\ \A f \in EstimateNames : W[f] \in [1 .. N -> Int]
  BY <1>1 DEF W
<1> QED BY <1>1, <1>2, <1>3, <1>4 DEF W, EstimatesOfAll

LEMMA ReturnsKeepReady ==
  ASSUME NEW mdp, NEW p, NEW N, NEW EP, Ready(EP, mdp, p, N), NEW re
  PROVE  Ready(computeReturnEstimator(EP, re), mdp, p, N)
<1> DEFINE R == updateReturnEstimator(EP, N - 1, re)
           E == computeReturnEstimator(EP, re)
           W == [f \in EstimateNames |->
                   IF f # "returnEstimator" \/ re = "none" THEN EP.estimates[f] ELSE R]
<1>1. /\ EP = [f \in EpisodeFields |-> EP[f]] /\ DOMAIN EP = EpisodeFields
      /\ DOMAIN EP.estimates = EstimateNames
      /\ \A f \in EstimateNames : EP.estimates[f] \in [1 .. N -> Int]
      /\ N \in Nat \ {0} /\ Len(EP.states) = N
  <2>1. EstimatesOfAll(EP, N)
    BY ReadyEstimates, Zenon
  <2> QED BY <2>1 DEF EstimatesOfAll
<1>2. Valued(EP, N)
  BY DEF Ready, ValuedToEnd
<1>3. /\ R \in [1 .. N -> Int]
      /\ R[N] = IF EP.bReachedTermState THEN EP.estimates["returnEstimator"][N]
                ELSE EP.estimates["stateValue"][N]
  BY <1>2, Updated
<1>4. E = [EP EXCEPT !.estimates = W]
  <2> HIDE DEF R
  <2> QED BY <1>1 DEF computeReturnEstimator, R
<1>5. /\ \A f \in EstimateNames : W[f] \in [1 .. N -> Int]
      /\ W["stateValue"] = EP.estimates["stateValue"]
      /\ W["actionAdvantage"] = EP.estimates["actionAdvantage"]
      /\ EP.bReachedTermState => W["returnEstimator"][N] = EP.estimates["returnEstimator"][N]
      /\ W = [f \in EstimateNames |-> W[f]]
  <2> HIDE DEF R
  <2> QED BY <1>1, <1>3 DEF EstimateNames
<1> HIDE DEF W, E, R
<1>6. E.estimates = W /\ E = [f \in EpisodeFields |-> E[f]]
      /\ \A f \in EpisodeFields \ {"estimates"} : E[f] = EP[f]
  BY <1>1, <1>4 DEF EpisodeFields
<1>7. Reestimated(E, EP, N)
  BY <1>5, <1>6 DEF Reestimated
<1> QED BY <1>7, ReestimatedReady DEF E

\* What training does to the estimates.
Weighed(EP) ==
  [EP EXCEPT !.estimates = [f \in DOMAIN @ |->
                              CASE f = "deltaValue"   -> [t \in DOMAIN @[f] |-> 40 + t]
                                [] f = "KullbLeibDiv" -> [t \in DOMAIN @[f] |-> 50 + t]
                                [] f = "offPolicImpW" -> [t \in DOMAIN @[f] |-> (t - 1) % 3]
                                [] OTHER              -> @[f]]]

LEMMA WeighedReady ==
  ASSUME NEW mdp, NEW p, NEW N, NEW EP, Ready(EP, mdp, p, N)
  PROVE  Ready(Weighed(EP), mdp, p, N)
<1> DEFINE E == Weighed(EP)
           W == [f \in EstimateNames |->
                   CASE f = "deltaValue"   -> [t \in 1 .. N |-> 40 + t]
                     [] f = "KullbLeibDiv" -> [t \in 1 .. N |-> 50 + t]
                     [] f = "offPolicImpW" -> [t \in 1 .. N |-> (t - 1) % 3]
                     [] OTHER              -> EP.estimates[f]]
<1>1. /\ EP = [f \in EpisodeFields |-> EP[f]] /\ DOMAIN EP = EpisodeFields
      /\ DOMAIN EP.estimates = EstimateNames
      /\ \A f \in EstimateNames : EP.estimates[f] \in [1 .. N -> Int]
      /\ N \in Nat \ {0}
  <2>1. EstimatesOfAll(EP, N)
    BY ReadyEstimates, Zenon
  <2> QED BY <2>1 DEF EstimatesOfAll
<1>2. \A f \in EstimateNames : DOMAIN EP.estimates[f] = 1 .. N
  BY <1>1
<1>3. E = [EP EXCEPT !.estimates = W]
  BY <1>1, <1>2 DEF Weighed
<1>4. ASSUME NEW f \in EstimateNames PROVE W[f] \in [1 .. N -> Int]
  <2>1. \A t \in 1 .. N : 40 + t \in Int /\ 50 + t \in Int /\ (t - 1) % 3 \in Int
    BY <1>1
  <2>2. CASE f = "deltaValue"
    BY <2>1, <2>2
  <2>3. CASE f = "KullbLeibDiv"
    BY <2>1, <2>3
  <2>4. CASE f = "offPolicImpW"
    BY <2>1, <2>4
  <2>5. CASE f \notin {"deltaValue", "KullbLeibDiv", "offPolicImpW"}
    BY <1>1, <2>5
  <2> QED BY <2>2, <2>3, <2>4, <2>5
<1>5. /\ W["stateValue"] = EP.estimates["stateValue"]
      /\ W["actionAdvantage"] = EP.estimates["actionAdvantage"]
      /\ W["returnEstimator"] = EP.estimates["returnEstimator"]
      /\ W = [f \in EstimateNames |-> W[f]]
  BY DEF EstimateNames
<1> HIDE DEF W, E
<1>6. E.estimates = W /\ E = [f \in EpisodeFields |-> E[f]]
      /\ \A f \in EpisodeFields \ {"estimates"} : E[f] = EP[f]
  BY <1>1, <1>3 DEF EpisodeFields
<1>7. Reestimated(E, EP, N)
  BY <1>4, <1>5, <1>6 DEF Reestimated
<1> QED BY <1>7, ReestimatedReady DEF E

\* A finished episode is read as it was packed, and has the states that were given.
LEMMA ReadyDecoded ==
  ASSUME NEW mdp, Playable(mdp), NEW p \in Nat, NEW N, NEW EP, Ready(EP, mdp, p, N)
  PROVE  EpisodeDecoded(EP, mdp, p)
<1> DEFINE read == unpackEpisode(packEpisode(EP, mdp, p), mdp, p)
           first == EP.ID - N
<1>1. Finished(EP, mdp, p, N) /\ first \in Nat /\ AsPlayed(EP, mdp, first, N)
  BY DEF Ready
<1>2. Len(EP.states) = N /\ DOMAIN EP.states = 1 .. N
  <2>1. Len(EP.states) = N
    <3>1. EstimatesOfAll(EP, N)
      BY ReadyEstimates, Zenon
    <3> QED BY <3>1 DEF EstimatesOfAll
  <2>2. DOMAIN EP.states = 1 .. N
    BY <1>1 DEF Finished, Table
  <2> QED BY <2>1, <2>2
<1>3. Sized(mdp, p)
  <2>1. HasStates(mdp) /\ mdp.dimAction \in Nat \ {0} /\ mdp.dimState \in Nat
    BY DEF Playable, HasStates
  <2> DEFINE v == StateOf(mdp, 0)
  <2>2. v \in [1 .. mdp.dimState -> Int]
    BY StateTyped
  <2> HIDE DEF v
  <2>3. dimStateObserved(mdp) \in 0 .. mdp.dimState
    BY <2>1, <2>2, PartsOfState
  <2> QED BY <2>1, <2>3 DEF Sized
<1>4. read = EP
  BY <1>1, <1>3, PackedEpisodesAreRead
<1>5. ASSUME NEW t \in 1 .. N
      PROVE  /\ observedAndLatent2state(mdp, read.states[t], read.latent_states[t])
                  = StateOf(mdp, first + t)
             /\ read.rewards[t] = RewardOf(IF t = 1 THEN INIT ELSE CONT, first + t)
  <2> DEFINE v == StateOf(mdp, first + t)
             o == state2observed(mdp, v)
             l == state2nonObserved(mdp, v)
  <2>1. v \in [1 .. mdp.dimState -> Int]
    <3>1. first + t \in Nat
      BY <1>1
    <3> QED BY <3>1, StateTyped
  <2>2. observedAndLatent2state(mdp, o, l) = v
    <3> HIDE DEF v
    <3> QED BY <2>1, PartsOfState DEF Playable
  <2>3. /\ EP.states[t] = o /\ EP.latent_states[t] = l
        /\ EP.rewards[t] = RewardOf(IF t = 1 THEN INIT ELSE CONT, first + t)
    <3> HIDE DEF first
    <3> QED BY <1>1 DEF AsPlayed
  <2> HIDE DEF read, v, o, l
  <2> QED BY <1>4, <2>2, <2>3 DEF v
<1> HIDE DEF read
<1>6. EpisodeDecoded(EP, mdp, p) <=>
        /\ read = EP
        /\ \A t \in DOMAIN EP.states :
             /\ observedAndLatent2state(mdp, read.states[t], read.latent_states[t])
                  = StateOf(mdp, EP.ID - Len(EP.states) + t)
             /\ read.rewards[t] = RewardOf(IF t = 1 THEN INIT ELSE CONT, EP.ID - Len(EP.states) + t)
  BY DEF EpisodeDecoded, read
<1> QED BY <1>2, <1>4, <1>5, <1>6

\* And the returns that are computed for it are sums.
LEMMA ReadySums ==
  ASSUME NEW mdp, NEW p, NEW N, NEW EP, Ready(EP, mdp, p, N), NEW re, re # "none"
  PROVE  ReturnsAreSums(computeReturnEstimator(EP, re), re)
<1>1. /\ EP = [f \in EpisodeFields |-> EP[f]]
      /\ EP.estimates = [f \in EstimateNames |-> EP.estimates[f]]
  <2>1. EstimatesOfAll(EP, N)
    BY ReadyEstimates, Zenon
  <2> QED BY <2>1, Zenon DEF EstimatesOfAll
<1>2. ValuedToEnd(EP, N)
  BY DEF Ready
<1> QED BY <1>1, <1>2, ReturnsComputed

\* What is said of an episode that was finished and then trained with.
EpisodeKept(EP, mdp, learner) ==
  /\ EpisodeDecoded(EP, mdp, learner.policyVecDim)
  /\ learner.returnsEstimator # "none" => ReturnsAreSums(EP, learner.returnsEstimator)

LEMMA DoneIsKept ==
  ASSUME NEW mdp, Playable(mdp), NEW learner \in Learners, NEW N, NEW EP0,
         Ready(EP0, mdp, learner.policyVecDim, N), NEW EP,
         EP = computeReturnEstimator(EP0, learner.returnsEstimator)
  PROVE  /\ EpisodeKept(EP, mdp, learner)
         /\ EpisodeKept(Trained(EP, learner.returnsEstimator), mdp, learner)
<1> DEFINE p == learner.policyVecDim
           re == learner.returnsEstimator
<1>1. p \in Nat
  BY DEF Learners
<1> HIDE DEF p, re
<1>2. ASSUME NEW e, Ready(e, mdp, p, N)
      PROVE  /\ EpisodeKept(computeReturnEstimator(e, re), mdp, learner)
             /\ Ready(computeReturnEstimator(e, re), mdp, p, N)
  <2> DEFINE E == computeReturnEstimator(e, re)
  <2>1. Ready(E, mdp, p, N)
    BY <1>2, ReturnsKeepReady
  <2>2. re # "none" => ReturnsAreSums(E, re)
    BY <1>2, ReadySums
  <2> HIDE DEF E
  <2>3. EpisodeDecoded(E, mdp, p)
    BY <1>1, <2>1, ReadyDecoded
  <2>4. EpisodeKept(E, mdp, learner)
    BY <2>2, <2>3, Zenon DEF EpisodeKept, p, re
  <2> QED BY <2>1, <2>4 DEF E
<1>3. Ready(EP0, mdp, p, N) /\ EP = computeReturnEstimator(EP0, re)
  BY DEF p, re
<1>4. EpisodeKept(EP, mdp, learner) /\ Ready(EP, mdp, p, N)
  BY <1>2, <1>3
<1>5. Ready(Weighed(EP), mdp, p, N)
  BY <1>4, WeighedReady
<1>6. EpisodeKept(computeReturnEstimator(Weighed(EP), re), mdp, learner)
  BY <1>2, <1>5
<1>7. Trained(EP, re) = computeReturnEstimator(Weighed(EP), re)
  BY DEF Trained, Weighed
<1> QED BY <1>4, <1>6, <1>7 DEF re

------------------------------------------------------------------------------
(* Calls of the application                                                *)

AgentsLevel(s, agent, mdp) ==
  Level(s.app, s.agent, mdp) /\ s.agent.trackEpisodes = agent.trackEpisodes

\* A call, in which the master's agent is told what the application's is, and answers.
AgentsStep(s1, s, agent, mdp, learner, status, t) ==
  /\ AgentsLevel(s1, agent, mdp) /\ AgentFollows(s1) /\ s1.app.agentStatus = status
  /\ status >= LAST /\ agent.trackEpisodes =>
       s1.app.learnerAvgCumulativeReward = AvgCumulativeReward(t)
  /\ s1.told \in AgentRecord(mdp) /\ s1.told.trackEpisodes = agent.trackEpisodes
  /\ s1.told.agentStatus = status /\ s1.told.state = StateOf(mdp, t)
  /\ s1.told.reward = RewardOf(status, t)
  /\ s1.EP = select(s.EP, mdp, learner, s1.told, t).EP
  /\ s1.done = s.done \o select(s.EP, mdp, learner, s1.told, t).done

LEMMA AgentsFollow ==
  ASSUME NEW mdp, Playable(mdp), NEW learner \in Learners, NEW agent,
         NEW s, AgentsLevel(s, agent, mdp), NEW status \in 0 .. 3, NEW t \in Nat
  PROVE  AgentsStep(Step(s, mdp, learner, status, t), s, agent, mdp, learner, status, t)
<1> DEFINE sent == update(s.app, status, StateOf(mdp, t), RewardOf(status, t))
           told == unpackStateMsg(s.agent, packStateMsg(sent))
           answer == select(s.EP, mdp, learner, told, t)
           a == answer.agent
           b == answerStateAction(a, t)
           app == unpackActionMsg(sent, packActionMsg(b))
           avg == IF status >= LAST THEN app.action[1] ELSE app.learnerAvgCumulativeReward
           app1 == [app EXCEPT !.learnerAvgCumulativeReward = avg]
           s1 == Step(s, mdp, learner, status, t)
<1>1. s1 = [app |-> [app EXCEPT !.learnerAvgCumulativeReward =
                       IF status >= LAST THEN app.action[1] ELSE @],
            told |-> told, agent |-> b, EP |-> answer.EP, done |-> s.done \o answer.done]
  BY DEF Step
<1>2. /\ Level(sent, told, mdp) /\ sent.agentStatus = status /\ told.agentStatus = status
      /\ told.state = StateOf(mdp, t) /\ told.reward = RewardOf(status, t)
      /\ sent.reward = RewardOf(status, t) /\ told.sOld = sent.sOld
      /\ told.trackEpisodes = agent.trackEpisodes
  <2> DEFINE p == s.app
             q == s.agent
             sent1 == update(p, status, StateOf(mdp, t), RewardOf(status, t))
             told1 == unpackStateMsg(q, packStateMsg(sent1))
  <2>1. Level(p, q, mdp) /\ q.trackEpisodes = agent.trackEpisodes
    BY DEF AgentsLevel
  <2>2. sent = sent1 /\ told = told1
    OBVIOUS
  <2> HIDE DEF p, q, sent, told
  <2>3. SentAs(sent1, told1, q, mdp, status, t)
    BY <2>1, StateSent, Zenon
  <2> HIDE DEF sent1, told1
  <2> QED BY <2>1, <2>2, <2>3 DEF SentAs
<1> HIDE DEF sent, told
<1>3. sent \in AgentRecord(mdp) /\ told \in AgentRecord(mdp)
  BY <1>2 DEF Level
<1>4. /\ Given2(told, a, mdp)
      /\ a.agentStatus = (IF told.trackEpisodes THEN told.agentStatus ELSE INIT)
      /\ a.agentStatus >= LAST => a.action = Zeros(mdp.dimAction)
  BY <1>3, Selected
<1>5. answer.agent = a
  OBVIOUS
<1> HIDE DEF a, answer
<1>6. a \in AgentRecord(mdp)
  BY <1>4 DEF Given2
<1>7. /\ Given2(a, b, mdp)
      /\ a.agentStatus >= LAST => b.action[1] = AvgCumulativeReward(t)
  BY <1>4, <1>6, Answered
<1> HIDE DEF b
<1>8. b \in AgentRecord(mdp)
  BY <1>7 DEF Given2
<1>9. /\ app \in AgentRecord(mdp)
      /\ \A f \in {"action", "learnStatus", "learnerTimeStepID", "learnerGradStepID"} :
           app[f] = b[f]
      /\ \A f \in {"state", "sOld", "agentStatus", "timeStepInEpisode", "reward",
                   "cumulativeRewards", "localID", "trackEpisodes"} : app[f] = sent[f]
  BY <1>3, <1>8, ActionSent
<1> HIDE DEF app
<1>10. avg \in Int
  <2>1. app.learnerAvgCumulativeReward \in Int /\ app.action \in [1 .. mdp.dimAction -> Int]
    BY <1>9 DEF AgentRecord
  <2>2. mdp.dimAction \in Nat \ {0}
    BY DEF Playable
  <2>3. 1 \in 1 .. mdp.dimAction
    BY <2>2
  <2> DEFINE v == app.action
             n == mdp.dimAction
  <2>4. v \in [1 .. n -> Int] /\ 1 \in 1 .. n
    BY <2>1, <2>3
  <2> HIDE DEF v, n
  <2>5. v[1] \in Int
    BY <2>4
  <2> QED BY <2>1, <2>5 DEF v
<1>11. s1.app = app1 /\ s1.told = told /\ s1.agent = b /\ s1.EP = answer.EP
       /\ s1.done = s.done \o answer.done
  <2>1. [app EXCEPT !.learnerAvgCumulativeReward = IF status >= LAST THEN app.action[1] ELSE @] = app1
    BY <1>9 DEF AgentRecord
  <2> HIDE DEF s1, app1, avg
  <2> QED BY <1>1, <2>1
<1> HIDE DEF s1, avg
<1>12. /\ app1 \in AgentRecord(mdp) /\ app1.learnerAvgCumulativeReward = avg
       /\ \A f \in {"action", "learnStatus", "learnerTimeStepID", "learnerGradStepID"} :
            app1[f] = b[f]
       /\ \A f \in {"state", "sOld", "agentStatus", "timeStepInEpisode", "reward",
                   "cumulativeRewards", "localID", "trackEpisodes"} : app1[f] = sent[f]
  <2>1. app1 \in AgentRecord(mdp) /\ app1.learnerAvgCumulativeReward = avg
    BY <1>9, <1>10 DEF AgentRecord
  <2>2. \A f \in {"action", "learnStatus", "learnerTimeStepID", "learnerGradStepID", "state", "sOld",
                  "agentStatus", "timeStepInEpisode", "reward", "cumulativeRewards", "localID",
                  "trackEpisodes"} : app1[f] = app[f]
    BY <1>9 DEF AgentRecord
  <2> HIDE DEF app1
  <2> QED BY <1>9, <2>1, <2>2
<1> HIDE DEF app1
<1>13. /\ told.state = sent.state /\ told.timeStepInEpisode = sent.timeStepInEpisode
       /\ told.cumulativeRewards + told.reward = sent.cumulativeRewards
  BY <1>2 DEF Level
<1>14. Level(app1, b, mdp) /\ b.trackEpisodes = agent.trackEpisodes
  <2>1. /\ b.state = told.state /\ b.timeStepInEpisode = told.timeStepInEpisode
        /\ b.reward = told.reward /\ b.cumulativeRewards = told.cumulativeRewards
        /\ b.trackEpisodes = told.trackEpisodes
    BY <1>4, <1>7 DEF Given2
  <2>2. /\ app1.state = sent.state /\ app1.timeStepInEpisode = sent.timeStepInEpisode
        /\ app1.cumulativeRewards = sent.cumulativeRewards
    BY <1>12
  <2> QED BY <1>2, <1>8, <1>12, <1>13, <2>1, <2>2 DEF Level
<1>15. AgentsLevel(s1, agent, mdp)
  BY <1>11, <1>14 DEF AgentsLevel
<1>16. AgentFollows(s1)
  <2>1. /\ told.state = app1.state /\ told.sOld = app1.sOld /\ told.agentStatus = app1.agentStatus
        /\ told.timeStepInEpisode = app1.timeStepInEpisode /\ told.reward = app1.reward
        /\ told.cumulativeRewards + told.reward = app1.cumulativeRewards
    BY <1>2, <1>12, <1>13
  <2> QED BY <1>11, <1>12, <2>1 DEF AgentFollows
<1>17. s1.app.agentStatus = status
  BY <1>2, <1>11, <1>12
<1>18. status >= LAST /\ agent.trackEpisodes => avg = AvgCumulativeReward(t)
  <2> SUFFICES ASSUME status >= LAST, agent.trackEpisodes PROVE avg = AvgCumulativeReward(t)
    OBVIOUS
  <2>1. a.agentStatus = status
    BY <1>2, <1>4
  <2>2. b.action[1] = AvgCumulativeReward(t)
    BY <1>7, <2>1
  <2>3. app.action = b.action
    BY <1>9
  <2> QED BY <2>2, <2>3 DEF avg
<1>19. /\ s1.EP = select(s.EP, mdp, learner, s1.told, t).EP
       /\ s1.done = s.done \o select(s.EP, mdp, learner, s1.told, t).done
  BY <1>11 DEF answer
<1> QED BY <1>2, <1>3, <1>11, <1>12, <1>15, <1>16, <1>17, <1>18, <1>19 DEF AgentsStep, s1

------------------------------------------------------------------------------
(* Lives                                                                   *)

\* An episode begins with the first call, and after the last of the one before.
Life(statuses, n) ==
  /\ n \in Nat /\ statuses \in [1 .. n -> 0 .. 3]
  /\ \A k \in 1 .. n : statuses[k] = INIT <=> (k = 1 \/ statuses[k - 1] >= LAST)

Ends(statuses, k) == Cardinality({t \in 1 .. k : statuses[t] >= LAST})

LEMMA OneMoreEnd ==
  ASSUME NEW n \in Nat, NEW statuses \in [1 .. n -> 0 .. 3], NEW k \in 0 .. n - 1
  PROVE  /\ Ends(statuses, 0) = 0 /\ Ends(statuses, k) \in Nat
         /\ Ends(statuses, k + 1) = IF statuses[k + 1] >= LAST THEN Ends(statuses, k) + 1
                                    ELSE Ends(statuses, k)
<1> DEFINE S == {t \in 1 .. k : statuses[t] >= LAST}
           T == {t \in 1 .. k + 1 : statuses[t] >= LAST}
<1>1. IsFiniteSet(S)
  <2>1. IsFiniteSet(1 .. k)
    BY FS_Interval
  <2>2. S \subseteq 1 .. k
    OBVIOUS
  <2> HIDE DEF S
  <2> QED BY <2>1, <2>2, FS_Subset
<1>2. {t \in 1 .. 0 : statuses[t] >= LAST} = {}
  OBVIOUS
<1>3. k + 1 \notin S
  OBVIOUS
<1>4. T = IF statuses[k + 1] >= LAST THEN S \cup {k + 1} ELSE S
  <2>1. 1 .. k + 1 = (1 .. k) \cup {k + 1}
    OBVIOUS
  <2> QED BY <2>1
<1> HIDE DEF S, T
<1>5. Cardinality(S) \in Nat /\ Cardinality(S \cup {k + 1}) = Cardinality(S) + 1
      /\ Cardinality({}) = 0
  BY <1>1, <1>3, FS_AddElement, FS_CardinalityType, FS_EmptySet
<1> QED BY <1>2, <1>4, <1>5 DEF Ends, S, T

\* After k calls.
Lived(s, agent, learner, statuses, k) ==
  LET mdp == agent.MDP IN
  /\ AgentsLevel(s, agent, mdp)
  /\ k # 0 =>
       /\ AgentFollows(s) /\ s.app.agentStatus = statuses[k]
       /\ statuses[k] >= LAST /\ agent.trackEpisodes =>
            s.app.learnerAvgCumulativeReward = AvgCumulativeReward(k)
  /\ \E V : s.done \in Seq(V)
  /\ Len(s.done) = IF agent.trackEpisodes THEN Ends(statuses, k) ELSE 0
  /\ \A i \in 1 .. Len(s.done) :
       /\ EpisodeKept(s.done[i], mdp, learner)
       /\ EpisodeKept(Trained(s.done[i], learner.returnsEstimator), mdp, learner)
  /\ agent.trackEpisodes =>
       \E first, N : /\ Building(s.EP, mdp, learner, first, N) /\ first + N = k
                     /\ (N = 0) <=> (k = 0 \/ statuses[k] >= LAST)

AgentGiven(agent) ==
  Playable(agent.MDP) /\ agent.localID \in Int /\ agent.trackEpisodes \in BOOLEAN

LEMMA LifeBegins ==
  ASSUME NEW agent, AgentGiven(agent), NEW learner, NEW statuses
  PROVE  Lived(Begun(agent), agent, learner, statuses, 0)
<1> DEFINE mdp == agent.MDP
           a == Agent(agent.localID, mdp, agent.trackEpisodes)
           s == Begun(agent)
<1>1. s.app = a /\ s.agent = a /\ s.EP = Episode /\ s.done = <<>>
  BY DEF Begun
<1>2. a \in AgentRecord(mdp) /\ a.trackEpisodes = agent.trackEpisodes
  <2>1. /\ Zeros(mdp.dimState) \in [1 .. mdp.dimState -> Int]
        /\ Zeros(mdp.dimAction) \in [1 .. mdp.dimAction -> Int]
    BY DEF Zeros
  <2>2. <<>> \in Seq(Int) /\ 0 \in Int
    OBVIOUS
  <2> HIDE DEF mdp
  <2> QED BY <2>1, <2>2 DEF AgentGiven, Agent, AgentRecord, INIT
<1>3. a.cumulativeRewards + a.reward = a.cumulativeRewards
  BY DEF Agent
<1> HIDE DEF a, s
<1>4. AgentsLevel(s, agent, mdp)
  BY <1>1, <1>2, <1>3 DEF AgentsLevel, Level
<1>5. Building(s.EP, mdp, learner, 0, 0)
  BY <1>1, EpisodeBegins
<1>6. Ends(statuses, 0) = 0
  <2>1. {t \in 1 .. 0 : statuses[t] >= LAST} = {}
    OBVIOUS
  <2> QED BY <2>1, FS_EmptySet DEF Ends
<1>7. Len(s.done) = 0 /\ s.done \in Seq({})
  BY <1>1
<1>8. \E first, N : /\ Building(s.EP, mdp, learner, first, N) /\ first + N = 0
                    /\ (N = 0) <=> (0 = 0 \/ statuses[0] >= LAST)
  BY <1>5
<1> QED BY <1>4, <1>6, <1>7, <1>8 DEF Lived, s

LEMMA LifeGoesOn ==
  ASSUME NEW agent, AgentGiven(agent), NEW learner \in Learners, NEW n, NEW statuses, Life(statuses, n),
         NEW k \in 0 .. n - 1, NEW s, Lived(s, agent, learner, statuses, k), NEW s1,
         s1 = Step(s, agent.MDP, learner, statuses[k + 1], k + 1)
  PROVE  Lived(s1, agent, learner, statuses, k + 1)
<1> DEFINE mdp == agent.MDP
           status == statuses[k + 1]
           t == k + 1
           re == learner.returnsEstimator
           answer == select(s.EP, mdp, learner, s1.told, t)
<1>1. n \in Nat /\ k \in Nat /\ t \in Nat /\ t \in 1 .. n /\ t # 0 /\ t - 1 = k
      /\ status \in 0 .. 3 /\ (status = INIT <=> (k = 0 \/ statuses[k] >= LAST))
  <2>1. n \in Nat /\ statuses \in [1 .. n -> 0 .. 3] /\ t \in 1 .. n
    BY DEF Life
  <2>2. (t = 1 <=> k = 0) /\ t - 1 = k /\ k \in Nat /\ t \in Nat /\ t # 0
    BY <2>1
  <2>3. status = INIT <=> (t = 1 \/ statuses[t - 1] >= LAST)
    BY <2>1 DEF Life
  <2> QED BY <2>1, <2>2, <2>3
<1>2. Playable(mdp) /\ agent.trackEpisodes \in BOOLEAN /\ AgentsLevel(s, agent, mdp)
  BY DEF AgentGiven, Lived
<1>3. AgentsStep(s1, s, agent, mdp, learner, status, t)
  <2> HIDE DEF mdp, status, t
  <2>1. s1 = Step(s, mdp, learner, status, t)
    BY DEF mdp, status, t
  <2>2. status \in 0 .. 3 /\ t \in Nat
    BY <1>1
  <2>3. AgentsStep(Step(s, mdp, learner, status, t), s, agent, mdp, learner, status, t)
    BY <1>2, <2>2, AgentsFollow, Zenon
  <2> QED BY <2>1, <2>3, Zenon
<1> HIDE DEF mdp, status, t, answer
<1>4. /\ AgentsLevel(s1, agent, mdp) /\ AgentFollows(s1) /\ s1.app.agentStatus = status
      /\ status >= LAST /\ agent.trackEpisodes =>
           s1.app.learnerAvgCumulativeReward = AvgCumulativeReward(t)
      /\ s1.told \in AgentRecord(mdp) /\ s1.told.trackEpisodes = agent.trackEpisodes
      /\ s1.told.agentStatus = status /\ s1.told.state = StateOf(mdp, t)
      /\ s1.told.reward = RewardOf(status, t)
      /\ s1.EP = answer.EP /\ s1.done = s.done \o answer.done
  BY <1>3 DEF AgentsStep, answer
<1>5. PICK V : s.done \in Seq(V)
  BY DEF Lived
<1>6. /\ Len(s.done) = IF agent.trackEpisodes THEN Ends(statuses, k) ELSE 0
      /\ \A i \in 1 .. Len(s.done) :
           EpisodeKept(s.done[i], mdp, learner) /\ EpisodeKept(Trained(s.done[i], re), mdp, learner)
  BY DEF Lived, mdp
<1>7. /\ Ends(statuses, k) \in Nat
      /\ Ends(statuses, t) = IF status >= LAST THEN Ends(statuses, k) + 1 ELSE Ends(statuses, k)
  BY <1>1, OneMoreEnd DEF Life, t, status
<1>8. status \in Int /\ LAST \in Int /\ (status < LAST <=> ~(status >= LAST))
  BY <1>1 DEF LAST
<1>a. /\ AgentsLevel(s1, agent, mdp)
      /\ t # 0 =>
           /\ AgentFollows(s1) /\ s1.app.agentStatus = statuses[t]
           /\ statuses[t] >= LAST /\ agent.trackEpisodes =>
                s1.app.learnerAvgCumulativeReward = AvgCumulativeReward(t)
  BY <1>4 DEF status, t
<1>9. CASE ~agent.trackEpisodes
  <2>1. answer.done = <<>>
    <3>1. storeState(s.EP, mdp, s1.told)[2].agentStatus = INIT
      BY <1>4, <1>9 DEF storeState, AgentRecord
    <3>2. INIT < LAST
      BY DEF INIT, LAST
    <3> QED BY <3>1, <3>2 DEF select, answer
  <2>2. s1.done = s.done /\ Len(s.done) = 0
    BY <1>4, <1>5, <1>6, <1>9, <2>1
  <2>3. Len(s1.done) = IF agent.trackEpisodes THEN Ends(statuses, t) ELSE 0
    BY <1>9, <2>2
  <2> QED BY <1>5, <1>6, <1>9, <1>a, <2>2, <2>3 DEF Lived, mdp, t, re
<1>10. CASE agent.trackEpisodes
  <2>1. PICK first, N : /\ Building(s.EP, mdp, learner, first, N) /\ first + N = k
                        /\ (N = 0) <=> (k = 0 \/ statuses[k] >= LAST)
    BY <1>10 DEF Lived, mdp
  <2>2. N \in Nat /\ first \in Nat /\ first + N + 1 = t /\ first + (N + 1) = t /\ N + 1 # 0
        /\ t + 0 = t
    BY <2>1 DEF Building, t
  <2>3. NextCall(s1.told, mdp, first, N)
    BY <1>1, <1>4, <1>10, <2>1, <2>2 DEF NextCall
  <2>4. /\ status < LAST => Building(s1.EP, mdp, learner, first, N + 1) /\ answer.done = <<>>
        /\ ~(status < LAST) =>
             /\ s1.EP = Episode
             /\ \E EP1 : /\ Ready(EP1, mdp, learner.policyVecDim, N + 1)
                         /\ answer.done = <<computeReturnEstimator(EP1, re)>>
    <3> DEFINE told == s1.told
               EP == s.EP
               b == select(EP, mdp, learner, told, first + N + 1)
    <3>1. b = answer /\ told.agentStatus = status /\ s1.EP = answer.EP
      BY <1>4, <2>2 DEF answer
    <3>2. Building(EP, mdp, learner, first, N) /\ NextCall(told, mdp, first, N)
      BY <2>1, <2>3
    <3> HIDE DEF told, EP
    <3>3. /\ told.agentStatus < LAST =>
               Building(b.EP, mdp, learner, first, N + 1) /\ b.done = <<>>
          /\ ~(told.agentStatus < LAST) =>
               /\ b.EP = Episode
               /\ \E EP1 : /\ Ready(EP1, mdp, learner.policyVecDim, N + 1)
                           /\ b.done = <<computeReturnEstimator(EP1, learner.returnsEstimator)>>
      BY <1>2, <3>2, EpisodeGrows
    <3> HIDE DEF b
    <3> QED BY <3>1, <3>3
  <2>5. CASE status < LAST
    <3>1. s1.done = s.done
      <4> DEFINE d == s.done
      <4>1. s1.done = d \o <<>> /\ d \in Seq(V)
        BY <1>4, <1>5, <2>4, <2>5
      <4> HIDE DEF d
      <4>2. d \o <<>> = d
        BY <4>1
      <4> QED BY <4>1, <4>2 DEF d
    <3>2. Len(s1.done) = IF agent.trackEpisodes THEN Ends(statuses, t) ELSE 0
      BY <1>6, <1>7, <1>8, <2>5, <3>1
    <3>3. \E f, M : /\ Building(s1.EP, mdp, learner, f, M) /\ f + M = t
                    /\ (M = 0) <=> (t = 0 \/ statuses[t] >= LAST)
      <4>1. ~(statuses[t] >= LAST)
        BY <1>8, <2>5 DEF status, t
      <4> QED BY <1>1, <2>2, <2>4, <2>5, <4>1
    <3> QED BY <1>5, <1>6, <1>a, <3>1, <3>2, <3>3 DEF Lived, mdp, t, re
  <2>6. CASE ~(status < LAST)
    <3>1. PICK EP1 : /\ Ready(EP1, mdp, learner.policyVecDim, N + 1)
                     /\ answer.done = <<computeReturnEstimator(EP1, re)>>
      BY <2>4, <2>6
    <3> DEFINE E == computeReturnEstimator(EP1, re)
               L == Len(s.done)
               W == V \cup {E}
    <3>2. EpisodeKept(E, mdp, learner) /\ EpisodeKept(Trained(E, re), mdp, learner)
      <4>1. E = computeReturnEstimator(EP1, learner.returnsEstimator)
        OBVIOUS
      <4> HIDE DEF E
      <4>2. /\ EpisodeKept(E, mdp, learner)
            /\ EpisodeKept(Trained(E, learner.returnsEstimator), mdp, learner)
        BY <1>2, <3>1, <4>1, DoneIsKept
      <4> QED BY <4>2
    <3>a. s1.done = s.done \o <<E>>
      BY <1>4, <3>1
    <3> HIDE DEF E
    <3>3. /\ s1.done \in Seq(W) /\ Len(s1.done) = L + 1 /\ L \in Nat
          /\ (\A i \in 1 .. L : s1.done[i] = s.done[i]) /\ s1.done[L + 1] = E
      <4> DEFINE d == s.done
                 d1 == s1.done
      <4>1. d \in Seq(W) /\ E \in W /\ d1 = d \o <<E>> /\ L = Len(d)
        BY <1>5, <3>a
      <4> HIDE DEF d, d1, W, L
      <4>2. /\ d1 \in Seq(W) /\ Len(d1) = L + 1 /\ L \in Nat
            /\ (\A i \in 1 .. L : d1[i] = d[i]) /\ d1[L + 1] = E
        BY <4>1
      <4> QED BY <4>2 DEF d, d1
    <3>4. Len(s1.done) = IF agent.trackEpisodes THEN Ends(statuses, t) ELSE 0
      BY <1>6, <1>7, <1>8, <1>10, <2>6, <3>3
    <3>5. ASSUME NEW i \in 1 .. Len(s1.done)
          PROVE  /\ EpisodeKept(s1.done[i], mdp, learner)
                 /\ EpisodeKept(Trained(s1.done[i], re), mdp, learner)
      <4>1. CASE i \in 1 .. L
        BY <1>6, <3>3, <4>1
      <4>2. CASE i = L + 1
        BY <3>2, <3>3, <4>2
      <4>3. i \in 1 .. L \/ i = L + 1
        <5> HIDE DEF L
        <5> QED BY <3>3
      <4> QED BY <4>1, <4>2, <4>3
    <3>6. \E f, M : /\ Building(s1.EP, mdp, learner, f, M) /\ f + M = t
                    /\ (M = 0) <=> (t = 0 \/ statuses[t] >= LAST)
      <4>1. statuses[t] >= LAST
        BY <1>8, <2>6 DEF status, t
      <4>2. Building(s1.EP, mdp, learner, t, 0)
        BY <1>1, <2>4, <2>6, EpisodeBegins
      <4> QED BY <2>2, <4>1, <4>2
    <3>7. \E X : s1.done \in Seq(X)
      BY <3>3
    <3> HIDE DEF W, L
    <3> QED BY <1>a, <3>4, <3>5, <3>6, <3>7 DEF Lived, mdp, t, re
  <2> QED BY <2>5, <2>6
<1> QED BY <1>2, <1>9, <1>10

\* Whatever the length of a life, the number of its episodes and that of the components of
\* its states and actions, the agent of the master follows that of the application, and the
\* episodes are kept as they were played (Worker::answerStateAction).
THEOREM LivesKept ==
  ASSUME NEW agent, AgentGiven(agent), NEW learner \in Learners, NEW n, NEW statuses,
         Life(statuses, n), n # 0
  PROVE  LifeKept(agent, learner, statuses)
<1>1. n \in Nat /\ statuses \in [1 .. n -> Int] /\ DOMAIN statuses = 1 .. n /\ Len(statuses) = n
  <2>1. n \in Nat /\ statuses \in [1 .. n -> 0 .. 3]
    BY DEF Life
  <2> QED BY <2>1
<1>2. PICK c : Calls(c, n, agent, learner, statuses)
  BY <1>1, PlayedIs
<1> DEFINE I(k) == k \in 0 .. n => Lived(c[k], agent, learner, statuses, k)
<1>3. I(0)
  BY <1>2, LifeBegins DEF Calls
<1>4. ASSUME NEW k \in Nat, I(k) PROVE I(k + 1)
  <2> SUFFICES ASSUME k + 1 \in 0 .. n PROVE Lived(c[k + 1], agent, learner, statuses, k + 1)
    OBVIOUS
  <2>1. k \in 0 .. n /\ k \in 0 .. n - 1 /\ k + 1 \in 1 .. n /\ (k + 1) - 1 = k
    BY <1>1
  <2>2. Lived(c[k], agent, learner, statuses, k)
    BY <1>4, <2>1
  <2>3. c[k + 1] = Step(c[k], agent.MDP, learner, statuses[k + 1], k + 1)
    BY <1>2, <2>1 DEF Calls
  <2> DEFINE s == c[k]
             s1 == c[k + 1]
  <2>4. Lived(s, agent, learner, statuses, k) /\ s1 = Step(s, agent.MDP, learner, statuses[k + 1], k + 1)
    BY <2>2, <2>3
  <2> HIDE DEF s, s1
  <2>5. Lived(s1, agent, learner, statuses, k + 1)
    BY <2>1, <2>4, LifeGoesOn
  <2> QED BY <2>5 DEF s1
<1>5. \A k \in Nat : I(k)
  <2> HIDE DEF I
  <2> DEFINE A == {k \in Nat : I(k)}
  <2>1. 0 \in A /\ \A k \in A : k + 1 \in A
    BY <1>3, <1>4
  <2>2. A \in SUBSET Nat
    OBVIOUS
  <2>3. A = Nat
    <3> HIDE DEF A
    <3> QED BY <2>1, <2>2, UpFromZero
  <2> QED BY <2>3
<1> DEFINE s == Played(agent, learner, statuses)
<1>6. Lived(s, agent, learner, statuses, n)
  BY <1>1, <1>2, <1>5 DEF Calls
<1> HIDE DEF s
<1>7. /\ AgentFollows(s) /\ s.app.agentStatus = statuses[n]
      /\ statuses[n] >= LAST /\ agent.trackEpisodes =>
           s.app.learnerAvgCumulativeReward = AvgCumulativeReward(n)
      /\ Len(s.done) = IF agent.trackEpisodes THEN Ends(statuses, n) ELSE 0
  BY <1>6 DEF Lived
<1>8. Ends(statuses, n) = Cardinality({t \in DOMAIN statuses : statuses[t] >= LAST})
  BY <1>1 DEF Ends
<1>9. ASSUME NEW k \in DOMAIN s.done,
             NEW EP \in {s.done[k], Trained(s.done[k], learner.returnsEstimator)}
      PROVE  EpisodeKept(EP, agent.MDP, learner)
  <2>1. PICK V : s.done \in Seq(V)
    BY <1>6 DEF Lived
  <2>2. k \in 1 .. Len(s.done)
    BY <2>1
  <2> QED BY <1>6, <2>2 DEF Lived
<1> QED BY <1>1, <1>7, <1>8, <1>9 DEF LifeKept, EpisodeKept, s

\* The lives that are played.
LEMMA LivesAre ==
  ASSUME NEW statuses \in {<<INIT, TERM>>, <<INIT, CONT, TERM, INIT, CONT>>,
                           <<INIT, LAST, INIT, CONT, LAST>>}
  PROVE  \E n : Life(statuses, n) /\ n # 0
<1> USE DEF INIT, CONT, LAST, TERM
<1>1. CASE statuses = <<INIT, TERM>>
  <2>1. statuses \in [1 .. 2 -> 0 .. 3] /\ statuses[1] = 0 /\ statuses[2] = 3
    BY <1>1
  <2>2. \A k \in 1 .. 2 : k = 1 \/ k = 2
    OBVIOUS
  <2>3. Life(statuses, 2)
    BY <2>1, <2>2 DEF Life
  <2> QED BY <2>3
<1>2. CASE statuses = <<INIT, CONT, TERM, INIT, CONT>>
  <2>1. statuses \in [1 .. 5 -> 0 .. 3] /\ statuses[1] = 0 /\ statuses[2] = 1 /\ statuses[3] = 3
        /\ statuses[4] = 0 /\ statuses[5] = 1
    BY <1>2
  <2>2. \A k \in 1 .. 5 : k = 1 \/ k = 2 \/ k = 3 \/ k = 4 \/ k = 5
    OBVIOUS
  <2>3. Life(statuses, 5)
    BY <2>1, <2>2 DEF Life
  <2> QED BY <2>3
<1>3. CASE statuses = <<INIT, LAST, INIT, CONT, LAST>>
  <2>1. statuses \in [1 .. 5 -> 0 .. 3] /\ statuses[1] = 0 /\ statuses[2] = 2 /\ statuses[3] = 0
        /\ statuses[4] = 1 /\ statuses[5] = 2
    BY <1>3
  <2>2. \A k \in 1 .. 5 : k = 1 \/ k = 2 \/ k = 3 \/ k = 4 \/ k = 5
    OBVIOUS
  <2>3. Life(statuses, 5)
    BY <2>1, <2>2 DEF Life
  <2> QED BY <2>3
<1> QED BY <1>1, <1>2, <1>3
==============================================================================
