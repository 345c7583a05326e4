---------------------------- MODULE Startup_proofs ----------------------------
(***************************************************************************)
(* Proofs about how a run comes up.  RankSetup: for any numbers of masters *)
(* and workers the ranks split the world into groups with one master each, *)
(* since the ranks of a group are counted up from its master and end where *)
(* the next one begins; and the ranks of a team look for their directory   *)
(* in the same order and wait for each other before it is made.            *)
(* A master that gets to run has the problem that the application gave,    *)
(* for any arrangement and any calls: what each rank has of a field is     *)
(* what the application had when it was at that field.  The spaces that it *)
(* is told of are ones an agent can act in, so that it keeps the episodes  *)
(* that the application played (Episodes_proofs).                          *)
(* Checkpoint: what a run has saved is what the next one restarts from,    *)
(* for any number of threads that push, of saves and of crashes.           *)
(***************************************************************************)
EXTENDS RankSetup, Checkpoint, Episodes_proofs, FiniteSums, SequenceTheorems, TLAPS

------------------------------------------------------------------------------
(* Ranks and their groups                                                  *)

LEMMA WholeShares ==
  ASSUME NEW n \in Nat, NEW u \in Nat \ {0}
  PROVE  (n + u - 1) \div u \in Nat /\ u * ((n + u - 1) \div u) >= n
OBVIOUS

LEMMA LesserOfTwo ==
  ASSUME NEW a \in Int, NEW b \in Int
  PROVE  Min({a, b}) = IF a <= b THEN a ELSE b
<1>1. CASE a <= b
  <2> (CHOOSE x \in {a, b} : \A y \in {a, b} : x <= y) = a
    BY <1>1
  <2> QED BY <1>1 DEF Min
<1>2. CASE b < a
  <2> (CHOOSE x \in {a, b} : \A y \in {a, b} : x <= y) = b
    BY <1>2
  <2> QED BY <1>2 DEF Min
<1> QED BY <1>1, <1>2

\* What the code divides up: workers, among masters that there are.
Divided == shape.nMasters \in Nat \ {0} /\ shape.nWorkers \in Nat

Share == CeilDiv(shape.nWorkers, shape.nMasters)

\* Workers in the groups before the i-th.
WorkersBefore(i) == IF i * Share <= shape.nWorkers THEN i * Share ELSE shape.nWorkers

\* Lowest rank of the i-th group.
FirstRank(i) == WorkersBefore(i) + i

Groups == 0 .. shape.nMasters - 1

\* The shares are enough for all workers.
LEMMA ShareIsEnough ==
  ASSUME Divided
  PROVE  Share \in Nat /\ shape.nMasters * Share >= shape.nWorkers
BY WholeShares DEF Divided, Share, CeilDiv

LEMMA FirstRanks ==
  ASSUME Divided
  PROVE  /\ \A i \in Nat : WorkersBefore(i) \in Nat /\ FirstRank(i) \in Nat
         /\ \A i \in Nat : FirstRank(i) < FirstRank(i + 1)
         /\ FirstRank(0) = 0
         /\ FirstRank(shape.nMasters) = shape.nMasters + shape.nWorkers
<1> DEFINE W == shape.nWorkers
           M == shape.nMasters
<1>1. Share \in Nat /\ M * Share >= W /\ W \in Nat /\ M \in Nat
  BY ShareIsEnough DEF Divided
<1>2. \A i \in Nat : i * Share \in Nat /\ (i + 1) * Share = i * Share + Share
  BY <1>1
<1>3. \A i \in Nat : WorkersBefore(i) \in Nat
  BY <1>1, <1>2 DEF WorkersBefore
<1>4. \A i \in Nat : WorkersBefore(i) <= WorkersBefore(i + 1)
  <2> SUFFICES ASSUME NEW i \in Nat PROVE WorkersBefore(i) <= WorkersBefore(i + 1)
    OBVIOUS
  <2> DEFINE p == i * Share
             q == (i + 1) * Share
  <2>1. p \in Nat /\ q = p + Share
    BY <1>2
  <2> HIDE DEF p, q
  <2>2. (IF p <= W THEN p ELSE W) <= (IF q <= W THEN q ELSE W)
    BY <2>1, <1>1
  <2> QED BY <2>2 DEF WorkersBefore, p, q
<1>5. WorkersBefore(0) = 0
  BY <1>1 DEF WorkersBefore
<1>6. WorkersBefore(M) = W
  <2>1. M * Share \in Nat
    BY <1>1
  <2> QED BY <1>1, <2>1 DEF WorkersBefore
<1> HIDE DEF W, M
<1>7. \A i \in Nat : FirstRank(i) \in Nat /\ FirstRank(i) < FirstRank(i + 1)
  <2> SUFFICES ASSUME NEW i \in Nat PROVE FirstRank(i) \in Nat /\ FirstRank(i) < FirstRank(i + 1)
    OBVIOUS
  <2>1. /\ WorkersBefore(i) \in Nat /\ WorkersBefore(i + 1) \in Nat
        /\ WorkersBefore(i) <= WorkersBefore(i + 1)
    BY <1>3, <1>4
  <2> QED BY <2>1 DEF FirstRank
<1>8. FirstRank(0) = 0
  BY <1>5 DEF FirstRank
<1>9. FirstRank(M) = M + W
  BY <1>1, <1>6 DEF FirstRank
<1> QED BY <1>3, <1>7, <1>8, <1>9 DEF M, W

LEMMA FirstRanksGrow ==
  ASSUME Divided, NEW i \in Nat, NEW j \in Nat, i < j
  PROVE  FirstRank(i) < FirstRank(j)
<1> DEFINE D == {d \in Nat : FirstRank(i) < FirstRank(i + 1 + d)}
<1>1. 0 \in D
  BY FirstRanks
<1>2. ASSUME NEW d \in D PROVE d + 1 \in D
  <2>1. i + 1 + d \in Nat /\ (i + 1 + d) + 1 = i + 1 + (d + 1) /\ d + 1 \in Nat
    OBVIOUS
  <2>2. FirstRank(i + 1 + d) < FirstRank((i + 1 + d) + 1)
    BY <2>1, FirstRanks
  <2>3. FirstRank(i) \in Nat /\ FirstRank(i + 1 + d) \in Nat /\ FirstRank((i + 1 + d) + 1) \in Nat
    BY <2>1, FirstRanks
  <2>4. FirstRank(i) < FirstRank(i + 1 + d)
    OBVIOUS
  <2>5. FirstRank(i) < FirstRank((i + 1 + d) + 1)
    BY <2>2, <2>3, <2>4
  <2> QED BY <2>1, <2>5
<1>3. D \in SUBSET Nat
  OBVIOUS
<1> HIDE DEF D
<1>4. D = Nat
  BY <1>1, <1>2, <1>3, UpFromZero
<1>5. j - (i + 1) \in D /\ i + 1 + (j - (i + 1)) = j
  BY <1>4
<1> QED BY <1>5 DEF D

LEMMA GroupSizes ==
  ASSUME Divided, NEW i \in Nat
  PROVE  nInGroup(i) = WorkersBefore(i + 1) - WorkersBefore(i)
<1>1. Share \in Nat /\ shape.nWorkers \in Nat
  BY ShareIsEnough DEF Divided
<1>2. i * Share \in Int /\ (i + 1) * Share \in Int /\ shape.nWorkers \in Int
  BY <1>1
<1>3. /\ Min({(i + 1) * Share, shape.nWorkers}) = WorkersBefore(i + 1)
      /\ Min({i * Share, shape.nWorkers}) = WorkersBefore(i)
  BY <1>2, LesserOfTwo DEF WorkersBefore
<1> QED BY <1>3 DEF nInGroup, notRoundedSplitting, Share

GroupRanks(n) == [j \in 0 .. n - 1 |-> nInGroup(j) + 1]

LEMMA CountIsSum ==
  ASSUME Divided, NEW n \in Nat
  PROVE  /\ GroupRanks(n) \in [0 .. n - 1 -> Int]
         /\ countIndex(n) = SumOf(GroupRanks(n), 0 .. n - 1)
<1> DEFINE S == 0 .. n - 1
           f == GroupRanks(n)
           Def(iter) == iter = [s \in SUBSET S |-> IF s = {} THEN 0
               ELSE nInGroup(AnyOf(s)) + 1 + iter[s \ {AnyOf(s)}]]
<1>1. countIndex(n) = (CHOOSE iter : Def(iter))[S]
  BY DEF countIndex, MapThenSumSet, MapThenFoldSet, AnyOf
<1>2. ASSUME NEW iter PROVE Def(iter) <=> Adds(iter, f, S)
  <2>1. \A s \in SUBSET S : s # {} => f[AnyOf(s)] = nInGroup(AnyOf(s)) + 1
    BY AnyFacts DEF GroupRanks
  <2> HIDE DEF f, S
  <2> QED BY <2>1 DEF Adds
<1>3. IsFiniteSet(S) /\ f \in [S -> Int]
  <2>1. \A j \in S : nInGroup(j) + 1 \in Int
    <3> SUFFICES ASSUME NEW j \in S PROVE nInGroup(j) + 1 \in Int
      OBVIOUS
    <3>1. j \in Nat /\ j + 1 \in Nat
      OBVIOUS
    <3>2. WorkersBefore(j + 1) \in Nat /\ WorkersBefore(j) \in Nat
      BY <3>1, FirstRanks
    <3> QED BY <3>1, <3>2, GroupSizes
  <2>2. IsFiniteSet(S)
    BY FS_Interval
  <2> QED BY <2>1, <2>2 DEF GroupRanks
<1> HIDE DEF f, Def
<1>4. Adds(CHOOSE iter : Def(iter), f, S)
  BY <1>2, <1>3, AddsExists
<1>5. SumOf(f, S) = (CHOOSE iter : Def(iter))[S]
  BY <1>3, <1>4, SumIs
<1> QED BY <1>1, <1>3, <1>5 DEF f

\* The groups follow each other: what is counted is the lowest rank of each.
LEMMA CountedUp ==
  ASSUME Divided, NEW n \in Nat
  PROVE  countIndex(n) = FirstRank(n)
<1> DEFINE f == GroupRanks(n)
           S == 0 .. n - 1
           N == {k \in Nat : k <= n => SumOf(f, 0 .. k - 1) = FirstRank(k)}
<1>1. IsFiniteSet(S) /\ f \in [S -> Int]
  BY CountIsSum, FS_Interval
<1>2. Summed(f, S)
  BY <1>1, OneMore
<1>3. 0 \in N
  <2>1. 0 .. 0 - 1 = {} /\ FirstRank(0) = 0
    BY FirstRanks
  <2> QED BY <1>2, <2>1 DEF Summed
<1>4. ASSUME NEW k \in N PROVE k + 1 \in N
  <2> SUFFICES ASSUME k + 1 <= n PROVE SumOf(f, 0 .. (k + 1) - 1) = FirstRank(k + 1)
    OBVIOUS
  <2>1. k \in Nat /\ k + 1 \in Nat /\ k \in S \ (0 .. k - 1) /\ 0 .. k - 1 \in SUBSET S
        /\ 0 .. (k + 1) - 1 = (0 .. k - 1) \cup {k}
    OBVIOUS
  <2> DEFINE T == 0 .. k - 1
  <2>a. T \in SUBSET S /\ k \in S \ T /\ 0 .. (k + 1) - 1 = T \cup {k}
    BY <2>1
  <2> HIDE DEF T, S, f
  <2>b. SumOf(f, T \cup {k}) = f[k] + SumOf(f, T)
    BY <1>2, <2>a DEF Summed
  <2>2. SumOf(f, 0 .. (k + 1) - 1) = f[k] + SumOf(f, 0 .. k - 1)
    BY <2>a, <2>b DEF T
  <2>3. SumOf(f, 0 .. k - 1) = WorkersBefore(k) + k
    BY DEF FirstRank
  <2>4. f[k] = WorkersBefore(k + 1) - WorkersBefore(k) + 1
    BY <2>1, GroupSizes DEF GroupRanks, f, S
  <2>5. WorkersBefore(k) \in Nat /\ WorkersBefore(k + 1) \in Nat
    BY <2>1, FirstRanks
  <2> QED BY <2>1, <2>2, <2>3, <2>4, <2>5 DEF FirstRank
<1>5. N \in SUBSET Nat
  OBVIOUS
<1> HIDE DEF N
<1>6. N = Nat
  BY <1>3, <1>4, <1>5, UpFromZero
<1>7. SumOf(f, 0 .. n - 1) = FirstRank(n)
  BY <1>6 DEF N
<1> QED BY <1>7, CountIsSum

LEMMA GroupOf ==
  ASSUME Divided, NEW r \in World
  PROVE  LET i == indxStripedMPISplitting(r) IN
         /\ i \in Groups /\ FirstRank(i) <= r /\ r < FirstRank(i + 1)
         /\ FirstRank(i) \in World /\ rankStripedMPISplitting(r) = r - FirstRank(i)
<1> DEFINE N == {i \in Groups : r < countIndex(i + 1)}
<1>1. \A i \in Groups : i \in Nat /\ i + 1 \in Nat /\ countIndex(i + 1) = FirstRank(i + 1)
                        /\ countIndex(i) = FirstRank(i)
  <2> SUFFICES ASSUME NEW i \in Groups
               PROVE  i \in Nat /\ i + 1 \in Nat /\ countIndex(i + 1) = FirstRank(i + 1)
                        /\ countIndex(i) = FirstRank(i)
    OBVIOUS
  <2>1. i \in Nat /\ i + 1 \in Nat
    BY DEF Groups
  <2> QED BY <2>1, CountedUp
<1>2. shape.nMasters - 1 \in N
  <2>1. shape.nMasters - 1 \in Groups /\ shape.nMasters - 1 + 1 = shape.nMasters
    BY DEF Groups, Divided
  <2>2. r < FirstRank(shape.nMasters)
    BY FirstRanks DEF World, Divided
  <2> QED BY <1>1, <2>1, <2>2
<1>3. N \in SUBSET Nat /\ N # {}
  BY <1>1, <1>2
<1>4. PICK n \in N : \A m \in N : n <= m
  BY <1>3, Least
<1>5. indxStripedMPISplitting(r) = n
  <2>1. \A x \in N : (\A y \in N : x =< y) => x = n
    BY <1>3, <1>4
  <2>2. (CHOOSE x \in N : \A y \in N : x =< y) = n
    BY <1>4, <2>1, Zenon
  <2> QED BY <2>2 DEF indxStripedMPISplitting, Min, Groups
<1>6. n \in Groups /\ n \in Nat /\ r < FirstRank(n + 1) /\ countIndex(n) = FirstRank(n)
  BY <1>1
<1> HIDE DEF N
<1>7. FirstRank(n) <= r
  <2>1. CASE n = 0
    BY <2>1, FirstRanks DEF World
  <2>2. CASE n > 0
    <3>1. n - 1 \in Groups /\ (n - 1) + 1 = n
      BY <1>6, <2>2 DEF Groups, Divided
    <3>a. n - 1 \notin N
      <4> SUFFICES ASSUME n - 1 \in N PROVE FALSE
        OBVIOUS
      <4>1. n <= n - 1
        BY <1>4
      <4> QED BY <1>6, <4>1
    <3>b. ~(r < countIndex((n - 1) + 1))
      BY <3>1, <3>a DEF N
    <3>2. ~(r < FirstRank(n))
      BY <1>1, <3>1, <3>b
    <3>3. FirstRank(n) \in Nat /\ r \in Int
      BY <1>6, FirstRanks DEF World
    <3> QED BY <3>2, <3>3
  <2> QED BY <1>6, <2>1, <2>2
<1>8. FirstRank(n) \in World
  <2>1. FirstRank(n) \in Nat /\ r \in 0 .. shape.nMasters + shape.nWorkers - 1
    BY <1>6, FirstRanks DEF World
  <2> QED BY <1>7, <2>1 DEF World, Divided
<1> QED BY <1>5, <1>6, <1>7, <1>8 DEF rankStripedMPISplitting

\* Ranges of different groups do not meet.
LEMMA OneGroup ==
  ASSUME Divided, NEW r \in World, NEW i \in Groups, FirstRank(i) <= r, r < FirstRank(i + 1)
  PROVE  indxStripedMPISplitting(r) = i
<1> DEFINE j == indxStripedMPISplitting(r)
<1>1. j \in Groups /\ FirstRank(j) <= r /\ r < FirstRank(j + 1)
  BY GroupOf
<1> HIDE DEF j
<1>2. i \in Nat /\ j \in Nat /\ r \in Int /\ i + 1 \in Nat /\ j + 1 \in Nat
  BY <1>1 DEF Groups, World
<1>3. \A a \in Nat, b \in Nat : a <= b => FirstRank(a) <= FirstRank(b)
  <2> SUFFICES ASSUME NEW a \in Nat, NEW b \in Nat, a <= b PROVE FirstRank(a) <= FirstRank(b)
    OBVIOUS
  <2>1. FirstRank(a) \in Nat /\ FirstRank(b) \in Nat
    BY FirstRanks
  <2>2. a < b => FirstRank(a) < FirstRank(b)
    BY FirstRanksGrow
  <2>3. a < b \/ a = b
    OBVIOUS
  <2> QED BY <2>1, <2>2, <2>3
<1>4. /\ FirstRank(i) \in Nat /\ FirstRank(j) \in Nat
      /\ FirstRank(i + 1) \in Nat /\ FirstRank(j + 1) \in Nat
  BY <1>2, FirstRanks
<1>5. ~(i < j)
  <2> SUFFICES ASSUME i < j PROVE FALSE
    OBVIOUS
  <2>1. FirstRank(i + 1) <= FirstRank(j)
    BY <1>2, <1>3
  <2> QED BY <1>1, <1>2, <1>4, <2>1
<1>6. ~(j < i)
  <2> SUFFICES ASSUME j < i PROVE FALSE
    OBVIOUS
  <2>1. FirstRank(j + 1) <= FirstRank(i)
    BY <1>2, <1>3
  <2> QED BY <1>1, <1>2, <1>4, <2>1
<1> QED BY <1>2, <1>5, <1>6 DEF j

\* The lowest rank of each group, and it alone, has rank 0 in it.
Striped(r) == rankStripedMPISplitting(r) = 0

LEMMA StripedRanks ==
  ASSUME Divided
  PROVE  /\ \A r \in World : Striped(r) <=> r = FirstRank(indxStripedMPISplitting(r))
         /\ \A i \in Groups : /\ FirstRank(i) \in World
                              /\ indxStripedMPISplitting(FirstRank(i)) = i
<1>1. ASSUME NEW r \in World PROVE Striped(r) <=> r = FirstRank(indxStripedMPISplitting(r))
  <2>1. /\ FirstRank(indxStripedMPISplitting(r)) \in World
        /\ rankStripedMPISplitting(r) = r - FirstRank(indxStripedMPISplitting(r))
    BY GroupOf
  <2> QED BY <2>1 DEF Striped, World
<1>2. ASSUME NEW i \in Groups
      PROVE  FirstRank(i) \in World /\ indxStripedMPISplitting(FirstRank(i)) = i
  <2>1. i \in Nat /\ shape.nMasters \in Nat /\ i < shape.nMasters
    BY DEF Groups, Divided
  <2>2. /\ FirstRank(i) < FirstRank(shape.nMasters) /\ FirstRank(i) < FirstRank(i + 1)
        /\ FirstRank(i) \in Nat /\ FirstRank(shape.nMasters) = shape.nMasters + shape.nWorkers
    BY <2>1, FirstRanksGrow, FirstRanks
  <2>3. FirstRank(i) \in World /\ FirstRank(i) <= FirstRank(i)
    BY <2>2 DEF World, Divided
  <2> QED BY <2>2, <2>3, OneGroup
<1> QED BY <1>1, <1>2

LEMMA StripedIs ==
  ASSUME Divided, NEW r \in World
  PROVE  Striped(r) <=> \E i \in Groups : r = FirstRank(i)
BY StripedRanks, GroupOf

LEMMA WorldIsFinite ==
  ASSUME Divided
  PROVE  IsFiniteSet(World) /\ IsFiniteSet(Groups)
<1>1. shape.nMasters + shape.nWorkers - 1 \in Int /\ shape.nMasters - 1 \in Int /\ 0 \in Int
  BY DEF Divided
<1> QED BY <1>1, FS_Interval DEF World, Groups

\* What the two splits come to: B are the masters, and G the groups.
LEMMA SplitsRight ==
  ASSUME Divided,
         NEW B, \A r \in World : B[r] <=> Striped(r),
         NEW G, \A r \in World :
                  G[r] = {s \in World : indxStripedMPISplitting(s) = indxStripedMPISplitting(r)}
  PROVE  /\ \A r \in World : B[r] <=> RankIn(G[r], r) = 0
         /\ Cardinality({s \in World : B[s]}) = shape.nMasters
         /\ shape.nMasters = 1 => \A r \in World : G[r] = World
<1> DEFINE F == [i \in Groups |-> FirstRank(i)]
           masters == {s \in World : B[s]}
<1>1. Divided
  OBVIOUS
<1>2. ASSUME NEW r \in World
      PROVE  B[r] <=> RankIn(G[r], r) = 0
  <2> DEFINE i == indxStripedMPISplitting(r)
             below == {s \in G[r] : s < r}
  <2>1. i \in Groups /\ FirstRank(i) <= r /\ FirstRank(i) \in World
    BY <1>1, GroupOf
  <2>2. B[r] <=> r = FirstRank(i)
    BY <1>1, StripedRanks
  <2>3. IsFiniteSet(below)
    <3>1. below \subseteq World
      OBVIOUS
    <3> QED BY <1>1, <3>1, WorldIsFinite, FS_Subset
  <2>4. below = {} <=> r = FirstRank(i)
    <3>1. ASSUME r # FirstRank(i) PROVE FirstRank(i) \in below
      <4>1. FirstRank(i) < r
        BY <2>1, <3>1 DEF World
      <4>2. indxStripedMPISplitting(FirstRank(i)) = i
        BY <1>1, <2>1, StripedRanks
      <4> QED BY <2>1, <4>1, <4>2
    <3>2. ASSUME r = FirstRank(i), NEW s \in below PROVE FALSE
      <4>1. s \in World /\ s < r /\ indxStripedMPISplitting(s) = i
        OBVIOUS
      <4>2. FirstRank(i) <= s
        BY <1>1, <4>1, GroupOf
      <4> QED BY <2>1, <3>2, <4>1, <4>2 DEF World
    <3> QED BY <3>1, <3>2
  <2>5. below = {} <=> Cardinality(below) = 0
    BY <2>3, FS_EmptySet
  <2> QED BY <2>2, <2>4, <2>5 DEF RankIn
<1>3. Cardinality(masters) = shape.nMasters
  <2>1. F \in Bijection(Groups, masters)
    <3>1. \A i \in Groups : F[i] \in masters
      BY <1>1, StripedRanks
    <3>2. \A i, j \in Groups : F[i] = F[j] => i = j
      <4> SUFFICES ASSUME NEW i \in Groups, NEW j \in Groups, FirstRank(i) = FirstRank(j)
                   PROVE  i = j
        OBVIOUS
      <4> QED BY <1>1, StripedRanks
    <3>3. ASSUME NEW s \in masters PROVE \E i \in Groups : F[i] = s
      <4>1. s = FirstRank(indxStripedMPISplitting(s)) /\ indxStripedMPISplitting(s) \in Groups
        BY <1>1, StripedRanks, GroupOf
      <4> QED BY <4>1
    <3> HIDE DEF F, masters
    <3>4. F \in [Groups -> masters]
      BY <3>1 DEF F
    <3> QED BY <3>1, <3>2, <3>3, <3>4 DEF Bijection, Injection, Surjection, IsInjective
  <2>2. Cardinality(Groups) = Cardinality(masters)
    <3>1. IsFiniteSet(Groups) /\ ExistsBijection(Groups, masters)
      BY <1>1, <2>1, WorldIsFinite DEF ExistsBijection
    <3> QED BY <3>1, FS_Bijection
  <2>3. Cardinality(Groups) = shape.nMasters
    <3>1. /\ 0 \in Int /\ shape.nMasters - 1 \in Int /\ ~(0 > shape.nMasters - 1)
          /\ (shape.nMasters - 1) - 0 + 1 = shape.nMasters
      BY <1>1 DEF Divided
    <3> QED BY <3>1, FS_Interval DEF Groups
  <2> QED BY <2>2, <2>3
<1>4. ASSUME shape.nMasters = 1, NEW r \in World PROVE G[r] = World
  <2>1. \A s \in World : indxStripedMPISplitting(s) = 0
    <3> SUFFICES ASSUME NEW s \in World PROVE indxStripedMPISplitting(s) = 0
      OBVIOUS
    <3>1. indxStripedMPISplitting(s) \in Groups
      BY <1>1, GroupOf
    <3> QED BY <1>4, <3>1 DEF Groups
  <2> QED BY <2>1
<1> QED BY <1>2, <1>3, <1>4

Early == {"figure", "learners", "workers"}
AtDirs == {"launch", "barrier", "made"}

\* What the ranks agree on when they have split the world.
Grouped ==
  /\ \A r \in World : bIsMaster[r] <=> RankIn(master_workers_comm[r], r) = 0
  /\ Cardinality({s \in World : bIsMaster[s]}) = shape.nMasters
  /\ shape.nMasters = 1 => \A r \in World : master_workers_comm[r] = World

\* Before that no rank has a group, and the first split has found the masters.
GroupsInv ==
  /\ shape \in Shapes
  /\ pc \in [World -> PCs]
  /\ \A r \in World : pc[r] \in Early => \A s \in World : master_workers_comm[s] = {}
  /\ \A r \in World : pc[r] \in {"learners", "workers"} => Divided /\ shape.nWorkers > 0
  /\ \A r \in World : pc[r] = "workers" =>
       \A s \in World : bIsMaster[s] <=> \E i \in Groups : s = FirstRank(i)
  /\ Grouped \/ \A s \in World : master_workers_comm[s] = {}
  /\ \A r \in World : shape.nWorkers > 0 /\ pc[r] \notin Early \cup {"died"} => Grouped
  /\ \A r \in World : pc[r] = "env" => shape.nWorkers > 0

\* Most steps leave the communicators and the directories alone, and ranks that are
\* neither still to be arranged nor at their directory remain so.
Onward ==
  /\ UNCHANGED <<shape, bIsMaster, master_workers_comm, environment_app_comm, dirVars>>
  /\ pc' \in [World -> PCs]
  /\ \A r \in World : pc'[r] # pc[r] =>
       /\ pc[r] \notin Early \cup AtDirs \cup {"died"}
       /\ pc'[r] \notin Early \cup AtDirs
       /\ pc'[r] = "env" => bIsMaster[r] /\ shape.nWorkers > 0

LEMMA ArrangedIs ==
  ASSUME NEW r
  PROVE  /\ Arranged(r) \in {"env", "fork", "recv"}
         /\ Arranged(r) = "env" => shape.nWorkers > 0
BY DEF Arranged

LEMMA OneRankOnward ==
  ASSUME pc \in [World -> PCs], NEW r \in World, NEW to \in PCs \ (Early \cup AtDirs \cup {"env"}),
         pc[r] \notin Early \cup AtDirs \cup {"died"}, pc' = [pc EXCEPT ![r] = to],
         UNCHANGED <<shape, bIsMaster, master_workers_comm, environment_app_comm, dirVars>>
  PROVE  Onward
BY DEF Onward

LEMMA SameOnward ==
  ASSUME pc \in [World -> PCs], UNCHANGED pc,
         UNCHANGED <<shape, bIsMaster, master_workers_comm, environment_app_comm, dirVars>>
  PROVE  Onward
BY DEF Onward

LEMMA LeaveOnward ==
  ASSUME pc \in [World -> PCs], NEW done,
         \A r \in done \cap World : pc[r] \in {"send", "relay", "recv"},
         NEW e, NEW h, NEW got, Leave(done, e, h, got),
         UNCHANGED <<shape, bIsMaster, master_workers_comm, environment_app_comm, dirVars>>
  PROVE  Onward
<1>1. PICK left : pc' = [r \in World |-> IF r \notin done THEN pc[r]
                              ELSE IF left[r].died THEN "died"
                              ELSE IF step[r] = nFields(left[r]) THEN "running"
                              ELSE Begin(r)]
  BY SMTT(30) DEF Leave
<1>2. \A r : Begin(r) \in {"send", "recv"}
  BY DEF Begin
<1>3. \A r \in World : pc'[r] = pc[r] \/ (r \in done /\ pc'[r] \in {"died", "running", "send", "recv"})
  BY <1>1, <1>2
<1>4. pc' \in [World -> PCs]
  <2>1. \A r \in World : pc'[r] \in PCs
    BY <1>3 DEF PCs
  <2> QED BY <1>1, <2>1
<1> QED BY <1>3, <1>4 DEF Onward, Early, AtDirs

LEMMA ForkOnward ==
  ASSUME pc \in [World -> PCs], NEW r \in World,
         \/ WorkersDie(r) \/ Fork(r) \/ Bind(r) \/ SOCKET_clientConnect(r)
         \/ SOCKET_serverConnect(r) \/ HostRecv(r)
  PROVE  Onward
<1> USE DEF PCs, Early, AtDirs, comms, dirVars, unchangedBySync
<1>1. CASE WorkersDie(r)
  BY <1>1, OneRankOnward DEF WorkersDie
<1>2. CASE Fork(r)
  BY <1>2, OneRankOnward DEF Fork
<1>3. CASE Bind(r)
  BY <1>3, OneRankOnward DEF Bind
<1>4. CASE SOCKET_clientConnect(r)
  BY <1>4, SameOnward DEF SOCKET_clientConnect
<1>5. CASE SOCKET_serverConnect(r)
  BY <1>5, OneRankOnward DEF SOCKET_serverConnect
<1>6. CASE HostRecv(r)
  <2>1. pc[r] = "recv" /\ \E to \in {"died", "relay", "send"} : pc' = [pc EXCEPT ![r] = to]
    BY <1>6 DEF HostRecv
  <2>2. UNCHANGED <<shape, bIsMaster, master_workers_comm, environment_app_comm, dirVars>>
    BY <1>6 DEF HostRecv
  <2> QED BY <2>1, <2>2, OneRankOnward
<1> QED BY <1>1, <1>2, <1>3, <1>4, <1>5, <1>6

LEMMA DescriptionOnward ==
  ASSUME pc \in [World -> PCs], NEW r \in World,
         \/ MasterRecv(r) \/ MasterHeard(r) \/ RelayRefused(r) \/ RelaySend(r) \/ RelayNone(r)
  PROVE  Onward
<1> USE DEF PCs, Early, AtDirs, comms, dirVars, unchangedBySync
<1>1. CASE MasterRecv(r)
  <2>0. UNCHANGED <<shape, bIsMaster, master_workers_comm, environment_app_comm, dirVars>>
    BY <1>1 DEF MasterRecv
  <2>1. PICK w \in master_workers_comm[r] :
          /\ pc[w] = "send" /\ pc[r] = "recv"
          /\ \/ pc' = [pc EXCEPT ![r] = "died"]
             \/ \E e, h, got : Leave({w}, e, h, got)
    BY <1>1 DEF MasterRecv
  <2>2. CASE pc' = [pc EXCEPT ![r] = "died"]
    BY <2>0, <2>1, <2>2, OneRankOnward
  <2>3. CASE \E e, h, got : Leave({w}, e, h, got)
    <3>1. PICK e, h, got : Leave({w}, e, h, got)
      BY <2>3
    <3> QED BY <2>0, <2>1, <3>1, LeaveOnward
  <2> QED BY <2>1, <2>2, <2>3
<1>2. CASE MasterHeard(r)
  BY <1>2, OneRankOnward DEF MasterHeard
<1>3. CASE RelayRefused(r)
  BY <1>3, OneRankOnward DEF RelayRefused
<1>4. CASE RelaySend(r)
  <2>0. UNCHANGED <<shape, bIsMaster, master_workers_comm, environment_app_comm, dirVars>>
    BY <1>4 DEF RelaySend
  <2> DEFINE s == RankOf(workerless_masters_comm[r], heard[r] + 1)
  <2>1. /\ pc[r] = "relay" /\ pc[s] = "relay"
        /\ \E e, h, got : Leave(IF LastTold(r) THEN {r, s} ELSE {s}, e, h, got)
    BY <1>4 DEF RelaySend
  <2>2. PICK e, h, got : Leave(IF LastTold(r) THEN {r, s} ELSE {s}, e, h, got)
    BY <2>1
  <2>3. \A q \in (IF LastTold(r) THEN {r, s} ELSE {s}) : pc[q] = "relay"
    BY <2>1
  <2> HIDE DEF s
  <2> QED BY <2>0, <2>2, <2>3, LeaveOnward
<1>5. CASE RelayNone(r)
  BY <1>5, LeaveOnward DEF RelayNone
<1> QED BY <1>1, <1>2, <1>3, <1>4, <1>5

LEMMA ShapeTypes ==
  ASSUME shape \in Shapes
  PROVE  /\ shape.nMasters \in Nat /\ shape.nWorkers \in Nat
         /\ shape.nMasters + shape.nWorkers > 0
         /\ 0 \in World /\ (~Refused => Divided)
BY ShapesAssumption DEF World, Refused, Divided

LEMMA GroupsKept ==
  ASSUME GroupsInv, UNCHANGED <<shape, bIsMaster, master_workers_comm>>,
         pc' \in [World -> PCs],
         \A r \in World : pc'[r] # pc[r] =>
           /\ pc[r] \notin Early \cup {"died"} /\ pc'[r] \notin Early
           /\ pc'[r] = "env" => shape.nWorkers > 0
  PROVE  GroupsInv'
<1>0. World' = World /\ Groups' = Groups
  BY DEF World, Groups
<1>1. Grouped' = Grouped
  BY <1>0 DEF Grouped, RankIn
<1>2. Divided' = Divided
  BY DEF Divided
<1>3. \A i : FirstRank(i)' = FirstRank(i)
  BY DEF FirstRank, WorkersBefore, Share, CeilDiv
<1>4. \A r \in World : pc'[r] \in Early => pc'[r] = pc[r]
  OBVIOUS
<1>5. shape' \in Shapes /\ pc' \in [World' -> PCs]
  BY <1>0 DEF GroupsInv
<1>6. \A r \in World' : pc'[r] \in Early => \A s \in World' : master_workers_comm'[s] = {}
  BY <1>0, <1>4 DEF GroupsInv
<1>7. \A r \in World' : pc'[r] \in {"learners", "workers"} => Divided' /\ shape'.nWorkers > 0
  BY <1>0, <1>2, <1>4 DEF GroupsInv, Early
<1>8. ASSUME NEW r \in World', pc'[r] = "workers", NEW s \in World'
      PROVE  bIsMaster'[s] <=> \E i \in Groups' : s = FirstRank(i)'
  <2>1. pc[r] = "workers"
    BY <1>0, <1>4, <1>8 DEF Early
  <2>2. bIsMaster[s] <=> \E i \in Groups : s = FirstRank(i)
    BY <1>0, <1>8, <2>1 DEF GroupsInv
  <2> QED BY <1>0, <1>3, <2>2
<1>9. Grouped' \/ \A s \in World' : master_workers_comm'[s] = {}
  BY <1>0, <1>1 DEF GroupsInv
<1>10. ASSUME NEW r \in World', shape'.nWorkers > 0, pc'[r] \notin Early \cup {"died"}
       PROVE  Grouped'
  BY <1>0, <1>1, <1>10 DEF GroupsInv
<1>11. \A r \in World' : pc'[r] = "env" => shape'.nWorkers > 0
  BY <1>0 DEF GroupsInv
<1> QED BY <1>5, <1>6, <1>7, <1>8, <1>9, <1>10, <1>11 DEF GroupsInv

LEMMA GroupsOnward ==
  ASSUME GroupsInv, Onward
  PROVE  GroupsInv'
BY GroupsKept DEF Onward

LEMMA DupOnward ==
  ASSUME GroupsInv, DupWorkerless
  PROVE  Onward
<1>1. pc' = [r \in World |-> IF r \in {s \in World : bIsMaster[s]} THEN Arranged(r) ELSE pc[r]]
  BY DEF DupWorkerless, Together
<1>2. \A r \in World : bIsMaster[r] => pc[r] = "dup"
  BY DEF DupWorkerless, Together
<1>3. \A r \in World : pc'[r] = pc[r] \/ (bIsMaster[r] /\ pc'[r] = Arranged(r))
  BY <1>1
<1>4. pc' \in [World -> PCs]
  BY <1>1, ArrangedIs DEF GroupsInv, PCs
<1>5. UNCHANGED <<shape, bIsMaster, master_workers_comm, environment_app_comm, dirVars>>
  BY DEF DupWorkerless, Together
<1> QED BY <1>2, <1>3, <1>4, <1>5, ArrangedIs DEF Onward, Early, AtDirs

LEMMA FigureOutGroups ==
  ASSUME GroupsInv, FigureOut
  PROVE  GroupsInv'
<1>0. World' = World /\ shape' = shape /\ master_workers_comm' = master_workers_comm
  BY DEF FigureOut, Together, World
<1>1. /\ \A r \in World : pc[r] = "figure"
      /\ pc' = [r \in World |-> IF Refused THEN "died"
                               ELSE IF shape.nWorkers > 0 THEN "learners"
                               ELSE IF nEnvironments < shape.nMasters THEN "dup"
                               ELSE Arranged(r)]
  BY DEF FigureOut, Together
<1>2. \A s \in World : master_workers_comm[s] = {}
  BY <1>1, ShapeTypes DEF GroupsInv, Early
<1>3. /\ \A r \in World : shape.nWorkers > 0 => pc'[r] \in {"died", "learners"}
      /\ \A r \in World : pc'[r] = "learners" => ~Refused /\ shape.nWorkers > 0
      /\ \A r \in World : pc'[r] \in {"died", "learners", "dup", "env", "fork", "recv"}
      /\ \A r \in World : pc'[r] = "env" => shape.nWorkers > 0
  <2> SUFFICES ASSUME NEW r \in World
               PROVE  /\ shape.nWorkers > 0 => pc'[r] \in {"died", "learners"}
                      /\ pc'[r] = "learners" => ~Refused /\ shape.nWorkers > 0
                      /\ pc'[r] \in {"died", "learners", "dup", "env", "fork", "recv"}
                      /\ pc'[r] = "env" => shape.nWorkers > 0
    OBVIOUS
  <2> QED BY <1>1, ArrangedIs
<1>4. pc' \in [World' -> PCs]
  BY <1>0, <1>1, <1>3 DEF PCs
<1>5. Divided' = Divided
  BY <1>0 DEF Divided
<1>6. \A r \in World : pc'[r] = "learners" => Divided
  BY <1>3, ShapeTypes DEF GroupsInv
<1> QED BY <1>0, <1>2, <1>3, <1>4, <1>5, <1>6 DEF GroupsInv, Early

LEMMA SplitLearnersGroups ==
  ASSUME GroupsInv, SplitLearners
  PROVE  GroupsInv'
<1>0. /\ World' = World /\ shape' = shape /\ master_workers_comm' = master_workers_comm
      /\ Groups' = Groups
  BY DEF SplitLearners, Together, World, Groups
<1>1. /\ \A r \in World : pc[r] = "learners"
      /\ pc' = [r \in World |-> "workers"]
      /\ bIsMaster' = [r \in World |-> Striped(r)]
  BY DEF SplitLearners, Together, Striped
<1>2. /\ Divided /\ shape.nWorkers > 0
      /\ \A s \in World : master_workers_comm[s] = {}
  BY <1>1, ShapeTypes DEF GroupsInv, Early
<1>3. Divided' /\ \A i : FirstRank(i)' = FirstRank(i)
  BY <1>0, <1>2 DEF Divided, FirstRank, WorkersBefore, Share, CeilDiv
<1>4. \A s \in World' : bIsMaster'[s] <=> \E i \in Groups' : s = FirstRank(i)'
  <2> SUFFICES ASSUME NEW s \in World
               PROVE  bIsMaster'[s] <=> \E i \in Groups : s = FirstRank(i)
    BY <1>0, <1>3
  <2> QED BY <1>1, <1>2, StripedIs
<1>5. pc' \in [World' -> PCs]
  BY <1>0, <1>1 DEF PCs
<1> QED BY <1>0, <1>1, <1>2, <1>3, <1>4, <1>5 DEF GroupsInv, Early

LEMMA SplitWorkersGroups ==
  ASSUME GroupsInv, SplitWorkers
  PROVE  GroupsInv'
<1>0. World' = World /\ shape' = shape /\ bIsMaster' = bIsMaster
  BY DEF SplitWorkers, Together, World
<1>1. /\ \A r \in World : pc[r] = "workers"
      /\ pc' = [r \in World |-> IF bIsMaster[r] /\ shape.nWorkers < shape.nMasters
                               THEN "dup" ELSE Arranged(r)]
      /\ master_workers_comm' = SplitBy([r \in World |-> indxStripedMPISplitting(r)])
  BY DEF SplitWorkers, Together
<1>2. /\ Divided /\ shape.nWorkers > 0
      /\ \A s \in World : bIsMaster[s] <=> \E i \in Groups : s = FirstRank(i)
  BY <1>1, ShapeTypes DEF GroupsInv
<1>3. \A r \in World : bIsMaster[r] <=> Striped(r)
  BY <1>2, StripedIs
<1>4. \A r \in World : master_workers_comm'[r]
        = {s \in World : indxStripedMPISplitting(s) = indxStripedMPISplitting(r)}
  BY <1>1 DEF SplitBy
<1>5. /\ \A r \in World : bIsMaster[r] <=> RankIn(master_workers_comm'[r], r) = 0
      /\ Cardinality({s \in World : bIsMaster[s]}) = shape.nMasters
      /\ shape.nMasters = 1 => \A r \in World : master_workers_comm'[r] = World
  <2> DEFINE B == bIsMaster
             G == master_workers_comm'
  <2>1. \A r \in World : B[r] <=> Striped(r)
    BY <1>3
  <2>2. \A r \in World : G[r] = {s \in World : indxStripedMPISplitting(s) = indxStripedMPISplitting(r)}
    BY <1>4
  <2> HIDE DEF B, G
  <2>3. /\ \A r \in World : B[r] <=> RankIn(G[r], r) = 0
        /\ Cardinality({s \in World : B[s]}) = shape.nMasters
        /\ shape.nMasters = 1 => \A r \in World : G[r] = World
    BY <1>2, <2>1, <2>2, SplitsRight
  <2> QED BY <2>3 DEF B, G
<1>6. Grouped'
  BY <1>0, <1>5 DEF Grouped, RankIn
<1>7. pc' \in [World' -> PCs] /\ \A r \in World : pc'[r] \in {"dup", "env", "fork", "recv"}
  BY <1>0, <1>1, ArrangedIs DEF PCs
<1> QED BY <1>0, <1>2, <1>6, <1>7 DEF GroupsInv, Early

LEMMA TeamStepsGroups ==
  ASSUME GroupsInv, NEW r \in World,
         SplitEnvironments(r) \/ LookForDir(r) \/ MakeDir(r) \/ EnterDir(r)
  PROVE  GroupsInv'
<1> USE DEF Early
<1>0. pc \in [World -> PCs]
  BY DEF GroupsInv
<1>1. CASE SplitEnvironments(r)
  <2>1. /\ \A s \in master_workers_comm[r] : pc[s] = "env"
        /\ pc' = [s \in World |-> IF s \in master_workers_comm[r]
                                  THEN [q \in World |-> IF bIsMaster[q] THEN "recv" ELSE "launch"][s]
                                  ELSE pc[s]]
        /\ UNCHANGED <<shape, bIsMaster, master_workers_comm>>
    BY <1>1 DEF SplitEnvironments, Together
  <2>2. \A s \in World : pc'[s] = pc[s] \/ (pc[s] = "env" /\ pc'[s] \in {"recv", "launch"})
    BY <2>1
  <2>3. pc' \in [World -> PCs]
    BY <1>0, <2>1 DEF PCs
  <2> QED BY <2>1, <2>2, <2>3, GroupsKept
<1>2. CASE LookForDir(r)
  <2>1. UNCHANGED <<shape, bIsMaster, master_workers_comm>>
    BY <1>2 DEF LookForDir, comms
  <2>2. pc' = pc \/ (pc[r] = "launch" /\ pc' = [pc EXCEPT ![r] = "barrier"])
    BY <1>2 DEF LookForDir
  <2>3. pc' \in [World -> PCs]
    BY <1>0, <2>2 DEF PCs
  <2>4. \A s \in World : pc'[s] = pc[s] \/ (pc[s] = "launch" /\ pc'[s] = "barrier")
    BY <1>0, <2>2
  <2> QED BY <2>1, <2>3, <2>4, GroupsKept
<1>3. CASE MakeDir(r)
  <2>1. UNCHANGED <<shape, bIsMaster, master_workers_comm>>
    BY <1>3 DEF MakeDir, comms
  <2>2. pc[r] = "barrier" /\ pc' = [pc EXCEPT ![r] = "made"]
    BY <1>3 DEF MakeDir
  <2>3. pc' \in [World -> PCs]
    BY <1>0, <2>2 DEF PCs
  <2>4. \A s \in World : pc'[s] = pc[s] \/ (pc[s] = "barrier" /\ pc'[s] = "made")
    BY <1>0, <2>2
  <2> QED BY <2>1, <2>3, <2>4, GroupsKept
<1>4. CASE EnterDir(r)
  <2>1. UNCHANGED <<shape, bIsMaster, master_workers_comm>>
    BY <1>4 DEF EnterDir, comms
  <2>2. /\ pc[r] = "made" /\ \A s \in environment_app_comm[r] \ {r} : pc[s] = "barrier"
        /\ pc' = [s \in World |-> IF s \notin environment_app_comm[r] THEN pc[s]
                                  ELSE IF asked.died THEN "died" ELSE "send"]
    BY <1>4 DEF EnterDir
  <2>3. pc' \in [World -> PCs]
    BY <1>0, <2>2 DEF PCs
  <2>4. \A s \in World : pc'[s] = pc[s] \/ (pc[s] \in {"made", "barrier"} /\ pc'[s] \in {"died", "send"})
    BY <1>0, <2>2
  <2> QED BY <2>1, <2>3, <2>4, GroupsKept
<1> QED BY <1>1, <1>2, <1>3, <1>4

OtherStep(r) ==
  \/ WorkersDie(r)
  \/ Fork(r) \/ Bind(r) \/ SOCKET_clientConnect(r) \/ SOCKET_serverConnect(r)
  \/ HostRecv(r) \/ MasterRecv(r) \/ MasterHeard(r)
  \/ RelayRefused(r) \/ RelaySend(r) \/ RelayNone(r)

LEMMA OtherOnward ==
  ASSUME pc \in [World -> PCs], NEW r \in World, OtherStep(r)
  PROVE  Onward
BY ForkOnward, DescriptionOnward DEF OtherStep

LEMMA DescribeOnward ==
  ASSUME pc \in [World -> PCs], Describe
  PROVE  Onward
<1>1. UNCHANGED <<shape, pc, bIsMaster, master_workers_comm, environment_app_comm, dirVars>>
  BY DEF Describe, comms
<1> QED BY <1>1, SameOnward

LEMMA StutterOnward ==
  ASSUME pc \in [World -> PCs], UNCHANGED setupVars
  PROVE  Onward
<1>1. UNCHANGED <<shape, pc, bIsMaster, master_workers_comm, environment_app_comm, dirVars>>
  BY DEF setupVars, comms
<1> QED BY <1>1, SameOnward

\* The steps, sorted by what the proofs have to say of them.
LEMMA Kinds ==
  ASSUME pc \in [World -> PCs], [setupNext]_setupVars
  PROVE  \/ Onward \/ DupWorkerless
         \/ FigureOut \/ SplitLearners \/ SplitWorkers
         \/ \E r \in World : SplitEnvironments(r) \/ LookForDir(r) \/ MakeDir(r) \/ EnterDir(r)
<1>1. CASE UNCHANGED setupVars
  BY <1>1, StutterOnward
<1>2. CASE Describe
  BY <1>2, DescribeOnward
<1>3. CASE \E r \in World : RankStep(r)
  BY <1>3, OtherOnward DEF RankStep, OtherStep
<1> QED BY <1>1, <1>2, <1>3 DEF setupNext, Arrange

LEMMA InitGroups == setupInit => GroupsInv
<1> SUFFICES ASSUME setupInit PROVE GroupsInv
  OBVIOUS
<1> QED BY DEF setupInit, GroupsInv, Early, PCs

LEMMA NextGroups ==
  ASSUME GroupsInv, [setupNext]_setupVars
  PROVE  GroupsInv'
<1>1. pc \in [World -> PCs]
  BY DEF GroupsInv
<1>2. DupWorkerless => Onward
  BY DupOnward
<1> QED BY <1>1, <1>2, Kinds, GroupsOnward, FigureOutGroups, SplitLearnersGroups,
           SplitWorkersGroups, TeamStepsGroups

\* The ranks agree on who is master of which group (figureOutWorkersPattern).
THEOREM OneMasterHolds == setupSpec => []OneMasterPerGroup
<1>1. GroupsInv /\ [setupNext]_setupVars => GroupsInv'
  BY NextGroups
<1>2. GroupsInv => OneMasterPerGroup
  BY DEF GroupsInv, Grouped, OneMasterPerGroup
<1> QED BY <1>1, <1>2, InitGroups, PTL DEF setupSpec

------------------------------------------------------------------------------
(* Teams and their directories                                             *)

Mine(r) == environment_app_comm[r] # {}

TeamIs(r) ==
  Mine(r) =>
    /\ ~bIsMaster[r] /\ pc[r] \notin Early \cup {"env"}
    /\ master_workers_comm[r] = World
    /\ environment_app_comm[r]
         = {q \in World : ~bIsMaster[q] /\ thisWorkerGroupID(q) = thisWorkerGroupID(r)}
    /\ \A q \in World : ~bIsMaster[q] => Mine(q)

Looking(r) ==
  /\ pc[r] \in AtDirs => Mine(r)
  /\ ~Mine(r) => dirIter[r] = 0
  /\ pc[r] \in {"launch", "barrier"} =>
       \A n \in Nat : n < dirIter[r] => <<thisWorkerGroupID(r), n>> \in dirs
  /\ pc[r] = "launch" => \A q \in environment_app_comm[r] : pc[q] \in {"launch", "barrier"}

FoundFree(r) ==
  pc[r] = "barrier" =>
    \/ /\ <<thisWorkerGroupID(r), dirIter[r]>> \notin dirs
       /\ \A q \in environment_app_comm[r] : pc[q] \in {"launch", "barrier"}
    \/ \E q \in environment_app_comm[r] : pc[q] = "made"

Made(r) ==
  pc[r] = "made" =>
    /\ <<thisWorkerGroupID(r), dirIter[r]>> \in dirs
    /\ \A q \in environment_app_comm[r] \ {r} : pc[q] = "barrier" /\ dirIter[q] = dirIter[r]

Entered(r) ==
  Mine(r) /\ pc[r] \notin AtDirs =>
    /\ <<thisWorkerGroupID(r), dirIter[r]>> \in dirs
    /\ \A q \in environment_app_comm[r] : pc[q] \notin AtDirs /\ dirIter[q] = dirIter[r]

\* With one master: a team is all in front of its directory, or all in it, and all of
\* it looks for the same one.
TeamsInv ==
  /\ dirIter \in [World -> Nat]
  /\ shape.nMasters = 1 =>
       /\ environment_app_comm \in [World -> SUBSET World]
       /\ \A r \in World : TeamIs(r) /\ Looking(r) /\ FoundFree(r) /\ Made(r) /\ Entered(r)

LEMMA SameTeams ==
  ASSUME UNCHANGED <<shape, master_workers_comm>>
  PROVE  World' = World /\ \A r : thisWorkerGroupID(r)' = thisWorkerGroupID(r)
BY DEF World, thisWorkerGroupID, RankIn

LEMMA TeamsOnward ==
  ASSUME TeamsInv, Onward
  PROVE  TeamsInv'
<1>1. World' = World /\ \A r : thisWorkerGroupID(r)' = thisWorkerGroupID(r)
  BY SameTeams DEF Onward
<1>2. UNCHANGED <<shape, bIsMaster, master_workers_comm, environment_app_comm, dirs, dirIter>>
  BY DEF Onward, dirVars
<1>3. \A r \in World : pc'[r] # pc[r] =>
        /\ pc[r] \notin Early \cup AtDirs /\ pc'[r] \notin Early \cup AtDirs
        /\ pc'[r] = "env" => bIsMaster[r]
  BY DEF Onward
<1>4. SUFFICES ASSUME shape.nMasters = 1, NEW r \in World
               PROVE  TeamIs(r)' /\ Looking(r)' /\ FoundFree(r)' /\ Made(r)' /\ Entered(r)'
  BY <1>1, <1>2 DEF TeamsInv
<1>5. TeamIs(r) /\ Looking(r) /\ FoundFree(r) /\ Made(r) /\ Entered(r)
  BY <1>4 DEF TeamsInv
<1>6. environment_app_comm[r] \subseteq World
  BY <1>4 DEF TeamsInv
<1> USE DEF Mine
<1>7. TeamIs(r)'
  BY <1>1, <1>2, <1>3, <1>5 DEF TeamIs
<1>8. Looking(r)'
  BY <1>1, <1>2, <1>3, <1>5, <1>6 DEF Looking, AtDirs
<1>9. FoundFree(r)'
  BY <1>1, <1>2, <1>3, <1>5, <1>6 DEF FoundFree, AtDirs
<1>10. Made(r)'
  BY <1>1, <1>2, <1>3, <1>5, <1>6 DEF Made, AtDirs
<1>11. Entered(r)'
  BY <1>1, <1>2, <1>3, <1>5, <1>6 DEF Entered
<1> QED BY <1>7, <1>8, <1>9, <1>10, <1>11

\* Nobody has a team before the world is split.
LEMMA ArrangeTeams ==
  ASSUME GroupsInv, TeamsInv, FigureOut \/ SplitLearners \/ SplitWorkers
  PROVE  TeamsInv'
<1>1. /\ \A r \in World : pc[r] \in Early
      /\ UNCHANGED <<shape, environment_app_comm, dirs, dirIter>>
      /\ \A r \in World : pc'[r] \notin AtDirs
  <2>1. CASE FigureOut
    <3>1. /\ \A r \in World : pc[r] = "figure"
          /\ pc' = [r \in World |-> IF Refused THEN "died"
                               ELSE IF shape.nWorkers > 0 THEN "learners"
                               ELSE IF nEnvironments < shape.nMasters THEN "dup"
                               ELSE Arranged(r)]
          /\ UNCHANGED <<shape, environment_app_comm, dirs, dirIter>>
      BY <2>1 DEF FigureOut, Together, dirVars
    <3>2. \A r \in World : pc'[r] \in {"died", "learners", "dup", "env", "fork", "recv"}
      <4> SUFFICES ASSUME NEW r \in World
                   PROVE  pc'[r] \in {"died", "learners", "dup", "env", "fork", "recv"}
        OBVIOUS
      <4> QED BY <3>1, ArrangedIs
    <3> QED BY <3>1, <3>2 DEF Early, AtDirs
  <2>2. CASE SplitLearners
    BY <2>2 DEF SplitLearners, Together, dirVars, Early, AtDirs
  <2>3. CASE SplitWorkers
    <3>1. /\ \A r \in World : pc[r] = "workers"
          /\ pc' = [r \in World |-> IF bIsMaster[r] /\ shape.nWorkers < shape.nMasters
                                    THEN "dup" ELSE Arranged(r)]
          /\ UNCHANGED <<shape, environment_app_comm, dirs, dirIter>>
      BY <2>3 DEF SplitWorkers, Together, dirVars
    <3>2. \A r \in World : pc'[r] \in {"dup", "env", "fork", "recv"}
      BY <3>1, ArrangedIs
    <3> QED BY <3>1, <3>2 DEF Early, AtDirs
  <2> QED BY <2>1, <2>2, <2>3
<1>2. World' = World
  BY <1>1 DEF World
<1>3. SUFFICES ASSUME shape.nMasters = 1, NEW r \in World
               PROVE  TeamIs(r)' /\ Looking(r)' /\ FoundFree(r)' /\ Made(r)' /\ Entered(r)'
  BY <1>1, <1>2 DEF TeamsInv
<1>4. TeamIs(r) /\ Looking(r)
  BY <1>3 DEF TeamsInv
<1>5. ~Mine(r) /\ dirIter[r] = 0
  BY <1>1, <1>4 DEF TeamIs, Looking
<1>6. ~Mine(r)'
  BY <1>1, <1>5 DEF Mine
<1>7. pc'[r] \notin AtDirs /\ dirIter'[r] = 0
  BY <1>1, <1>5
<1> QED BY <1>6, <1>7 DEF TeamIs, Looking, FoundFree, Made, Entered, AtDirs

\* Two ranks with teams are in the same, or their teams do not meet.
LEMMA TeamsApart ==
  ASSUME TeamsInv, shape.nMasters = 1, NEW r \in World, Mine(r)
  PROVE  /\ r \in environment_app_comm[r] /\ environment_app_comm[r] \subseteq World
         /\ \A q \in environment_app_comm[r] :
              /\ Mine(q) /\ environment_app_comm[q] = environment_app_comm[r]
              /\ thisWorkerGroupID(q) = thisWorkerGroupID(r)
         /\ \A q \in World : Mine(q) /\ q \notin environment_app_comm[r] =>
              /\ thisWorkerGroupID(q) # thisWorkerGroupID(r)
              /\ environment_app_comm[q] \cap environment_app_comm[r] = {}
<1>1. \A q \in World : Mine(q) =>
        /\ ~bIsMaster[q]
        /\ environment_app_comm[q]
             = {x \in World : ~bIsMaster[x] /\ thisWorkerGroupID(x) = thisWorkerGroupID(q)}
  BY DEF TeamsInv, TeamIs
<1>2. \A q \in World : ~bIsMaster[q] => Mine(q)
  BY DEF TeamsInv, TeamIs
<1>3. \A q \in World : q \in environment_app_comm[r]
                         <=> ~bIsMaster[q] /\ thisWorkerGroupID(q) = thisWorkerGroupID(r)
  BY <1>1
<1>4. r \in environment_app_comm[r] /\ environment_app_comm[r] \subseteq World
  BY <1>1, <1>3
<1>5. ASSUME NEW q \in environment_app_comm[r]
      PROVE  /\ Mine(q) /\ environment_app_comm[q] = environment_app_comm[r]
             /\ thisWorkerGroupID(q) = thisWorkerGroupID(r)
  BY <1>1, <1>2, <1>3, <1>4
<1>6. ASSUME NEW q \in World, Mine(q), q \notin environment_app_comm[r]
      PROVE  /\ thisWorkerGroupID(q) # thisWorkerGroupID(r)
             /\ environment_app_comm[q] \cap environment_app_comm[r] = {}
  <2>1. ~bIsMaster[q] /\ thisWorkerGroupID(q) # thisWorkerGroupID(r)
    BY <1>1, <1>3, <1>6
  <2>2. \A x \in environment_app_comm[q] : thisWorkerGroupID(x) = thisWorkerGroupID(q)
    BY <1>1, <1>6
  <2>3. \A x \in environment_app_comm[r] : thisWorkerGroupID(x) = thisWorkerGroupID(r)
    BY <1>3, <1>4
  <2> QED BY <2>1, <2>2, <2>3
<1> QED BY <1>4, <1>5, <1>6

LEMMA SplitTeams ==
  ASSUME GroupsInv, TeamsInv, NEW r \in World, SplitEnvironments(r)
  PROVE  TeamsInv'
<1>1. /\ pc[r] = "env" /\ \A s \in master_workers_comm[r] : pc[s] = "env"
      /\ pc' = [s \in World |-> IF s \in master_workers_comm[r]
                                THEN [q \in World |-> IF bIsMaster[q] THEN "recv" ELSE "launch"][s]
                                ELSE pc[s]]
      /\ UNCHANGED <<shape, bIsMaster, master_workers_comm, dirs, dirIter>>
  BY DEF SplitEnvironments, Together, dirVars
<1>2. environment_app_comm' =
       [s \in World |->
          IF s \in master_workers_comm[r] /\ ~bIsMaster[s]
          THEN {q \in master_workers_comm[r] :
                  ~bIsMaster[q] /\ thisWorkerGroupID(q) = thisWorkerGroupID(s)}
          ELSE environment_app_comm[s]]
  BY DEF SplitEnvironments
<1>3. World' = World /\ \A s : thisWorkerGroupID(s)' = thisWorkerGroupID(s)
  BY <1>1, SameTeams
<1>4. dirIter' \in [World' -> Nat]
  BY <1>1, <1>3 DEF TeamsInv
<1>5. SUFFICES ASSUME shape.nMasters = 1
               PROVE  /\ environment_app_comm' \in [World -> SUBSET World]
                      /\ \A s \in World : /\ TeamIs(s)' /\ Looking(s)' /\ FoundFree(s)'
                                          /\ Made(s)' /\ Entered(s)'
  BY <1>1, <1>3, <1>4 DEF TeamsInv
<1>6. \A s \in World : master_workers_comm[s] = World
  <2>1. shape.nWorkers > 0 /\ pc[r] \notin Early \cup {"died"}
    BY <1>1 DEF GroupsInv, Early
  <2> QED BY <1>5, <2>1 DEF GroupsInv, Grouped
<1>7. \A s \in World : ~Mine(s) /\ dirIter[s] = 0
  BY <1>1, <1>5, <1>6 DEF TeamsInv, TeamIs, Looking
<1>8. \A s \in World : environment_app_comm'[s]
        = IF bIsMaster[s] THEN {}
          ELSE {q \in World : ~bIsMaster[q] /\ thisWorkerGroupID(q) = thisWorkerGroupID(s)}
  BY <1>2, <1>6, <1>7 DEF Mine
<1>9. \A s \in World : pc'[s] = IF bIsMaster[s] THEN "recv" ELSE "launch"
  BY <1>1, <1>6
<1>10. environment_app_comm' \in [World -> SUBSET World]
  BY <1>2, <1>6, <1>7 DEF Mine
<1>11. \A s \in World : ~bIsMaster[s] <=> Mine(s)'
  BY <1>8 DEF Mine
<1>12. ASSUME NEW s \in World
       PROVE  TeamIs(s)' /\ Looking(s)' /\ FoundFree(s)' /\ Made(s)' /\ Entered(s)'
  <2>1. TeamIs(s)'
    BY <1>1, <1>3, <1>6, <1>8, <1>9, <1>11 DEF TeamIs, Early
  <2>2. Looking(s)'
    <3>1. dirIter'[s] = 0
      BY <1>1, <1>7
    <3>2. \A q \in environment_app_comm'[s] : pc'[q] = "launch"
      BY <1>8, <1>9
    <3> QED BY <1>9, <1>11, <3>1, <3>2 DEF Looking, AtDirs
  <2>3. FoundFree(s)' /\ Made(s)'
    BY <1>9 DEF FoundFree, Made
  <2>4. Entered(s)'
    BY <1>9, <1>11 DEF Entered, AtDirs
  <2> QED BY <2>1, <2>2, <2>3, <2>4
<1> QED BY <1>10, <1>12

LEMMA LookTeams ==
  ASSUME GroupsInv, TeamsInv, NEW r \in World, LookForDir(r)
  PROVE  TeamsInv'
<1>1. /\ pc[r] = "launch" /\ pc \in [World -> PCs] /\ dirIter \in [World -> Nat]
      /\ UNCHANGED <<shape, bIsMaster, master_workers_comm, environment_app_comm, dirs>>
      /\ \/ /\ <<thisWorkerGroupID(r), dirIter[r]>> \in dirs
            /\ dirIter' = [dirIter EXCEPT ![r] = @ + 1] /\ pc' = pc
         \/ /\ <<thisWorkerGroupID(r), dirIter[r]>> \notin dirs
            /\ dirIter' = dirIter /\ pc' = [pc EXCEPT ![r] = "barrier"]
  BY DEF LookForDir, comms, dirOf, GroupsInv, TeamsInv
<1>2. World' = World /\ \A s : thisWorkerGroupID(s)' = thisWorkerGroupID(s)
  BY <1>1, SameTeams
<1>3. dirIter' \in [World' -> Nat]
  BY <1>1, <1>2
<1>4. SUFFICES ASSUME shape.nMasters = 1
               PROVE  \A s \in World : /\ TeamIs(s)' /\ Looking(s)' /\ FoundFree(s)'
                                       /\ Made(s)' /\ Entered(s)'
  BY <1>1, <1>2, <1>3 DEF TeamsInv
<1>5. /\ \A s \in World : TeamIs(s) /\ Looking(s) /\ FoundFree(s) /\ Made(s) /\ Entered(s)
      /\ \A s \in World : environment_app_comm[s] \subseteq World
  BY <1>4 DEF TeamsInv
<1>6. Mine(r)
  BY <1>1, <1>5 DEF Looking, AtDirs
<1>7. \A s \in World \ {r} : pc'[s] = pc[s] /\ dirIter'[s] = dirIter[s]
  BY <1>1
<1>8. pc'[r] \in {"launch", "barrier"}
  BY <1>1
<1> USE DEF Mine
<1>9. ASSUME NEW s \in World
      PROVE  TeamIs(s)' /\ Looking(s)' /\ FoundFree(s)' /\ Made(s)' /\ Entered(s)'
  <2>0. TeamIs(s) /\ Looking(s) /\ FoundFree(s) /\ Made(s) /\ Entered(s)
        /\ environment_app_comm[s] \subseteq World
    BY <1>5
  <2>1. TeamIs(s)'
    BY <1>1, <1>2, <1>7, <1>8, <2>0 DEF TeamIs, Early
  <2>2. Looking(s)'
    <3>1. CASE s # r
      BY <1>1, <1>2, <1>7, <1>8, <2>0, <3>1 DEF Looking
    <3>2. CASE s = r
      <4>1. \A q \in environment_app_comm[r] : pc'[q] \in {"launch", "barrier"}
        BY <1>1, <1>7, <1>8, <2>0, <3>2 DEF Looking
      <4>2. \A n \in Nat : n < dirIter'[r] => <<thisWorkerGroupID(r), n>> \in dirs
        <5>1. \A n \in Nat : n < dirIter[r] => <<thisWorkerGroupID(r), n>> \in dirs
          BY <1>1, <2>0, <3>2 DEF Looking
        <5>2. CASE dirIter' = dirIter
          BY <5>1, <5>2
        <5>3. CASE <<thisWorkerGroupID(r), dirIter[r]>> \in dirs
                   /\ dirIter' = [dirIter EXCEPT ![r] = @ + 1]
          <6>1. dirIter[r] \in Nat /\ dirIter'[r] = dirIter[r] + 1
            BY <1>1, <5>3
          <6>2. \A n \in Nat : n < dirIter'[r] => n < dirIter[r] \/ n = dirIter[r]
            BY <6>1
          <6> QED BY <5>1, <5>3, <6>2
        <5> QED BY <1>1, <5>2, <5>3
      <4> QED BY <1>1, <1>2, <1>6, <3>2, <4>1, <4>2 DEF Looking
    <3> QED BY <3>1, <3>2
  <2>3. FoundFree(s)'
    <3>1. CASE s # r
      BY <1>1, <1>2, <1>7, <1>8, <2>0, <3>1 DEF FoundFree
    <3>2. CASE s = r
      <4> SUFFICES ASSUME pc'[r] = "barrier"
                   PROVE  /\ <<thisWorkerGroupID(r), dirIter'[r]>> \notin dirs
                          /\ \A q \in environment_app_comm[r] : pc'[q] \in {"launch", "barrier"}
        BY <1>1, <1>2, <3>2 DEF FoundFree
      <4>1. <<thisWorkerGroupID(r), dirIter[r]>> \notin dirs /\ dirIter' = dirIter
        BY <1>1
      <4>2. \A q \in environment_app_comm[r] : pc'[q] \in {"launch", "barrier"}
        BY <1>1, <1>7, <1>8, <2>0, <3>2 DEF Looking
      <4> QED BY <4>1, <4>2
    <3> QED BY <3>1, <3>2
  <2>4. Made(s)'
    <3> SUFFICES ASSUME pc'[s] = "made" PROVE Made(s)'
      BY DEF Made
    <3>1. s # r /\ pc[s] = "made"
      BY <1>7, <1>8
    <3>2. r \notin environment_app_comm[s]
      BY <1>1, <2>0, <3>1 DEF Made
    <3> QED BY <1>1, <1>2, <1>7, <2>0, <3>1, <3>2 DEF Made
  <2>5. Entered(s)'
    <3> SUFFICES ASSUME pc'[s] \notin AtDirs, Mine(s) PROVE Entered(s)'
      BY <1>1 DEF Entered
    <3>1. s # r /\ pc[s] \notin AtDirs
      BY <1>7, <1>8 DEF AtDirs
    <3>2. r \notin environment_app_comm[s]
      BY <1>1, <2>0, <3>1 DEF Entered, AtDirs
    <3> QED BY <1>1, <1>2, <1>7, <2>0, <3>1, <3>2 DEF Entered
  <2> QED BY <2>1, <2>2, <2>3, <2>4, <2>5
<1> QED BY <1>9

\* Members of a team that wait for its root have all found the same directory.
LEMMA SameFound ==
  ASSUME TeamsInv, shape.nMasters = 1, NEW r \in World, Mine(r),
         \A q \in environment_app_comm[r] : pc[q] = "barrier"
  PROVE  \A q \in environment_app_comm[r] : dirIter[q] = dirIter[r]
<1> SUFFICES ASSUME NEW q \in environment_app_comm[r] PROVE dirIter[q] = dirIter[r]
  OBVIOUS
<1>1. /\ q \in World /\ r \in environment_app_comm[r]
      /\ environment_app_comm[q] = environment_app_comm[r]
      /\ thisWorkerGroupID(q) = thisWorkerGroupID(r)
  BY TeamsApart
<1>2. pc[q] = "barrier" /\ pc[r] = "barrier"
  BY <1>1
<1>3. /\ <<thisWorkerGroupID(r), dirIter[r]>> \notin dirs
      /\ <<thisWorkerGroupID(r), dirIter[q]>> \notin dirs
  <2>1. FoundFree(r) /\ FoundFree(q)
    BY <1>1 DEF TeamsInv
  <2> QED BY <1>1, <1>2, <2>1 DEF FoundFree
<1>4. /\ \A n \in Nat : n < dirIter[r] => <<thisWorkerGroupID(r), n>> \in dirs
      /\ \A n \in Nat : n < dirIter[q] => <<thisWorkerGroupID(r), n>> \in dirs
  <2>1. Looking(r) /\ Looking(q)
    BY <1>1 DEF TeamsInv
  <2> QED BY <1>1, <1>2, <2>1 DEF Looking
<1>5. dirIter[r] \in Nat /\ dirIter[q] \in Nat
  BY <1>1 DEF TeamsInv
<1>6. ~(dirIter[r] < dirIter[q]) /\ ~(dirIter[q] < dirIter[r])
  BY <1>3, <1>4, <1>5
<1> QED BY <1>5, <1>6

LEMMA MakeTeams ==
  ASSUME GroupsInv, TeamsInv, NEW r \in World, MakeDir(r)
  PROVE  TeamsInv'
<1>1. /\ pc[r] = "barrier" /\ pc \in [World -> PCs] /\ dirIter \in [World -> Nat]
      /\ \A q \in environment_app_comm[r] : pc[q] = "barrier"
      /\ UNCHANGED <<shape, bIsMaster, master_workers_comm, environment_app_comm, dirIter>>
      /\ dirs' = dirs \cup {<<thisWorkerGroupID(r), dirIter[r]>>}
      /\ pc' = [pc EXCEPT ![r] = "made"]
  BY DEF MakeDir, TeamReady, comms, dirOf, GroupsInv, TeamsInv
<1>2. World' = World /\ \A s : thisWorkerGroupID(s)' = thisWorkerGroupID(s)
  BY <1>1, SameTeams
<1>3. SUFFICES ASSUME shape.nMasters = 1
               PROVE  \A s \in World : /\ TeamIs(s)' /\ Looking(s)' /\ FoundFree(s)'
                                       /\ Made(s)' /\ Entered(s)'
  BY <1>1, <1>2 DEF TeamsInv
<1>4. /\ \A s \in World : TeamIs(s) /\ Looking(s) /\ FoundFree(s) /\ Made(s) /\ Entered(s)
      /\ \A s \in World : environment_app_comm[s] \subseteq World
  BY <1>3 DEF TeamsInv
<1>5. Mine(r)
  BY <1>1, <1>4 DEF Looking, AtDirs
<1>6. (\A s \in World \ {r} : pc'[s] = pc[s]) /\ pc'[r] = "made"
  BY <1>1
<1>7. \A q \in environment_app_comm[r] : dirIter[q] = dirIter[r]
  BY <1>1, <1>3, <1>5, SameFound
<1>8. ASSUME NEW s \in World
      PROVE  TeamIs(s)' /\ Looking(s)' /\ FoundFree(s)' /\ Made(s)' /\ Entered(s)'
  <2>0. TeamIs(s) /\ Looking(s) /\ FoundFree(s) /\ Made(s) /\ Entered(s)
        /\ environment_app_comm[s] \subseteq World
    BY <1>4
  <2>a. Mine(s)' = Mine(s)
    BY <1>1 DEF Mine
  <2>b. Mine(s) /\ r \in environment_app_comm[s] =>
          /\ s \in environment_app_comm[r]
          /\ environment_app_comm[s] = environment_app_comm[r]
    BY <1>3, <1>5, TeamsApart
  <2>c. environment_app_comm[s] # {} <=> Mine(s)
    BY DEF Mine
  <2>1. TeamIs(s)'
    BY <1>1, <1>2, <1>6, <2>0 DEF TeamIs, Early, Mine
  <2>2. Looking(s)'
    <3>1. CASE s = r
      BY <1>5, <1>6, <2>a, <3>1 DEF Looking, AtDirs
    <3>2. CASE s # r
      <4>1. pc'[s] \in AtDirs => Mine(s)'
        BY <1>6, <2>0, <2>a, <3>2 DEF Looking
      <4>2. ~Mine(s)' => dirIter'[s] = 0
        BY <1>1, <2>0, <2>a DEF Looking
      <4>3. pc'[s] \in {"launch", "barrier"} =>
              \A n \in Nat : n < dirIter'[s] => <<thisWorkerGroupID(s), n>> \in dirs'
        BY <1>1, <1>6, <2>0, <3>2 DEF Looking
      <4>4. ASSUME pc'[s] = "launch", NEW q \in environment_app_comm[s]
            PROVE  pc'[q] \in {"launch", "barrier"}
        <5>1. pc[s] = "launch" /\ pc[q] \in {"launch", "barrier"}
          BY <1>6, <2>0, <3>2, <4>4 DEF Looking
        <5>2. q # r
          BY <1>1, <2>b, <2>c, <4>4, <5>1
        <5> QED BY <1>6, <2>0, <5>1, <5>2
      <4> QED BY <1>1, <1>2, <4>1, <4>2, <4>3, <4>4 DEF Looking
    <3> QED BY <3>1, <3>2
  <2>3. FoundFree(s)'
    <3> SUFFICES ASSUME pc'[s] = "barrier" PROVE FoundFree(s)'
      BY DEF FoundFree
    <3>1. s # r /\ pc[s] = "barrier" /\ Mine(s)
      BY <1>6, <2>0 DEF Looking, AtDirs
    <3>2. CASE s \in environment_app_comm[r]
      <4>1. r \in environment_app_comm[s]
        BY <1>3, <1>5, <3>2, TeamsApart
      <4> QED BY <1>1, <1>6, <4>1 DEF FoundFree
    <3>3. CASE s \notin environment_app_comm[r]
      <4>1. thisWorkerGroupID(s) # thisWorkerGroupID(r) /\ r \notin environment_app_comm[s]
        BY <1>3, <1>5, <2>b, <3>1, <3>3, TeamsApart
      <4>2. \A q \in environment_app_comm[s] : pc'[q] = pc[q]
        BY <1>6, <2>0, <4>1
      <4>3. <<thisWorkerGroupID(s), dirIter[s]>> \notin dirs
              => <<thisWorkerGroupID(s), dirIter[s]>> \notin dirs'
        BY <1>1, <4>1
      <4> QED BY <1>1, <1>2, <2>0, <3>1, <4>2, <4>3 DEF FoundFree
    <3> QED BY <3>2, <3>3
  <2>4. Made(s)'
    <3>1. CASE s = r
      <4>1. \A q \in environment_app_comm[r] \ {r} : pc'[q] = "barrier" /\ dirIter[q] = dirIter[r]
        BY <1>1, <1>6, <1>7, <2>0, <3>1
      <4> QED BY <1>1, <1>2, <3>1, <4>1 DEF Made
    <3>2. CASE s # r
      <4> SUFFICES ASSUME pc'[s] = "made" PROVE Made(s)'
        BY DEF Made
      <4>1. pc[s] = "made" /\ Mine(s)
        BY <1>6, <2>0, <3>2 DEF Looking, AtDirs
      <4>2. r \notin environment_app_comm[s]
        BY <1>1, <2>b, <4>1
      <4> QED BY <1>1, <1>2, <1>6, <2>0, <4>1, <4>2 DEF Made
    <3> QED BY <3>1, <3>2
  <2>5. Entered(s)'
    <3> SUFFICES ASSUME pc'[s] \notin AtDirs, Mine(s) PROVE Entered(s)'
      BY <2>a DEF Entered
    <3>1. s # r /\ pc[s] \notin AtDirs
      BY <1>6 DEF AtDirs
    <3>2. r \notin environment_app_comm[s]
      BY <1>1, <2>0, <3>1 DEF Entered, AtDirs
    <3> QED BY <1>1, <1>2, <1>6, <2>0, <3>1, <3>2 DEF Entered
  <2> QED BY <2>1, <2>2, <2>3, <2>4, <2>5
<1> QED BY <1>8

LEMMA EnterTeams ==
  ASSUME GroupsInv, TeamsInv, NEW r \in World, EnterDir(r)
  PROVE  TeamsInv'
<1>1. /\ pc[r] = "made"
      /\ \A q \in environment_app_comm[r] \ {r} : pc[q] = "barrier"
      /\ UNCHANGED <<shape, bIsMaster, master_workers_comm, environment_app_comm, dirs, dirIter>>
      /\ pc' = [s \in World |-> IF s \notin environment_app_comm[r] THEN pc[s]
                                ELSE IF asked.died THEN "died" ELSE "send"]
  BY DEF EnterDir, comms, dirVars
<1>2. World' = World /\ \A s : thisWorkerGroupID(s)' = thisWorkerGroupID(s)
  BY <1>1, SameTeams
<1>3. SUFFICES ASSUME shape.nMasters = 1
               PROVE  \A s \in World : /\ TeamIs(s)' /\ Looking(s)' /\ FoundFree(s)'
                                       /\ Made(s)' /\ Entered(s)'
  BY <1>1, <1>2 DEF TeamsInv
<1>4. /\ \A s \in World : TeamIs(s) /\ Looking(s) /\ FoundFree(s) /\ Made(s) /\ Entered(s)
      /\ \A s \in World : environment_app_comm[s] \subseteq World
  BY <1>3 DEF TeamsInv
<1>5. Mine(r)
  BY <1>1, <1>4 DEF Looking, AtDirs
<1>6. \A s \in World : pc'[s] = IF s \notin environment_app_comm[r] THEN pc[s]
                                ELSE IF asked.died THEN "died" ELSE "send"
  BY <1>1
<1>7. <<thisWorkerGroupID(r), dirIter[r]>> \in dirs
      /\ \A q \in environment_app_comm[r] : dirIter[q] = dirIter[r]
  BY <1>1, <1>4 DEF Made
<1>8. ASSUME NEW s \in World
      PROVE  TeamIs(s)' /\ Looking(s)' /\ FoundFree(s)' /\ Made(s)' /\ Entered(s)'
  <2>0. TeamIs(s) /\ Looking(s) /\ FoundFree(s) /\ Made(s) /\ Entered(s)
        /\ environment_app_comm[s] \subseteq World
    BY <1>4
  <2>a. Mine(s)' = Mine(s)
    BY <1>1 DEF Mine
  <2>1. TeamIs(s)'
    BY <1>1, <1>2, <1>6, <2>0 DEF TeamIs, Early, Mine
  <2>2. CASE s \in environment_app_comm[r]
    <3>1. /\ Mine(s) /\ environment_app_comm[s] = environment_app_comm[r]
          /\ thisWorkerGroupID(s) = thisWorkerGroupID(r) /\ dirIter[s] = dirIter[r]
      BY <1>3, <1>5, <1>7, <2>2, TeamsApart
    <3>2. \A q \in environment_app_comm[s] : pc'[q] \in {"died", "send"}
      BY <1>6, <2>0, <3>1
    <3>3. pc'[s] \in {"died", "send"}
      BY <1>6, <2>2
    <3>4. Looking(s)' /\ FoundFree(s)' /\ Made(s)'
      BY <2>a, <3>1, <3>3 DEF Looking, FoundFree, Made, AtDirs
    <3>5. Entered(s)'
      BY <1>1, <1>2, <1>7, <3>1, <3>2 DEF Entered, AtDirs
    <3> QED BY <2>1, <3>4, <3>5
  <2>3. CASE s \notin environment_app_comm[r]
    <3>1. environment_app_comm[s] \cap environment_app_comm[r] = {}
      <4>1. CASE Mine(s)
        BY <1>3, <1>5, <2>3, <4>1, TeamsApart
      <4>2. CASE ~Mine(s)
        BY <4>2 DEF Mine
      <4> QED BY <4>1, <4>2
    <3>2. pc'[s] = pc[s] /\ \A q \in environment_app_comm[s] : pc'[q] = pc[q]
      BY <1>6, <2>0, <2>3, <3>1
    <3>3. Looking(s)'
      BY <1>1, <1>2, <2>0, <2>a, <3>2 DEF Looking
    <3>4. FoundFree(s)' /\ Made(s)'
      BY <1>1, <1>2, <2>0, <3>2 DEF FoundFree, Made
    <3>5. Entered(s)'
      BY <1>1, <1>2, <2>0, <2>a, <3>2 DEF Entered
    <3> QED BY <2>1, <3>3, <3>4, <3>5
  <2> QED BY <2>2, <2>3
<1> QED BY <1>8

LEMMA InitTeams == setupInit => TeamsInv
<1> SUFFICES ASSUME setupInit PROVE TeamsInv
  OBVIOUS
<1>1. /\ dirIter \in [World -> Nat] /\ environment_app_comm \in [World -> SUBSET World]
      /\ \A r \in World : pc[r] = "figure" /\ ~Mine(r) /\ dirIter[r] = 0
  BY DEF setupInit, Mine
<1> QED BY <1>1 DEF TeamsInv, TeamIs, Looking, FoundFree, Made, Entered, AtDirs

LEMMA NextTeams ==
  ASSUME GroupsInv, TeamsInv, [setupNext]_setupVars
  PROVE  TeamsInv'
<1>1. pc \in [World -> PCs]
  BY DEF GroupsInv
<1>2. DupWorkerless => Onward
  BY DupOnward
<1> QED BY <1>1, <1>2, Kinds, TeamsOnward, ArrangeTeams, SplitTeams, LookTeams, MakeTeams, EnterTeams

LEMMA TeamsAreInOne ==
  ASSUME TeamsInv
  PROVE  TeamsInOneDirectory
<1> SUFFICES ASSUME shape.nMasters = 1, NEW r \in World, NEW s \in World, Mine(r), Mine(s),
                    pc[r] \in {"send", "running"}, pc[s] \in {"send", "running"}
             PROVE  /\ <<thisWorkerGroupID(r), dirIter[r]>> \in dirs
                    /\ environment_app_comm[r] = environment_app_comm[s]
                         <=> /\ thisWorkerGroupID(r) = thisWorkerGroupID(s)
                             /\ dirIter[r] = dirIter[s]
  BY DEF TeamsInOneDirectory, dirOf, Mine
<1>1. Entered(r)
  BY DEF TeamsInv
<1>2. /\ <<thisWorkerGroupID(r), dirIter[r]>> \in dirs
      /\ \A q \in environment_app_comm[r] : dirIter[q] = dirIter[r]
  BY <1>1 DEF Entered, AtDirs
<1>3. CASE s \in environment_app_comm[r]
  <2>1. /\ environment_app_comm[r] = environment_app_comm[s]
        /\ thisWorkerGroupID(r) = thisWorkerGroupID(s)
    BY <1>3, TeamsApart
  <2> QED BY <1>2, <1>3, <2>1
<1>4. CASE s \notin environment_app_comm[r]
  <2>1. thisWorkerGroupID(r) # thisWorkerGroupID(s) /\ s \in environment_app_comm[s]
    BY <1>4, TeamsApart
  <2> QED BY <1>2, <1>4, <2>1
<1> QED BY <1>3, <1>4

\* The ranks of a team run in one directory, other teams in others (createGoRunDir).
THEOREM TeamsInOneDirectoryHolds == setupSpec => []TeamsInOneDirectory
<1>1. GroupsInv /\ TeamsInv /\ [setupNext]_setupVars => GroupsInv' /\ TeamsInv'
  BY NextGroups, NextTeams
<1>2. TeamsInv => TeamsInOneDirectory
  BY TeamsAreInOne
<1> QED BY <1>1, <1>2, InitGroups, InitTeams, PTL DEF setupSpec

\* The directory that the root of a team makes was not there before (createGoRunDir).
NewDirectories ==
  [][\A r \in World : shape.nMasters = 1 /\ MakeDir(r) => dirOf(r, dirIter[r]) \notin dirs]_setupVars

\* No team is given the directory of an earlier run, or of another team: the one that is
\* made is new (the loop over stat in createGoRunDir).
THEOREM DirectoriesAreNew == setupSpec => NewDirectories
<1>1. ASSUME GroupsInv, TeamsInv, NEW r \in World, shape.nMasters = 1, MakeDir(r)
      PROVE  dirOf(r, dirIter[r]) \notin dirs
  <2>1. /\ pc[r] = "barrier"
        /\ \A q \in environment_app_comm[r] : pc[q] = "barrier"
    BY <1>1 DEF MakeDir, TeamReady
  <2>2. FoundFree(r)
    BY <1>1 DEF TeamsInv
  <2> QED BY <2>1, <2>2 DEF FoundFree, dirOf
<1>2. GroupsInv /\ TeamsInv /\ [setupNext]_setupVars => GroupsInv' /\ TeamsInv'
  BY NextGroups, NextTeams
<1>3. GroupsInv /\ TeamsInv =>
        \A r \in World : shape.nMasters = 1 /\ MakeDir(r) => dirOf(r, dirIter[r]) \notin dirs
  BY <1>1
<1> QED BY <1>2, <1>3, InitGroups, InitTeams, PTL DEF setupSpec, NewDirectories

------------------------------------------------------------------------------
(* Checkpoint files                                                        *)

Saving == {"readTransitions", "writeStatus", "writeData"}
Copying == {"fillStatus", "openData", "fillData"}

LEMMA Removed ==
  ASSUME NEW s \in Seq(Lengths), NEW i \in DOMAIN s
  PROVE  RemoveAt(s, i) \in Seq(Lengths) /\ Len(RemoveAt(s, i)) = Len(s) - 1
<1>1. i \in 1 .. Len(s) /\ Len(s) \in Nat
  OBVIOUS
<1>2. /\ SubSeq(s, 1, i - 1) \in Seq(Lengths) /\ Len(SubSeq(s, 1, i - 1)) = i - 1
      /\ SubSeq(s, i + 1, Len(s)) \in Seq(Lengths) /\ Len(SubSeq(s, i + 1, Len(s))) = Len(s) - i
  BY <1>1
<1>3. SubSeq(s, 1, i - 1) \o SubSeq(s, i + 1, Len(s)) \in Seq(Lengths)
      /\ Len(SubSeq(s, 1, i - 1) \o SubSeq(s, i + 1, Len(s))) = (i - 1) + (Len(s) - i)
  BY <1>2
<1>4. RemoveAt(s, i) = SubSeq(s, 1, i - 1) \o SubSeq(s, i + 1, Len(s))
  BY DEF RemoveAt
<1>5. i \in Int /\ Len(s) \in Int
  BY <1>1
<1>6. (i - 1) + (Len(s) - i) = Len(s) - 1
  BY ONLY <1>5
<1> QED BY ONLY <1>3, <1>4, <1>6

LEMMA FirstOnes ==
  ASSUME NEW s \in Seq(Lengths), NEW n \in Nat, n <= Len(s)
  PROVE  SubSeq(s, 1, n) \in Seq(Lengths) /\ Len(SubSeq(s, 1, n)) = n
OBVIOUS

------------------------------------------------------------------------------
(* The data set and its counter                                             *)

MemTyped ==
  /\ episodes \in Seq(Lengths) /\ nEpisodes \in Int
  /\ hpc \in [Handlers -> {"idle", "countEpisode", "countTransitions"}]
  /\ dataset_mutex \in Handlers \cup {"main", Free}

\* The thread that holds the mutex is the one that is in the middle of a push.
MutexHeld ==
  /\ \A h \in Handlers : hpc[h] # "idle" <=> dataset_mutex = h
  /\ mpc = "removal" <=> dataset_mutex = "main"

\* The counter is late by the episode that is being pushed, and by no other.
Counted ==
  /\ (\E h \in Handlers : hpc[h] = "countEpisode") =>
       nEpisodes = Len(episodes) - 1 /\ Len(episodes) >= 1
  /\ (\A h \in Handlers : hpc[h] # "countEpisode") => nEpisodes = Len(episodes)

\* The files a restart can use: none of the save, or all the announced episodes.
FileTyped(f) ==
  \/ f = NoFile
  \/ f = EmptyFile
Written0(f) ==
  /\ f = [present |-> TRUE, nStoredEps |-> f.nStoredEps, nStoredObs |-> f.nStoredObs,
          nGradSteps |-> f.nGradSteps]
  /\ f.nStoredEps \in Nat /\ f.nGradSteps \in Nat
StatusTyped(f) == FileTyped(f) \/ Written0(f)
DataTyped(f) == FileTyped(f) \/ f \in Data

FilesTyped ==
  /\ files = [status |-> files.status, data |-> files.data, scaling |-> files.scaling]
  /\ backup = [status |-> backup.status, data |-> backup.data]
  /\ StatusTyped(files.status) /\ DataTyped(files.data)
  /\ StatusTyped(backup.status) /\ DataTyped(backup.data)
  /\ nStored = [eps |-> nStored.eps, obs |-> nStored.obs]

LEMMA MemoryFacts ==
  ASSUME FilesTyped
  PROVE  /\ LoadedMemory.eps \in Seq(Lengths) /\ LoadedMemory.nEps \in Nat
         /\ LoadedMemory.nEps = Len(LoadedMemory.eps) /\ LoadedMemory.steps \in Nat
<1>1. ASSUME LoadedMemory = FreshStart \/ LoadedMemory = [FreshStart EXCEPT !.ok = FALSE]
      PROVE  /\ LoadedMemory.eps = <<>> /\ LoadedMemory.nEps = 0 /\ LoadedMemory.steps = 0
  BY <1>1 DEF FreshStart
<1>2. CASE /\ files.status.present /\ files.data.present /\ Readable(files.status)
           /\ Len(Found) >= Announced
  <2>1. LoadedMemory = [ok |-> TRUE, eps |-> FirstFound, nEps |-> Announced,
                        nObs |-> files.status.nStoredObs, steps |-> files.status.nGradSteps]
    BY <1>2 DEF LoadedMemory
  <2>2. Announced \in Nat /\ files.status.nGradSteps \in Nat
    <3>1. Written0(files.status)
      BY <1>2 DEF FilesTyped, StatusTyped, FileTyped, Readable, NoFile, EmptyFile
    <3> QED BY <3>1 DEF Written0, Announced
  <2>3. Found \in Seq(Lengths)
    <3>1. CASE Readable(files.data)
      <4>1. files.data \in Data
        BY <3>1 DEF FilesTyped, DataTyped, FileTyped, Readable, NoFile, EmptyFile
      <4> QED BY <3>1, <4>1 DEF Found, Data
    <3>2. CASE ~Readable(files.data)
      BY <3>2 DEF Found
    <3> QED BY <3>1, <3>2
  <2>4. FirstFound \in Seq(Lengths) /\ Len(FirstFound) = Announced
    BY <1>2, <2>2, <2>3, FirstOnes DEF FirstFound
  <2> QED BY <2>1, <2>2, <2>4
<1>3. CASE ~(/\ files.status.present /\ files.data.present /\ Readable(files.status)
             /\ Len(Found) >= Announced)
  <2>1. LoadedMemory = FreshStart \/ LoadedMemory = [FreshStart EXCEPT !.ok = FALSE]
    BY <1>3 DEF LoadedMemory
  <2>2. LoadedMemory.eps = <<>> /\ LoadedMemory.nEps = 0 /\ LoadedMemory.steps = 0
    BY <1>1, <2>1
  <2> QED BY <2>2
<1> QED BY <1>2, <1>3

LEMMA LoadedFacts ==
  ASSUME FilesTyped
  PROVE  /\ Loaded.eps \in Seq(Lengths) /\ Loaded.nEps \in Nat
         /\ Loaded.nEps = Len(Loaded.eps) /\ Loaded.steps \in Nat
<1>1. CASE ParamsReadable
  BY <1>1, MemoryFacts DEF Loaded
<1>2. CASE ~ParamsReadable
  BY <1>2 DEF Loaded, FreshStart
<1> QED BY <1>1, <1>2

\* Both files are there, and the second holds what the first announces.
Usable ==
  /\ Written0(files.status) /\ files.data \in Data
  /\ Len(files.data.eps) >= files.status.nStoredEps

LEMMA UsableLoads == Usable => LoadedMemory.ok
<1> SUFFICES ASSUME Usable PROVE LoadedMemory.ok
  OBVIOUS
<1> DEFINE st == files.status
           d == files.data
<1>1. Written0(st) /\ d \in Data /\ Len(d.eps) >= st.nStoredEps
  BY DEF Usable
<1>2. st.present /\ d.present /\ Readable(st) /\ Readable(d)
  <2>1. \A a, b, c : /\ [present |-> TRUE, nStoredEps |-> a, nStoredObs |-> b, nGradSteps |-> c].present
                    /\ "empty" \notin DOMAIN [present |-> TRUE, nStoredEps |-> a, nStoredObs |-> b,
                                              nGradSteps |-> c]
    OBVIOUS
  <2>2. PICK a, b, c : files.status = [present |-> TRUE, nStoredEps |-> a, nStoredObs |-> b, nGradSteps |-> c]
    BY <1>1 DEF Written0
  <2>3. st.present /\ Readable(st)
    BY <2>1, <2>2 DEF Readable
  <2>4. d.present /\ DOMAIN d = {"present", "eps"}
    BY <1>1 DEF Data
  <2>5. Readable(d)
    BY <2>4 DEF Readable
  <2> QED BY <2>3, <2>4, <2>5
<1>3. Found = d.eps /\ Announced = st.nStoredEps
  BY <1>2 DEF Found, Announced
<1>4. LoadedMemory = [ok |-> TRUE, eps |-> FirstFound, nEps |-> Announced,
                nObs |-> files.status.nStoredObs, steps |-> files.status.nGradSteps]
  BY <1>1, <1>2, <1>3 DEF LoadedMemory
<1> QED BY <1>4

\* What a save has read or written, as far as it has come.
MainPCs == {"step", "removal", "openParams", "fillParams", "openScaling", "fillScaling",
            "readEpisodes", "readTransitions", "writeStatus", "writeData", "openStatus", "fillStatus", "openData", "fillData", "complete", "dead"}

SaveInv ==
  /\ mpc \in MainPCs
  /\ mpc \in Saving => nStored.eps \in Nat /\ nStored.eps <= Len(episodes)
  /\ mpc = "writeData" => Written0(backup.status) /\ backup.status.nStoredEps = nStored.eps
  /\ SaveWritten => /\ Written0(backup.status) /\ backup.data \in Data
                    /\ Len(backup.data.eps) = backup.status.nStoredEps
  /\ mpc \in {"openData", "fillData", "complete"} => files.status = backup.status

\* The memory is restored but for the moments in which its files are replaced.
LoadInv == mpc \in MainPCs \ (Copying \cup {"dead"}) => LoadedMemory.ok

\* A file of the networks is empty while it is being replaced; after a crash in that
\* moment nothing goes on.
Whole ==
  /\ files.scaling = EmptyFile => mpc \in {"fillScaling", "dead"}
  /\ \A i \in 1 .. nParams : paramFiles[i] = EmptyFile =>
       mpc = "dead" \/ (mpc = "fillParams" /\ i = nSaved + 1)

MemInv == MemTyped /\ MutexHeld /\ Counted /\ FilesTyped /\ SaveInv /\ LoadInv /\ Whole

NetTyped ==
  /\ nGradSteps \in Nat /\ crashes \in Nat /\ params \in [1 .. nParams -> Nat]
  /\ nSaved \in 0 .. nParams - 1
  /\ paramFiles \in [1 .. nParams -> {NoFile, EmptyFile} \cup Params]

IInv == MemInv /\ NetTyped

LEMMA InitMemInv == Init => MemInv
<1> SUFFICES ASSUME Init PROVE MemInv
  OBVIOUS
<1>1. /\ episodes = <<>> /\ nEpisodes = 0 /\ dataset_mutex = Free
      /\ hpc = [h \in Handlers |-> "idle"] /\ mpc = "step"
      /\ nStored = [eps |-> 0, obs |-> 0]
      /\ backup = [status |-> NoFile, data |-> NoFile]
      /\ files = [status |-> NoFile, data |-> NoFile, scaling |-> NoFile]
      /\ paramFiles = [n \in 1 .. nParams |-> NoFile]
  BY DEF Init
<1>2. MemTyped /\ Counted
  BY <1>1 DEF MemTyped, Counted
<1>3. MutexHeld
  BY <1>1, CheckpointAssumption DEF MutexHeld, Free
<1>4. FilesTyped
  BY <1>1 DEF FilesTyped, StatusTyped, DataTyped, FileTyped
<1>5. SaveInv
  BY <1>1 DEF SaveInv, MainPCs, Saving, SaveWritten
<1>6. LoadedMemory = FreshStart
  BY <1>1 DEF LoadedMemory, NoFile
<1>7. NoFile # EmptyFile
  BY DEF NoFile, EmptyFile
<1>8. Whole
  BY <1>1, <1>7 DEF Whole
<1> QED BY <1>2, <1>3, <1>4, <1>5, <1>6, <1>8 DEF IInv, MemInv, LoadInv, FreshStart

\* Steps of the handlers add to the data set, and leave the save and the files alone.
HandlerStep(h) ==
  \/ \E ndata \in Lengths : LockAndPush(h, ndata)
  \/ CountEpisode(h) \/ CountTransitions(h)

LEMMA HandlerKeepsMemory ==
  ASSUME IInv, NEW h \in Handlers, HandlerStep(h)
  PROVE  MemTyped' /\ MutexHeld' /\ Counted' /\ Len(episodes') >= Len(episodes)
         /\ UNCHANGED <<mpc, nStored, backup, files, NDEBUG, nSaved, paramFiles>>
<1>1. MemTyped /\ MutexHeld /\ Counted /\ Len(episodes) \in Nat
  BY DEF IInv, MemInv, MemTyped
<1>2. UNCHANGED <<mpc, nStored, backup, files, NDEBUG, nSaved, paramFiles>>
  BY DEF HandlerStep, LockAndPush, Push, CountEpisode, CountTransitions, saveVars, netVars
<1>3. h # Free /\ h # "main"
  BY CheckpointAssumption
<1>4. ASSUME NEW ndata \in Lengths, LockAndPush(h, ndata)
      PROVE  MemTyped' /\ MutexHeld' /\ Counted' /\ Len(episodes') >= Len(episodes)
  <2>1. /\ dataset_mutex = Free /\ dataset_mutex' = h /\ hpc[h] = "idle" /\ nEpisodes' = nEpisodes
        /\ hpc' = [hpc EXCEPT ![h] = "countEpisode"] /\ episodes' = Append(episodes, ndata)
    BY <1>4 DEF LockAndPush, Push
  <2>2. episodes' \in Seq(Lengths) /\ Len(episodes') = Len(episodes) + 1
    BY <1>1, <2>1 DEF MemTyped
  <2>3. \A g \in Handlers : hpc[g] = "idle" /\ hpc'[g] = IF g = h THEN "countEpisode" ELSE "idle"
    BY <1>1, <2>1, CheckpointAssumption DEF MemTyped, MutexHeld
  <2>4. MemTyped'
    BY <1>1, <2>1, <2>2 DEF MemTyped
  <2>5. MutexHeld'
    BY <1>1, <1>2, <1>3, <2>1, <2>3 DEF MutexHeld, Free
  <2>6. nEpisodes = Len(episodes)
    BY <1>1, <2>3 DEF Counted
  <2>7. Counted'
    BY <1>1, <2>1, <2>2, <2>3, <2>6 DEF Counted
  <2> QED BY <1>1, <2>2, <2>4, <2>5, <2>7
<1>5. CASE CountEpisode(h)
  <2>1. /\ hpc[h] = "countEpisode" /\ nEpisodes' = nEpisodes + 1 /\ episodes' = episodes
        /\ hpc' = [hpc EXCEPT ![h] = "countTransitions"] /\ dataset_mutex' = dataset_mutex
    BY <1>5 DEF CountEpisode
  <2>2. \A g \in Handlers : g # h => hpc[g] = "idle" /\ hpc'[g] = "idle"
    BY <1>1, <2>1 DEF MemTyped, MutexHeld
  <2>3. hpc'[h] = "countTransitions"
    BY <1>1, <2>1 DEF MemTyped
  <2>4. nEpisodes' = Len(episodes')
    BY <1>1, <2>1 DEF Counted, MemTyped
  <2>5. MemTyped'
    BY <1>1, <2>1 DEF MemTyped
  <2>6. MutexHeld'
    BY <1>1, <1>2, <2>1, <2>2, <2>3 DEF MutexHeld
  <2>7. Counted'
    BY <2>2, <2>3, <2>4 DEF Counted
  <2> QED BY <1>1, <1>2, <2>1, <2>5, <2>6, <2>7
<1>6. CASE CountTransitions(h)
  <2>1. /\ hpc[h] = "countTransitions" /\ nEpisodes' = nEpisodes /\ episodes' = episodes
        /\ hpc' = [hpc EXCEPT ![h] = "idle"] /\ dataset_mutex' = Free
    BY <1>6 DEF CountTransitions
  <2>2. dataset_mutex = h /\ \A g \in Handlers : g # h => hpc[g] = "idle" /\ hpc'[g] = "idle"
    BY <1>1, <2>1 DEF MemTyped, MutexHeld
  <2>3. hpc'[h] = "idle"
    BY <1>1, <2>1 DEF MemTyped
  <2>4. MemTyped'
    BY <1>1, <2>1 DEF MemTyped
  <2>5. MutexHeld'
    BY <1>1, <1>2, <1>3, <2>1, <2>2, <2>3, CheckpointAssumption DEF MutexHeld, Free
  <2>6. nEpisodes = Len(episodes)
    BY <1>1, <2>1, <2>2 DEF Counted
  <2>7. Counted'
    BY <2>1, <2>2, <2>3, <2>6 DEF Counted
  <2> QED BY <1>1, <1>2, <2>1, <2>4, <2>5, <2>7
<1> QED BY <1>2, <1>4, <1>5, <1>6 DEF HandlerStep

LEMMA HandlerKeeps ==
  ASSUME IInv, NEW h \in Handlers, HandlerStep(h)
  PROVE  MemInv'
<1>1. MemTyped' /\ MutexHeld' /\ Counted' /\ Len(episodes') >= Len(episodes)
      /\ UNCHANGED <<mpc, nStored, backup, files, NDEBUG, nSaved, paramFiles>>
  BY HandlerKeepsMemory
<1>2. Len(episodes) \in Nat /\ Len(episodes') \in Nat
  BY <1>1 DEF IInv, MemInv, MemTyped
<1>3. FilesTyped' /\ LoadInv' /\ Whole'
  BY <1>1 DEF IInv, MemInv, FilesTyped, LoadInv, LoadedMemory, Found, FirstFound, Announced, Whole
<1>4. SaveInv'
  BY <1>1, <1>2 DEF IInv, MemInv, SaveInv, SaveWritten
<1> QED BY <1>1, <1>3, <1>4 DEF IInv, MemInv

\* Steps of the main thread that leave the data set alone.
MemQuiet ==
  /\ UNCHANGED <<episodes, nEpisodes, hpc, dataset_mutex>>
  /\ mpc # "removal" /\ mpc' # "removal"

LEMMA MemQuietKeeps ==
  ASSUME IInv, MemQuiet
  PROVE  MemTyped' /\ MutexHeld' /\ Counted'
BY DEF IInv, MemInv, MemQuiet, MemTyped, MutexHeld, Counted

LEMMA RemovalKeeps ==
  ASSUME IInv, LockForRemoval \/ RemovalDone \/ \E i \in DOMAIN episodes : removeBackEpisode(i)
  PROVE  MemInv'
<1>1. MemTyped /\ MutexHeld /\ Counted /\ FilesTyped /\ LoadInv /\ Len(episodes) \in Nat
  BY DEF IInv, MemInv, MemTyped
<1>2. UNCHANGED <<nStored, backup, files, hpc, NDEBUG, nSaved, paramFiles>>
  BY DEF LockForRemoval, RemovalDone, removeBackEpisode, saveVars, hVars, netVars
<1>3. mpc \in {"step", "removal"} /\ mpc' \in {"removal", "openParams"}
  BY DEF LockForRemoval, RemovalDone, removeBackEpisode, MainGoto
<1>4. FilesTyped' /\ SaveInv' /\ Whole'
  <2>1. Whole
    BY DEF IInv, MemInv
  <2>2. Whole'
    BY <2>1, <1>2, <1>3 DEF Whole
  <2> QED BY <1>1, <1>2, <1>3, <2>2 DEF FilesTyped, SaveInv, SaveWritten, Saving, MainPCs
<1>5. LoadInv'
  <2>1. LoadedMemory.ok
    BY <1>1, <1>3 DEF LoadInv, MainPCs, Copying
  <2>2. LoadedMemory' = LoadedMemory
    BY <1>2 DEF LoadedMemory, Found, FirstFound, Announced
  <2> QED BY <2>1, <2>2 DEF LoadInv
<1>6. CASE LockForRemoval
  <2>1. /\ dataset_mutex = Free /\ dataset_mutex' = "main" /\ mpc' = "removal"
        /\ UNCHANGED <<episodes, nEpisodes, hpc>>
    BY <1>6 DEF LockForRemoval, MainGoto, memVars, hVars
  <2>2. MemTyped' /\ MutexHeld' /\ Counted'
    BY <1>1, <2>1, CheckpointAssumption DEF MemTyped, MutexHeld, Counted, Free
  <2> QED BY <1>4, <1>5, <2>2 DEF IInv, MemInv
<1>7. CASE RemovalDone
  <2>1. /\ mpc = "removal" /\ dataset_mutex' = Free /\ mpc' = "openParams"
        /\ UNCHANGED <<episodes, nEpisodes, hpc>>
    BY <1>7 DEF RemovalDone, MainGoto, memVars, hVars
  <2>2. MemTyped' /\ MutexHeld' /\ Counted'
    BY <1>1, <2>1, CheckpointAssumption DEF MemTyped, MutexHeld, Counted, Free
  <2> QED BY <1>4, <1>5, <2>2 DEF IInv, MemInv
<1>8. ASSUME NEW i \in DOMAIN episodes, removeBackEpisode(i) PROVE MemInv'
  <2>1. /\ mpc = "removal" /\ mpc' = mpc /\ dataset_mutex' = dataset_mutex
        /\ episodes' = RemoveAt(episodes, i) /\ nEpisodes' = nEpisodes - 1 /\ hpc' = hpc
    BY <1>8 DEF removeBackEpisode, hVars
  <2>2. episodes' \in Seq(Lengths) /\ Len(episodes') = Len(episodes) - 1
    <3>1. episodes \in Seq(Lengths)
      BY <1>1 DEF MemTyped
    <3> QED BY <2>1, <3>1, Removed
  <2>3. \A h \in Handlers : hpc[h] = "idle"
    BY <1>1, <2>1, CheckpointAssumption DEF MutexHeld, MemTyped
  <2>4. nEpisodes = Len(episodes)
    BY <1>1, <2>3 DEF Counted
  <2>5. MemTyped' /\ MutexHeld'
    BY <1>1, <2>1, <2>2 DEF MemTyped, MutexHeld
  <2>6. Counted'
    BY <2>1, <2>2, <2>3, <2>4 DEF Counted
  <2> QED BY <1>4, <1>5, <2>5, <2>6 DEF IInv, MemInv
<1> QED BY <1>6, <1>7, <1>8

LEMMA ReadKeeps ==
  ASSUME IInv, ReadEpisodes \/ ReadTransitions
  PROVE  MemInv'
<1>1. MemTyped /\ Counted /\ FilesTyped /\ LoadInv /\ SaveInv /\ Len(episodes) \in Nat
  BY DEF IInv, MemInv, MemTyped
<1>2. UNCHANGED <<episodes, nEpisodes, hpc, dataset_mutex, backup, files, NDEBUG, nSaved,
                  paramFiles>>
  BY DEF ReadEpisodes, ReadTransitions, memVars, hVars, netVars
<1>3. \/ mpc = "readEpisodes" /\ mpc' = "readTransitions"
      \/ mpc = "readTransitions" /\ mpc' = "writeStatus"
  BY DEF ReadEpisodes, ReadTransitions, MainGoto
<1>4. MemTyped' /\ MutexHeld' /\ Counted'
  BY <1>2, <1>3, MemQuietKeeps DEF MemQuiet
<1>5. LoadInv' /\ Whole'
  <2>1. LoadedMemory.ok
    BY <1>1, <1>3 DEF LoadInv, MainPCs, Copying
  <2>2. LoadedMemory' = LoadedMemory
    BY <1>2 DEF LoadedMemory, Found, FirstFound, Announced
  <2>3. Whole'
    BY <1>2, <1>3 DEF IInv, MemInv, Whole
  <2> QED BY <2>1, <2>2, <2>3 DEF LoadInv
<1>6. nEpisodes \in Nat /\ nEpisodes <= Len(episodes)
  BY <1>1 DEF Counted, MemTyped
<1>7. nStored = [eps |-> nStored.eps, obs |-> nStored.obs]
  BY <1>1 DEF FilesTyped
<1>8. CASE ReadEpisodes
  <2>1. nStored' = [nStored EXCEPT !.eps = nEpisodes] /\ mpc' = "readTransitions"
    BY <1>8 DEF ReadEpisodes, MainGoto
  <2>2. nStored'.eps = nEpisodes /\ nStored' = [eps |-> nStored'.eps, obs |-> nStored'.obs]
    BY <1>7, <2>1
  <2>3. FilesTyped'
    BY <1>1, <1>2, <2>2 DEF FilesTyped
  <2>4. SaveInv'
    BY <1>2, <1>6, <2>1, <2>2 DEF SaveInv, MainPCs, SaveWritten
  <2> QED BY <1>4, <1>5, <2>3, <2>4 DEF IInv, MemInv
<1>9. CASE ReadTransitions
  <2>1. /\ nStored' = [nStored EXCEPT !.obs = nTransitions] /\ mpc = "readTransitions"
        /\ mpc' = "writeStatus"
    BY <1>9 DEF ReadTransitions, MainGoto
  <2>2. nStored'.eps = nStored.eps /\ nStored' = [eps |-> nStored'.eps, obs |-> nStored'.obs]
    BY <1>7, <2>1
  <2>3. FilesTyped'
    BY <1>1, <1>2, <2>2 DEF FilesTyped
  <2>4. SaveInv'
    BY <1>1, <1>2, <2>1, <2>2 DEF SaveInv, MainPCs, Saving, SaveWritten
  <2> QED BY <1>4, <1>5, <2>3, <2>4 DEF IInv, MemInv
<1> QED BY <1>8, <1>9

LEMMA WriteKeeps ==
  ASSUME IInv, WriteStatus \/ WriteData
  PROVE  MemInv'
<1>1. MemTyped /\ FilesTyped /\ LoadInv /\ SaveInv
  BY DEF IInv, MemInv
<1>2. UNCHANGED <<episodes, nEpisodes, hpc, dataset_mutex, nStored, files, NDEBUG, nSaved,
                  paramFiles>>
  BY DEF WriteStatus, WriteData, memVars, hVars, netVars
<1>3. \/ mpc = "writeStatus" /\ mpc' = "writeData"
      \/ mpc = "writeData" /\ mpc' = "openStatus"
  BY DEF WriteStatus, WriteData, MainGoto
<1>4. MemTyped' /\ MutexHeld' /\ Counted'
  BY <1>2, <1>3, MemQuietKeeps DEF MemQuiet
<1>5. LoadInv' /\ Whole'
  <2>1. LoadedMemory.ok
    BY <1>1, <1>3 DEF LoadInv, MainPCs, Copying
  <2>2. LoadedMemory' = LoadedMemory
    BY <1>2 DEF LoadedMemory, Found, FirstFound, Announced
  <2>3. Whole'
    BY <1>2, <1>3 DEF IInv, MemInv, Whole
  <2> QED BY <2>1, <2>2, <2>3 DEF LoadInv
<1>6. backup = [status |-> backup.status, data |-> backup.data]
      /\ nStored.eps \in Nat /\ nStored.eps <= Len(episodes) /\ episodes \in Seq(Lengths)
  BY <1>1, <1>3 DEF FilesTyped, SaveInv, Saving, MemTyped
<1>7. CASE WriteStatus
  <2> DEFINE f == [present |-> TRUE, nStoredEps |-> nStored.eps, nStoredObs |-> nStored.obs,
                   nGradSteps |-> nGradSteps + 1]
  <2>1. backup' = [backup EXCEPT !.status = f] /\ mpc' = "writeData"
    BY <1>7 DEF WriteStatus, MainGoto
  <2>2. Written0(f) /\ f.nStoredEps = nStored.eps
    BY <1>6 DEF Written0, IInv, NetTyped
  <2> HIDE DEF f
  <2>3. backup'.status = f /\ backup'.data = backup.data
        /\ backup' = [status |-> backup'.status, data |-> backup'.data]
    BY <1>6, <2>1
  <2>4. FilesTyped'
    BY <1>1, <1>2, <2>2, <2>3 DEF FilesTyped, StatusTyped
  <2>5. SaveInv'
    BY <1>2, <1>6, <2>1, <2>2, <2>3 DEF SaveInv, MainPCs, SaveWritten
  <2> QED BY <1>4, <1>5, <2>4, <2>5 DEF IInv, MemInv
<1>8. CASE WriteData
  <2> DEFINE f == [present |-> TRUE, eps |-> Written]
  <2>1. backup' = [backup EXCEPT !.data = f] /\ mpc' = "openStatus" /\ mpc = "writeData"
    BY <1>8 DEF WriteData, MainGoto
  <2>2. Written \in Seq(Lengths) /\ Len(Written) = nStored.eps
    BY <1>6, FirstOnes DEF Written
  <2>3. f \in Data /\ Len(f.eps) = nStored.eps
    BY <2>2 DEF Data
  <2> HIDE DEF f
  <2>4. backup'.data = f /\ backup'.status = backup.status
        /\ backup' = [status |-> backup'.status, data |-> backup'.data]
    BY <1>6, <2>1
  <2>5. Written0(backup.status) /\ backup.status.nStoredEps = nStored.eps
    BY <1>1, <2>1 DEF SaveInv
  <2>6. FilesTyped'
    BY <1>1, <1>2, <2>3, <2>4 DEF FilesTyped, DataTyped
  <2>7. SaveInv'
    BY <2>1, <2>3, <2>4, <2>5 DEF SaveInv, MainPCs, Saving
  <2> QED BY <1>4, <1>5, <2>6, <2>7 DEF IInv, MemInv
<1> QED BY <1>7, <1>8

\* Emptying and filling one of the two files leaves the other one alone.
LEMMA CopyKeeps ==
  ASSUME IInv, CopyFiles
  PROVE  MemInv'
<1>1. MemTyped /\ FilesTyped /\ SaveInv
  BY DEF IInv, MemInv
<1>2. UNCHANGED <<episodes, nEpisodes, hpc, dataset_mutex, nStored, backup, NDEBUG, nSaved,
                  paramFiles>>
  BY DEF CopyFiles, Copy, memVars, hVars, saveVars, netVars
<1>3. files = [status |-> files.status, data |-> files.data, scaling |-> files.scaling]
  BY <1>1 DEF FilesTyped
<1> DEFINE empty == EmptyFile
<1>4. \/ /\ mpc = "openStatus" /\ mpc' = "fillStatus"
         /\ files' = [files EXCEPT !["status"] = empty]
      \/ /\ mpc = "fillStatus" /\ mpc' = "openData"
         /\ files' = [files EXCEPT !["status"] = backup.status]
      \/ /\ mpc = "openData" /\ mpc' = "fillData"
         /\ files' = [files EXCEPT !["data"] = empty]
      \/ /\ mpc = "fillData" /\ mpc' = "complete"
         /\ files' = [files EXCEPT !["data"] = backup.data]
  BY DEF CopyFiles, Copy, MainGoto
<1>5. mpc # "removal" /\ mpc' # "removal" /\ SaveWritten
  BY <1>4 DEF SaveWritten
<1>6. MemTyped' /\ MutexHeld' /\ Counted'
  BY <1>2, <1>5, MemQuietKeeps DEF MemQuiet
<1>7. /\ Written0(backup.status) /\ backup.data \in Data
      /\ Len(backup.data.eps) = backup.status.nStoredEps
  BY <1>1, <1>5 DEF SaveInv
<1>8. StatusTyped(empty) /\ DataTyped(empty) /\ StatusTyped(backup.status) /\ DataTyped(backup.data)
  BY <1>7 DEF StatusTyped, DataTyped, FileTyped
<1>9. StatusTyped(files.status) /\ DataTyped(files.data)
  BY <1>1 DEF FilesTyped
<1> HIDE DEF empty
<1>14. Whole'
  <2>1. files'.scaling = files.scaling
    BY <1>3, <1>4
  <2>2. mpc \notin {"fillScaling", "dead", "fillParams"}
    BY <1>4
  <2> QED BY <1>2, <2>1, <2>2 DEF IInv, MemInv, Whole
<1>10. CASE /\ mpc = "openStatus" /\ mpc' = "fillStatus"
            /\ files' = [files EXCEPT !["status"] = empty]
  <2>1. /\ files'.status = empty /\ files'.data = files.data /\ files'.scaling = files.scaling
        /\ files' = [status |-> files'.status, data |-> files'.data, scaling |-> files'.scaling]
    BY <1>3, <1>10
  <2>2. FilesTyped'
    BY <1>1, <1>2, <1>8, <1>9, <2>1 DEF FilesTyped
  <2>3. SaveInv' /\ LoadInv'
    BY <1>2, <1>7, <1>10 DEF SaveInv, LoadInv, MainPCs, Saving, Copying
  <2> QED BY <1>6, <1>14, <2>2, <2>3 DEF IInv, MemInv
<1>11. CASE /\ mpc = "fillStatus" /\ mpc' = "openData"
            /\ files' = [files EXCEPT !["status"] = backup.status]
  <2>1. /\ files'.status = backup.status /\ files'.data = files.data /\ files'.scaling = files.scaling
        /\ files' = [status |-> files'.status, data |-> files'.data, scaling |-> files'.scaling]
    BY <1>3, <1>11
  <2>2. FilesTyped'
    BY <1>1, <1>2, <1>8, <1>9, <2>1 DEF FilesTyped
  <2>3. SaveInv' /\ LoadInv'
    BY <1>2, <1>7, <1>11, <2>1 DEF SaveInv, LoadInv, MainPCs, Saving, Copying
  <2> QED BY <1>6, <1>14, <2>2, <2>3 DEF IInv, MemInv
<1>12. CASE /\ mpc = "openData" /\ mpc' = "fillData"
            /\ files' = [files EXCEPT !["data"] = empty]
  <2>1. /\ files'.data = empty /\ files'.status = files.status /\ files'.scaling = files.scaling
        /\ files' = [status |-> files'.status, data |-> files'.data, scaling |-> files'.scaling]
    BY <1>3, <1>12
  <2>2. FilesTyped'
    BY <1>1, <1>2, <1>8, <1>9, <2>1 DEF FilesTyped
  <2>3. files.status = backup.status
    BY <1>1, <1>12 DEF SaveInv
  <2>4. SaveInv' /\ LoadInv'
    BY <1>2, <1>7, <1>12, <2>1, <2>3 DEF SaveInv, LoadInv, MainPCs, Saving, Copying
  <2> QED BY <1>6, <1>14, <2>2, <2>4 DEF IInv, MemInv
<1>13. CASE /\ mpc = "fillData" /\ mpc' = "complete"
            /\ files' = [files EXCEPT !["data"] = backup.data]
  <2>1. files.status = backup.status
    BY <1>1, <1>13 DEF SaveInv
  <2>2. /\ files'.data = backup.data /\ files'.status = backup.status
        /\ files'.scaling = files.scaling
        /\ files' = [status |-> files'.status, data |-> files'.data, scaling |-> files'.scaling]
    BY <1>3, <1>13, <2>1
  <2>3. FilesTyped'
    BY <1>1, <1>2, <1>8, <2>2 DEF FilesTyped
  <2>4. SaveInv'
    BY <1>2, <1>7, <1>13, <2>2 DEF SaveInv, MainPCs, Saving
  <2>5. backup.status.nStoredEps \in Nat
    BY <1>7 DEF Written0
  <2>6. Len(backup.data.eps) >= backup.status.nStoredEps
    BY <1>7, <2>5
  <2>7. Usable'
    BY <1>7, <2>2, <2>6 DEF Usable
  <2>8. (Usable => LoadedMemory.ok)'
    BY UsableLoads, PTL
  <2> QED BY <1>6, <1>14, <2>3, <2>4, <2>7, <2>8 DEF IInv, MemInv, LoadInv
<1> QED BY <1>4, <1>10, <1>11, <1>12, <1>13

LEMMA CompleteKeeps ==
  ASSUME IInv, globalGradCounterUpdate
  PROVE  MemInv'
<1>1. MemTyped /\ FilesTyped /\ LoadInv /\ SaveInv
  BY DEF IInv, MemInv
<1>2. UNCHANGED <<episodes, nEpisodes, hpc, dataset_mutex, nStored, backup, files, NDEBUG,
                  nSaved, paramFiles>>
  BY DEF globalGradCounterUpdate, memVars, hVars, saveVars
<1>3. mpc = "complete" /\ mpc' = "step"
  BY DEF globalGradCounterUpdate, MainGoto
<1>4. MemTyped' /\ MutexHeld' /\ Counted'
  BY <1>2, <1>3, MemQuietKeeps DEF MemQuiet
<1>5. LoadedMemory.ok
  BY <1>1, <1>3 DEF LoadInv, MainPCs, Copying
<1>6. LoadedMemory' = LoadedMemory
  BY <1>2 DEF LoadedMemory, Found, FirstFound, Announced
<1>7. LoadInv'
  BY <1>5, <1>6 DEF LoadInv
<1>8. FilesTyped'
  BY <1>1, <1>2 DEF FilesTyped
<1>9. SaveInv'
  BY <1>3 DEF SaveInv, MainPCs, Saving, SaveWritten
<1>10. Whole'
  BY <1>2, <1>3 DEF IInv, MemInv, Whole
<1> QED BY <1>4, <1>7, <1>8, <1>9, <1>10 DEF IInv, MemInv

\* The files of the networks and of the scaling are replaced one after the other.
LEMMA NetKeeps ==
  ASSUME IInv, OpenParams \/ FillParams \/ CopyScaling
  PROVE  MemInv'
<1>1. MemTyped /\ FilesTyped /\ LoadInv /\ SaveInv /\ Whole
  BY DEF IInv, MemInv
<1>2. UNCHANGED <<episodes, nEpisodes, hpc, dataset_mutex, nStored, backup, NDEBUG>>
  BY DEF OpenParams, FillParams, CopyScaling, Copy, memVars, hVars, saveVars, netVars
<1>3. /\ mpc \in {"openParams", "fillParams", "openScaling", "fillScaling"}
      /\ mpc' \in {"openParams", "fillParams", "openScaling", "fillScaling", "readEpisodes"}
  BY DEF OpenParams, FillParams, CopyScaling, Copy, MainGoto
<1>4. MemTyped' /\ MutexHeld' /\ Counted'
  BY <1>2, <1>3, MemQuietKeeps DEF MemQuiet
<1>5. /\ files'.status = files.status /\ files'.data = files.data
      /\ files' = [status |-> files'.status, data |-> files'.data, scaling |-> files'.scaling]
  <2>1. files = [status |-> files.status, data |-> files.data, scaling |-> files.scaling]
    BY <1>1 DEF FilesTyped
  <2>2. \/ files' = files \/ files' = [files EXCEPT !["scaling"] = EmptyFile]
        \/ files' = [files EXCEPT !["scaling"] = [present |-> TRUE]]
    BY DEF OpenParams, FillParams, CopyScaling, Copy
  <2> QED BY <2>1, <2>2
<1>6. FilesTyped'
  BY <1>1, <1>2, <1>5 DEF FilesTyped
<1>7. SaveInv'
  BY <1>3 DEF SaveInv, MainPCs, Saving, SaveWritten
<1>8. LoadInv'
  <2>1. LoadedMemory.ok
    BY <1>1, <1>3 DEF LoadInv, MainPCs, Copying
  <2>2. LoadedMemory' = LoadedMemory
    BY <1>2, <1>5 DEF LoadedMemory, Found, FirstFound, Announced
  <2> QED BY <2>1, <2>2 DEF LoadInv
<1>9. Whole'
  <2>1. CASE OpenParams
    <3>1. /\ mpc = "openParams" /\ mpc' = "fillParams" /\ nSaved' = nSaved /\ files' = files
          /\ paramFiles' = [paramFiles EXCEPT ![nSaved + 1] = EmptyFile]
      BY <2>1 DEF OpenParams, MainGoto
    <3>2. \A i \in 1 .. nParams : paramFiles'[i] = EmptyFile => i = nSaved + 1
      BY <1>1, <3>1 DEF Whole, IInv, NetTyped
    <3> QED BY <1>1, <3>1, <3>2 DEF Whole
  <2>2. CASE FillParams
    <3> DEFINE f == [present |-> TRUE, updates |-> params[nSaved + 1]]
    <3>1. /\ mpc = "fillParams" /\ mpc' # "dead" /\ mpc' # "fillParams" /\ files' = files
          /\ paramFiles' = [paramFiles EXCEPT ![nSaved + 1] = f]
      BY <2>2 DEF FillParams, MainGoto
    <3>2. f # EmptyFile
      BY DEF EmptyFile
    <3> HIDE DEF f
    <3>3. \A i \in 1 .. nParams : paramFiles'[i] # EmptyFile
      BY <1>1, <3>1, <3>2 DEF Whole, IInv, NetTyped
    <3> QED BY <1>1, <3>1, <3>3 DEF Whole
  <2>3. CASE CopyScaling
    <3>1. UNCHANGED <<nSaved, paramFiles>>
      BY <2>3 DEF CopyScaling, Copy, netVars
    <3>2. \/ mpc = "openScaling" /\ mpc' = "fillScaling"
          \/ /\ mpc = "fillScaling" /\ mpc' = "readEpisodes"
             /\ files' = [files EXCEPT !["scaling"] = [present |-> TRUE]]
      BY <2>3 DEF CopyScaling, Copy, MainGoto
    <3>3. [present |-> TRUE] # EmptyFile
      BY DEF EmptyFile
    <3>4. files = [status |-> files.status, data |-> files.data, scaling |-> files.scaling]
      BY <1>1 DEF FilesTyped
    <3>5. files'.scaling = EmptyFile => mpc' = "fillScaling"
      BY <3>2, <3>3, <3>4
    <3> QED BY <1>1, <3>1, <3>2, <3>5 DEF Whole
  <2> QED BY <2>1, <2>2, <2>3
<1> QED BY <1>4, <1>6, <1>7, <1>8, <1>9 DEF IInv, MemInv

LEMMA CrashKeeps ==
  ASSUME IInv, CrashAndRestart
  PROVE  MemInv'
<1>1. FilesTyped
  BY DEF IInv, MemInv
<1>2. UNCHANGED <<backup, files, NDEBUG, paramFiles>>
  BY DEF CrashAndRestart
<1>3. /\ episodes' = Loaded.eps /\ nEpisodes' = Loaded.nEps /\ dataset_mutex' = Free
      /\ hpc' = [h \in Handlers |-> "idle"] /\ mpc' = (IF Loaded.ok THEN "step" ELSE "dead")
      /\ nStored' = [eps |-> 0, obs |-> 0]
  BY DEF CrashAndRestart
<1>4. mpc' \in {"step", "dead"}
  BY <1>3
<1>5. episodes' \in Seq(Lengths) /\ nEpisodes' \in Nat /\ nEpisodes' = Len(episodes')
  BY <1>1, <1>3, LoadedFacts
<1>6. MemTyped' /\ Counted'
  BY <1>3, <1>5 DEF MemTyped, Counted
<1>7. MutexHeld'
  BY <1>3, <1>4, CheckpointAssumption DEF MutexHeld, Free
<1>8. FilesTyped'
  BY <1>1, <1>2, <1>3 DEF FilesTyped
<1>9. SaveInv'
  BY <1>4 DEF SaveInv, MainPCs, Saving, SaveWritten
<1>10. LoadedMemory' = LoadedMemory
  BY <1>2 DEF LoadedMemory, Found, FirstFound, Announced
<1>11. CASE Loaded.ok
  <2>1. ParamsReadable /\ LoadedMemory.ok
    BY <1>11 DEF Loaded, FreshStart
  <2>2. LoadInv'
    BY <1>10, <2>1 DEF LoadInv
  <2>3. Whole'
    BY <1>2, <2>1 DEF Whole, ParamsReadable
  <2> QED BY <1>6, <1>7, <1>8, <1>9, <2>2, <2>3 DEF IInv, MemInv
<1>12. CASE ~Loaded.ok
  <2>1. mpc' = "dead"
    BY <1>3, <1>12
  <2>2. LoadInv' /\ Whole'
    BY <2>1 DEF LoadInv, Whole
  <2> QED BY <1>6, <1>7, <1>8, <1>9, <2>2 DEF IInv, MemInv
<1> QED BY <1>11, <1>12

LEMMA NextMemInv == IInv /\ [Next]_vars => MemInv'
<1> SUFFICES ASSUME IInv, [Next]_vars PROVE MemInv'
  OBVIOUS
<1>1. CASE UNCHANGED vars
  <2>1. UNCHANGED <<episodes, nEpisodes, dataset_mutex, hpc, mpc, nStored, backup, files,
                    NDEBUG, nSaved, paramFiles>>
    BY <1>1 DEF vars, memVars, hVars, saveVars, netVars
  <2> QED BY <2>1 DEF IInv, MemInv, MemTyped, MutexHeld, Counted, FilesTyped, SaveInv, LoadInv, Whole,
                      SaveWritten, LoadedMemory, Found, FirstFound, Announced
<1>2. ASSUME NEW h \in Handlers, HandlerStep(h) PROVE MemInv'
  BY <1>2, HandlerKeeps
<1>3. CASE LockForRemoval \/ RemovalDone \/ \E i \in DOMAIN episodes : removeBackEpisode(i)
  BY <1>3, RemovalKeeps
<1>4. CASE ReadEpisodes \/ ReadTransitions
  BY <1>4, ReadKeeps
<1>5. CASE WriteStatus \/ WriteData
  BY <1>5, WriteKeeps
<1>6. CASE CopyFiles
  BY <1>6, CopyKeeps
<1>7. CASE globalGradCounterUpdate
  BY <1>7, CompleteKeeps
<1>8. CASE CrashAndRestart
  BY <1>8, CrashKeeps
<1>9. CASE OpenParams \/ FillParams \/ CopyScaling
  BY <1>9, NetKeeps
<1> QED BY <1>1, <1>2, <1>3, <1>4, <1>5, <1>6, <1>7, <1>8, <1>9 DEF Next, HandlerStep

\* What the main thread does with the networks.
NetStep ==
  \/ OpenParams \/ FillParams \/ globalGradCounterUpdate \/ CrashAndRestart

LEMMA OthersLeaveNets ==
  ASSUME [Next]_vars, ~NetStep
  PROVE  UNCHANGED <<NDEBUG, nGradSteps, params, nSaved, paramFiles, crashes>>
BY DEF NetStep, Next, LockAndPush, Push, CountEpisode, CountTransitions, LockForRemoval,
   RemovalDone, removeBackEpisode, CopyScaling, ReadEpisodes, ReadTransitions, WriteStatus,
   WriteData, CopyFiles, Copy, netVars, vars

\* What Network::restart makes of a file.
LEMMA ParamsLoaded ==
  ASSUME NetTyped, NEW i \in 1 .. nParams
  PROVE  /\ LoadedParams[i] \in Nat
         /\ paramFiles[i] \in Params => LoadedParams[i] = paramFiles[i].updates
         /\ paramFiles[i] \in {NoFile, EmptyFile} \cup Params
<1>1. paramFiles[i] \in {NoFile, EmptyFile} \cup Params
  BY DEF NetTyped
<1>2. CASE paramFiles[i] = NoFile
  <2>1. ~NoFile.present /\ NoFile \notin Params
    BY DEF NoFile, Params
  <2> QED BY <1>1, <1>2, <2>1 DEF LoadedParams
<1>3. CASE paramFiles[i] = EmptyFile
  <2>1. ~Readable(EmptyFile) /\ EmptyFile \notin Params
    BY DEF EmptyFile, Readable, Params
  <2> QED BY <1>1, <1>3, <2>1 DEF LoadedParams
<1>4. CASE paramFiles[i] \in Params
  <2>1. PICK n \in Nat : paramFiles[i] = [present |-> TRUE, updates |-> n]
    BY <1>4 DEF Params
  <2>2. paramFiles[i].present /\ Readable(paramFiles[i]) /\ paramFiles[i].updates = n
    BY <2>1 DEF Readable
  <2> QED BY <1>1, <1>4, <2>2 DEF LoadedParams
<1> QED BY <1>1, <1>2, <1>3, <1>4

LEMMA NextNetTyped == IInv /\ [Next]_vars => NetTyped'
<1> SUFFICES ASSUME IInv, [Next]_vars PROVE NetTyped'
  OBVIOUS
<1>1. NetTyped /\ nParams \in Nat \ {0}
  BY CheckpointAssumption DEF IInv
<1>2. nSaved + 1 \in 1 .. nParams
  BY <1>1 DEF NetTyped
<1>3. CASE OpenParams
  BY <1>1, <1>3 DEF OpenParams, NetTyped
<1>4. CASE FillParams
  <2>1. (nSaved + 1) % nParams \in 0 .. nParams - 1
    BY <1>1, <1>2
  <2>2. [present |-> TRUE, updates |-> params[nSaved + 1]] \in Params
    BY <1>1, <1>2 DEF NetTyped, Params
  <2> QED BY <1>1, <1>4, <2>1, <2>2 DEF FillParams, NetTyped
<1>5. CASE globalGradCounterUpdate
  BY <1>1, <1>5 DEF globalGradCounterUpdate, NetTyped
<1>6. CASE CrashAndRestart
  <2>1. LoadedParams \in [1 .. nParams -> Nat]
    BY ParamsLoaded DEF IInv, LoadedParams
  <2>2. Loaded.steps \in Nat
    BY LoadedFacts DEF IInv, MemInv
  <2> QED BY <1>1, <1>6, <2>1, <2>2 DEF CrashAndRestart, NetTyped
<1>7. CASE ~NetStep
  BY <1>1, <1>7, OthersLeaveNets DEF NetTyped
<1> QED BY <1>3, <1>4, <1>5, <1>6, <1>7 DEF NetStep

\* The inductive invariant of Checkpoint.
THEOREM Inductive == Spec => []IInv
<1>1. Init => IInv
  BY InitMemInv, CheckpointAssumption DEF Init, IInv, NetTyped
<1>2. IInv /\ [Next]_vars => IInv'
  BY NextMemInv, NextNetTyped DEF IInv
<1> QED BY <1>1, <1>2, PTL DEF Spec

------------------------------------------------------------------------------
(* The updates of the networks and the counter of steps                     *)

\* The step that the status file announces.
StatusSteps == IF Written0(files.status) THEN files.status.nGradSteps ELSE 0

ParamsSaved(i) == paramFiles[i] = [present |-> TRUE, updates |-> params[i]]

AfterParams == {"openScaling", "fillScaling", "readEpisodes", "readTransitions", "writeStatus",
                "writeData", "openStatus", "fillStatus", "openData", "fillData", "complete"}

\* How far the files of the networks are when those of the memory are replaced.
SavedInOrder ==
  /\ mpc \in {"openParams", "fillParams"} => \A i \in 1 .. nSaved : ParamsSaved(i)
  /\ mpc \notin {"openParams", "fillParams"} => nSaved = 0
  /\ mpc \in AfterParams => \A i \in 1 .. nParams : ParamsSaved(i)
  /\ mpc = "writeData" \/ SaveWritten => backup.status.nGradSteps = nGradSteps + 1
  /\ Written0(files.status) => \A i \in 1 .. nParams : paramFiles[i] # NoFile

\* Neither the networks nor their files are behind the status file by more than the
\* step of the save and one for each restart.
NotBehind ==
  /\ UpdatesKept
  /\ mpc # "dead" => \A i \in 1 .. nParams : params[i] + crashes + 1 >= StatusSteps
  /\ \A i \in 1 .. nParams : paramFiles[i] \in Params =>
       paramFiles[i].updates + crashes + 1 >= StatusSteps

UpdateInv == SavedInOrder /\ NotBehind

LEMMA FileFacts ==
  ASSUME IInv, NEW i \in 1 .. nParams
  PROVE  /\ params[i] \in Nat /\ nGradSteps \in Nat /\ crashes \in Nat /\ StatusSteps \in Nat
         /\ nSaved \in 0 .. nParams - 1 /\ nParams \in Nat \ {0}
         /\ paramFiles[i] \in Params => paramFiles[i].updates \in Nat
BY CheckpointAssumption DEF IInv, NetTyped, StatusSteps, Written0, Params

LEMMA InitUpdateInv == Init => UpdateInv
<1> SUFFICES ASSUME Init PROVE UpdateInv
  OBVIOUS
<1>1. ~Written0(NoFile) /\ NoFile \notin Params
  BY DEF Written0, NoFile, Params
<1>2. StatusSteps = 0
  BY <1>1 DEF Init, StatusSteps
<1>3. SavedInOrder
  BY <1>1 DEF Init, SavedInOrder, AfterParams, SaveWritten
<1>4. NotBehind
  BY <1>1, <1>2 DEF Init, NotBehind, UpdatesKept
<1> QED BY <1>3, <1>4 DEF UpdateInv

\* A restart takes the counter from the status file or begins at zero.
LEMMA LoadedSteps ==
  ASSUME FilesTyped
  PROVE  \/ Loaded.steps = 0
         \/ Loaded.steps = StatusSteps /\ Written0(files.status) /\ ParamsReadable
<1>1. CASE ParamsReadable /\ /\ files.status.present /\ files.data.present
                             /\ Readable(files.status) /\ Len(Found) >= Announced
  <2>1. Loaded.steps = files.status.nGradSteps
    BY <1>1 DEF Loaded, LoadedMemory
  <2>2. Written0(files.status)
    BY <1>1 DEF FilesTyped, StatusTyped, FileTyped, Readable, NoFile, EmptyFile
  <2> QED BY <1>1, <2>1, <2>2 DEF StatusSteps
<1>2. CASE ~(ParamsReadable /\ /\ files.status.present /\ files.data.present
                               /\ Readable(files.status) /\ Len(Found) >= Announced)
  <2>1. Loaded = FreshStart \/ Loaded = [FreshStart EXCEPT !.ok = FALSE]
    BY <1>2 DEF Loaded, LoadedMemory
  <2>2. Loaded.steps = 0
    BY <2>1 DEF FreshStart
  <2> QED BY <2>2
<1> QED BY <1>1, <1>2

\* Steps that leave the networks, their files, the status files and the counter alone.
LEMMA QuietKeepsUpdates ==
  ASSUME UpdateInv, UNCHANGED <<params, paramFiles, nSaved, nGradSteps, crashes>>,
         files'.status = files.status, backup'.status = backup.status,
         mpc \notin {"openParams", "fillParams", "dead"},
         mpc' \in AfterParams => mpc \in AfterParams,
         mpc' \in {"openParams", "fillParams"} => nSaved = 0,
         (mpc' = "writeData" \/ SaveWritten') => (mpc = "writeData" \/ SaveWritten)
  PROVE  UpdateInv'
<1>1. StatusSteps' = StatusSteps
  BY DEF StatusSteps, Written0
<1>2. nSaved = 0 /\ 1 .. 0 = {}
  BY DEF UpdateInv, SavedInOrder
<1>3. SavedInOrder'
  BY <1>2 DEF UpdateInv, SavedInOrder, ParamsSaved, Written0
<1>4. NotBehind'
  BY <1>1 DEF UpdateInv, NotBehind, UpdatesKept
<1> QED BY <1>3, <1>4 DEF UpdateInv

\* The same of steps that leave the main thread where it is.
LEMMA HandlerKeepsUpdates ==
  ASSUME UpdateInv,
         UNCHANGED <<params, paramFiles, nSaved, nGradSteps, crashes, files, backup, mpc>>
  PROVE  UpdateInv'
BY DEF UpdateInv, SavedInOrder, NotBehind, UpdatesKept, StatusSteps, ParamsSaved, Written0,
   SaveWritten

LEMMA ReplacedParams ==
  ASSUME IInv, UpdateInv, OpenParams \/ FillParams
  PROVE  UpdateInv'
<1> DEFINE n == nSaved + 1
           new == IF OpenParams THEN EmptyFile ELSE [present |-> TRUE, updates |-> params[n]]
<1>1. /\ NetTyped /\ nParams \in Nat \ {0} /\ nSaved \in 0 .. nParams - 1 /\ n \in 1 .. nParams
      /\ SavedInOrder /\ NotBehind
  BY CheckpointAssumption DEF IInv, NetTyped, UpdateInv
<1>2. UNCHANGED <<params, nGradSteps, crashes, files, backup>>
  BY DEF OpenParams, FillParams, saveVars
<1>3. StatusSteps' = StatusSteps /\ (Written0(files.status))' = Written0(files.status)
  BY <1>2 DEF StatusSteps, Written0
<1>4. mpc \in {"openParams", "fillParams"}
  BY DEF OpenParams, FillParams, MainGoto
<1>5. EmptyFile # NoFile /\ EmptyFile \notin Params
  BY DEF EmptyFile, NoFile, Params
<1>6. \A i \in 1 .. nParams : paramFiles'[i] = IF i = n THEN new ELSE paramFiles[i]
  <2>1. CASE OpenParams
    BY <1>1, <2>1 DEF OpenParams, NetTyped
  <2>2. CASE ~OpenParams
    BY <1>1, <2>2 DEF FillParams, NetTyped
  <2> QED BY <2>1, <2>2
<1>7. new # NoFile /\ (new \in Params => new.updates = params[n])
  <2>1. [present |-> TRUE, updates |-> params[n]] # NoFile
    BY DEF NoFile
  <2> QED BY <1>5, <2>1
<1> HIDE DEF new
<1>8. \A i \in 1 .. nSaved : ParamsSaved(i) /\ i \in 1 .. nParams /\ i # n
  BY <1>1, <1>4 DEF SavedInOrder
<1>9. \A i \in 1 .. nSaved : ParamsSaved(i)'
  BY <1>2, <1>6, <1>8 DEF ParamsSaved
<1>10. SavedInOrder'
  <2>1. Written0(files.status) => \A i \in 1 .. nParams : paramFiles'[i] # NoFile
    BY <1>1, <1>6, <1>7 DEF SavedInOrder
  <2>2. CASE OpenParams
    <3>1. mpc' = "fillParams" /\ nSaved' = nSaved
      BY <2>2 DEF OpenParams, MainGoto
    <3> QED BY <1>3, <1>9, <2>1, <3>1 DEF SavedInOrder, AfterParams, SaveWritten
  <2>3. CASE ~OpenParams
    <3>1. FillParams /\ new = [present |-> TRUE, updates |-> params[n]]
      BY <2>3 DEF new
    <3>2. \A i \in {n} : ParamsSaved(i)'
      BY <1>1, <1>2, <1>6, <3>1 DEF ParamsSaved
    <3>3. CASE n = nParams
      <4>1. mpc' = "openScaling" /\ nSaved' = 0
        BY <1>1, <3>1, <3>3 DEF FillParams, MainGoto
      <4>2. \A i \in 1 .. nParams : ParamsSaved(i)'
        BY <1>1, <1>9, <3>2, <3>3
      <4> QED BY <1>3, <2>1, <4>1, <4>2 DEF SavedInOrder, SaveWritten
    <3>4. CASE n # nParams
      <4>1. mpc' = "openParams" /\ nSaved' = n
        BY <1>1, <3>1, <3>4 DEF FillParams, MainGoto
      <4>2. \A i \in 1 .. n : ParamsSaved(i)'
        BY <1>1, <1>9, <3>2
      <4> QED BY <1>3, <2>1, <4>1, <4>2 DEF SavedInOrder, AfterParams, SaveWritten
    <3> QED BY <3>3, <3>4
  <2> QED BY <2>2, <2>3
<1>11. NotBehind'
  <2>1. UpdatesKept' /\ \A i \in 1 .. nParams : params'[i] + crashes' + 1 >= StatusSteps'
    BY <1>1, <1>2, <1>3, <1>4 DEF NotBehind, UpdatesKept
  <2>2. \A i \in 1 .. nParams : paramFiles'[i] \in Params =>
          paramFiles'[i].updates + crashes' + 1 >= StatusSteps'
    BY <1>1, <1>2, <1>3, <1>4, <1>6, <1>7 DEF NotBehind
  <2> QED BY <2>1, <2>2 DEF NotBehind
<1> QED BY <1>10, <1>11 DEF UpdateInv

\* The counter is written one ahead of the step, when the networks are on file.
LEMMA WrittenUpdates ==
  ASSUME IInv, UpdateInv, WriteStatus \/ WriteData \/ CopyFiles
  PROVE  UpdateInv'
<1>1. SavedInOrder /\ NotBehind /\ FilesTyped /\ nGradSteps \in Nat
  BY DEF IInv, MemInv, NetTyped, UpdateInv
<1>2. UNCHANGED <<params, paramFiles, nSaved, nGradSteps, crashes>>
  BY DEF WriteStatus, WriteData, CopyFiles, Copy, netVars
<1>3. /\ mpc \in AfterParams /\ mpc' \in AfterParams
      /\ mpc' = "writeData" \/ SaveWritten'
  BY DEF WriteStatus, WriteData, CopyFiles, Copy, MainGoto, SaveWritten, AfterParams
<1>4. backup'.status.nGradSteps = nGradSteps + 1
  <2>1. CASE WriteStatus
    BY <1>1, <2>1 DEF WriteStatus, FilesTyped
  <2>2. CASE WriteData
    BY <1>1, <2>2 DEF WriteData, MainGoto, FilesTyped, SavedInOrder
  <2>3. CASE CopyFiles
    BY <1>1, <2>3 DEF CopyFiles, Copy, MainGoto, saveVars, SavedInOrder, SaveWritten
  <2> QED BY <2>1, <2>2, <2>3
<1>5. nSaved' = 0 /\ \A i \in 1 .. nParams : ParamsSaved(i) /\ ParamsSaved(i)'
  BY <1>1, <1>2, <1>3 DEF SavedInOrder, AfterParams, ParamsSaved
<1>6. \A i \in 1 .. nParams : /\ params[i] \in Nat /\ crashes \in Nat
                              /\ paramFiles[i] # NoFile
                              /\ paramFiles[i].updates = params[i]
  <2> TAKE i \in 1 .. nParams
  <2>1. params[i] \in Nat /\ crashes \in Nat
    BY FileFacts
  <2>2. paramFiles[i] = [present |-> TRUE, updates |-> params[i]]
    BY <1>5 DEF ParamsSaved
  <2>3. \A x : /\ [present |-> TRUE, updates |-> x] # NoFile
               /\ [present |-> TRUE, updates |-> x].updates = x
    BY DEF NoFile
  <2> QED BY <2>1, <2>2, <2>3
<1>7. SavedInOrder'
  BY <1>2, <1>3, <1>4, <1>5, <1>6 DEF SavedInOrder, AfterParams
<1>8. StatusSteps' \in {0, StatusSteps, nGradSteps + 1}
  <2>1. ASSUME files'.status = files.status PROVE StatusSteps' = StatusSteps
    BY <2>1 DEF StatusSteps, Written0
  <2>2. CASE WriteStatus \/ WriteData
    BY <2>1, <2>2 DEF WriteStatus, WriteData
  <2>3. CASE Copy("data", "openData", "fillData", "complete", backup.data)
    <3>1. files'.status = files.status
      BY <1>1, <2>3 DEF Copy, FilesTyped
    <3> QED BY <2>1, <3>1
  <2>4. CASE Copy("status", "openStatus", "fillStatus", "openData", backup.status)
    <3>1. CASE files'.status = EmptyFile
      <4>1. ~Written0(EmptyFile)
        BY DEF Written0, EmptyFile
      <4> QED BY <3>1, <4>1 DEF StatusSteps, Written0
    <3>2. CASE mpc = "fillStatus" /\ files' = [files EXCEPT !["status"] = backup.status]
      <4>1. files'.status = backup.status /\ SaveWritten
        BY <1>1, <3>2 DEF FilesTyped, SaveWritten
      <4>2. backup.status.nGradSteps = nGradSteps + 1
        BY <1>1, <4>1 DEF SavedInOrder
      <4> QED BY <4>1, <4>2 DEF StatusSteps, Written0
    <3>3. CASE files' = [files EXCEPT !["status"] = EmptyFile]
      <4>1. files'.status = EmptyFile
        BY <1>1, <3>3 DEF FilesTyped
      <4> QED BY <3>1, <4>1
    <3> QED BY <2>4, <3>2, <3>3 DEF Copy, MainGoto
  <2> QED BY <2>2, <2>3, <2>4 DEF CopyFiles
<1>9. mpc # "dead"
  BY <1>3 DEF AfterParams
<1>10. \A i \in 1 .. nParams : params[i] + crashes + 1 >= StatusSteps'
  BY <1>1, <1>6, <1>8, <1>9 DEF NotBehind, UpdatesKept
<1>11. NotBehind'
  BY <1>1, <1>2, <1>6, <1>10 DEF NotBehind, UpdatesKept
<1> QED BY <1>7, <1>11 DEF UpdateInv

LEMMA RestartKeepsUpdates ==
  ASSUME IInv, UpdateInv, CrashAndRestart
  PROVE  UpdateInv'
<1>1. SavedInOrder /\ NotBehind /\ FilesTyped /\ NetTyped /\ crashes \in Nat
  BY DEF IInv, MemInv, NetTyped, UpdateInv
<1>2. /\ UNCHANGED <<backup, files, paramFiles>>
      /\ crashes' = crashes + 1 /\ params' = LoadedParams /\ nSaved' = 0
      /\ nGradSteps' = Loaded.steps /\ mpc' = (IF Loaded.ok THEN "step" ELSE "dead")
  BY DEF CrashAndRestart
<1>3. StatusSteps' = StatusSteps /\ (Written0(files.status))' = Written0(files.status)
  BY <1>2 DEF StatusSteps, Written0
<1>4. SavedInOrder'
  BY <1>1, <1>2, <1>3 DEF SavedInOrder, AfterParams, SaveWritten
<1>5. ASSUME NEW i \in 1 .. nParams, Written0(files.status), ParamsReadable
      PROVE  LoadedParams[i] + crashes + 1 >= StatusSteps
  <2>1. paramFiles[i] # NoFile /\ paramFiles[i] # EmptyFile
    BY <1>1, <1>5 DEF SavedInOrder, ParamsReadable
  <2>2. paramFiles[i] \in Params /\ LoadedParams[i] = paramFiles[i].updates
    BY <1>1, <2>1, ParamsLoaded
  <2> QED BY <1>1, <2>2 DEF NotBehind
<1>6. \A i \in 1 .. nParams : LoadedParams[i] \in Nat /\ StatusSteps \in Nat
  BY <1>1, ParamsLoaded, FileFacts
<1>7. UpdatesKept'
  <2>1. \A i \in 1 .. nParams : LoadedParams[i] + (crashes + 1) >= Loaded.steps
    <3>1. CASE Loaded.steps = 0
      BY <1>1, <1>6, <3>1
    <3>2. CASE Loaded.steps # 0
      <4>1. Loaded.steps = StatusSteps /\ Written0(files.status) /\ ParamsReadable
        BY <1>1, <3>2, LoadedSteps
      <4> QED BY <1>1, <1>5, <1>6, <4>1
    <3> QED BY <3>1, <3>2
  <2> QED BY <1>2, <2>1 DEF UpdatesKept
<1>8. mpc' # "dead" => \A i \in 1 .. nParams : params'[i] + crashes' + 1 >= StatusSteps'
  <2> SUFFICES ASSUME mpc' # "dead", NEW i \in 1 .. nParams
               PROVE  LoadedParams[i] + (crashes + 1) + 1 >= StatusSteps
    BY <1>2, <1>3
  <2>1. ParamsReadable
    BY <1>2 DEF Loaded, FreshStart
  <2>2. CASE Written0(files.status)
    BY <1>1, <1>5, <1>6, <2>1, <2>2
  <2>3. CASE ~Written0(files.status)
    BY <1>1, <1>6, <2>3 DEF StatusSteps
  <2> QED BY <2>2, <2>3
<1>9. \A i \in 1 .. nParams : paramFiles'[i] \in Params =>
        paramFiles'[i].updates + crashes' + 1 >= StatusSteps'
  BY <1>1, <1>2, <1>3, FileFacts DEF NotBehind
<1>10. NotBehind'
  BY <1>7, <1>8, <1>9 DEF NotBehind
<1> QED BY <1>4, <1>10 DEF UpdateInv

LEMMA NextUpdateInv == IInv /\ UpdateInv /\ [Next]_vars => UpdateInv'
<1> SUFFICES ASSUME IInv, UpdateInv, [Next]_vars PROVE UpdateInv'
  OBVIOUS
<1>1. CASE UNCHANGED vars
  BY <1>1, HandlerKeepsUpdates DEF vars, netVars, saveVars
<1>2. ASSUME NEW h \in Handlers, HandlerStep(h) PROVE UpdateInv'
  <2>1. UNCHANGED <<params, paramFiles, nSaved, nGradSteps, crashes, files, backup, mpc>>
    BY <1>2 DEF HandlerStep, LockAndPush, Push, CountEpisode, CountTransitions, saveVars, netVars
  <2> QED BY <2>1, HandlerKeepsUpdates
<1>3. CASE LockForRemoval \/ RemovalDone \/ \E i \in DOMAIN episodes : removeBackEpisode(i)
  <2>1. UNCHANGED <<params, paramFiles, nSaved, nGradSteps, crashes, files, backup>>
    BY <1>3 DEF LockForRemoval, RemovalDone, removeBackEpisode, saveVars, netVars
  <2>2. mpc \in {"step", "removal"} /\ mpc' \in {"removal", "openParams"}
    BY <1>3 DEF LockForRemoval, RemovalDone, removeBackEpisode, MainGoto
  <2>3. nSaved = 0
    BY <2>2 DEF UpdateInv, SavedInOrder
  <2> QED BY <2>1, <2>2, <2>3, QuietKeepsUpdates DEF AfterParams, SaveWritten
<1>4. CASE ReadEpisodes \/ ReadTransitions \/ CopyScaling
  <2>1. UNCHANGED <<params, paramFiles, nSaved, nGradSteps, crashes, backup>>
    BY <1>4 DEF ReadEpisodes, ReadTransitions, CopyScaling, Copy, saveVars, netVars
  <2>2. /\ mpc \in {"openScaling", "fillScaling", "readEpisodes", "readTransitions"}
        /\ mpc' \in {"fillScaling", "readEpisodes", "readTransitions", "writeStatus"}
    BY <1>4 DEF ReadEpisodes, ReadTransitions, CopyScaling, Copy, MainGoto
  <2>3. files'.status = files.status
    BY <1>4 DEF ReadEpisodes, ReadTransitions, CopyScaling, Copy, IInv, MemInv, FilesTyped
  <2> QED BY <2>1, <2>2, <2>3, QuietKeepsUpdates DEF AfterParams, SaveWritten
<1>5. CASE OpenParams \/ FillParams
  BY <1>5, ReplacedParams
<1>6. CASE WriteStatus \/ WriteData \/ CopyFiles
  BY <1>6, WrittenUpdates
<1>7. CASE globalGradCounterUpdate
  <2>1. SavedInOrder /\ NotBehind
    BY DEF UpdateInv
  <2>2. /\ mpc = "complete" /\ mpc' = "step" /\ nGradSteps' = nGradSteps + 1
        /\ params' = [i \in 1 .. nParams |-> params[i] + 1]
        /\ UNCHANGED <<nSaved, backup, files, paramFiles, crashes>>
    BY <1>7 DEF globalGradCounterUpdate, MainGoto, saveVars
  <2>3. StatusSteps' = StatusSteps /\ (Written0(files.status))' = Written0(files.status)
    BY <2>2 DEF StatusSteps, Written0
  <2>4. SavedInOrder'
    BY <2>1, <2>2, <2>3 DEF SavedInOrder, AfterParams, SaveWritten
  <2>5. \A i \in 1 .. nParams :
          /\ params[i] \in Nat /\ crashes \in Nat /\ nGradSteps \in Nat /\ StatusSteps \in Nat
          /\ params'[i] = params[i] + 1
    BY <2>2, FileFacts
  <2>6. NotBehind'
    BY <2>1, <2>2, <2>3, <2>5 DEF NotBehind, UpdatesKept
  <2> QED BY <2>4, <2>6 DEF UpdateInv
<1>8. CASE CrashAndRestart
  BY <1>8, RestartKeepsUpdates
<1> QED BY <1>1, <1>2, <1>3, <1>4, <1>5, <1>6, <1>7, <1>8 DEF Next, HandlerStep

\* Whatever save was interrupted, the networks that a restart reads have had every
\* update that the counter it reads stands for, but one for each restart.
THEOREM UpdatesKeptHolds == Spec => []UpdatesKept
<1>1. Init => UpdateInv
  BY InitUpdateInv
<1>2. IInv /\ UpdateInv /\ [Next]_vars => UpdateInv'
  BY NextUpdateInv
<1>3. UpdateInv => UpdatesKept
  BY DEF UpdateInv, NotBehind
<1> QED BY <1>1, <1>2, <1>3, Inductive, PTL DEF Spec

------------------------------------------------------------------------------
(* The properties                                                           *)

\* pushBackEpisode and removeBackEpisode find the counter of episodes right
\* whenever they take dataset_mutex, after any number of crashes and restarts.
THEOREM EpisodesCountedHolds == Spec => []EpisodesCounted
<1>1. IInv => EpisodesCounted
  <2> SUFFICES ASSUME IInv, dataset_mutex = Free PROVE nEpisodes = Len(episodes)
    BY DEF EpisodesCounted
  <2>1. \A h \in Handlers : hpc[h] # "countEpisode"
    BY CheckpointAssumption DEF IInv, MemInv, MutexHeld
  <2> QED BY <2>1 DEF IInv, MemInv, Counted
<1> QED BY <1>1, Inductive, PTL

\* save writes as many episodes as it announces, whatever the handlers push
\* meanwhile.
THEOREM BackupsAgreeHolds == Spec => []BackupsAgree
<1>1. IInv => BackupsAgree
  BY DEF IInv, MemInv, SaveInv, BackupsAgree
<1> QED BY <1>1, Inductive, PTL

\* A restart fails only after a crash within the replacing of one of the files.
THEOREM RestartSucceedsHolds == Spec => RestartSucceeds
<1> DEFINE Replacing == {"fillParams", "fillScaling", "fillStatus", "openData", "fillData", "dead"}
<1>1. ASSUME IInv, [Next]_vars, mpc' = "dead", mpc \notin Replacing
      PROVE  FALSE
  <2>1. CASE CrashAndRestart
    <3>1. ~Loaded.ok
      BY <1>1, <2>1 DEF CrashAndRestart
    <3>2. LoadedMemory.ok
      BY <1>1 DEF IInv, MemInv, SaveInv, LoadInv, Copying
    <3>3. ParamsReadable
      BY <1>1 DEF IInv, MemInv, Whole, ParamsReadable
    <3> QED BY <3>1, <3>2, <3>3 DEF Loaded
  <2>2. CASE ~CrashAndRestart
    BY <1>1, <2>2 DEF Next, LockAndPush, Push, CountEpisode, CountTransitions, LockForRemoval,
       RemovalDone, removeBackEpisode, OpenParams, FillParams, CopyScaling, ReadEpisodes,
       ReadTransitions, WriteStatus, WriteData, CopyFiles, Copy, globalGradCounterUpdate,
       MainGoto, vars
  <2> QED BY <2>1, <2>2
<1>2. IInv /\ [Next]_vars =>
        [mpc' = "dead" => mpc \in {"fillParams", "fillScaling", "fillStatus", "openData",
                                   "fillData", "dead"}]_vars
  BY <1>1
<1> QED BY <1>2, Inductive, PTL DEF Spec, RestartSucceeds

------------------------------------------------------------------------------
(* The transitions of the first episodes of a data set.                     *)

Upto(s, n) == SumOf(s, 1 .. n)

LEMMA LengthsAreInts == Lengths \subseteq Int /\ \A n \in Lengths : n >= 0
BY CheckpointAssumption

LEMMA EpisodesTyped ==
  ASSUME NEW s \in Seq(Lengths)
  PROVE  /\ s \in [1 .. Len(s) -> Int] /\ (\A i \in 1 .. Len(s) : s[i] \in Int /\ s[i] >= 0)
         /\ Len(s) \in Nat
<1>1. \A i \in 1 .. Len(s) : s[i] \in Lengths
  OBVIOUS
<1>2. DOMAIN s = 1 .. Len(s) /\ s = [i \in 1 .. Len(s) |-> s[i]] /\ Len(s) \in Nat
  OBVIOUS
<1> QED BY <1>1, <1>2, LengthsAreInts

LEMMA FirstFinite ==
  ASSUME NEW n \in Int
  PROVE  IsFiniteSet(1 .. n)
BY FS_Interval

LEMMA UptoType ==
  ASSUME NEW s \in Seq(Lengths), NEW n \in Int, n <= Len(s)
  PROVE  Upto(s, n) \in Int
<1>1. s \in [1 .. Len(s) -> Int] /\ Len(s) \in Nat /\ 1 .. n \in SUBSET (1 .. Len(s))
  BY EpisodesTyped
<1>2. IsFiniteSet(1 .. Len(s))
  BY <1>1, FirstFinite
<1> QED BY <1>1, <1>2, SumFacts DEF Upto

LEMMA UptoNone ==
  ASSUME NEW s \in Seq(Lengths), NEW n \in Int, n <= 0
  PROVE  Upto(s, n) = 0
<1>1. s \in [1 .. Len(s) -> Int] /\ Len(s) \in Nat /\ 1 .. n = {}
  BY EpisodesTyped
<1>2. IsFiniteSet(1 .. Len(s))
  BY <1>1, FirstFinite
<1> QED BY <1>1, <1>2, SumFacts DEF Upto

LEMMA UptoStep ==
  ASSUME NEW s \in Seq(Lengths), NEW n \in Nat, n + 1 <= Len(s)
  PROVE  Upto(s, n + 1) = s[n + 1] + Upto(s, n)
<1>1. s \in [1 .. Len(s) -> Int] /\ Len(s) \in Nat
  BY EpisodesTyped
<1>2. IsFiniteSet(1 .. Len(s))
  BY <1>1, FirstFinite
<1> DEFINE T == 1 .. n + 1
<1>3. T \in SUBSET (1 .. Len(s)) /\ n + 1 \in T /\ T \ {n + 1} = 1 .. n
  BY <1>1
<1> HIDE DEF T
<1>4. SumOf(s, T) = s[n + 1] + SumOf(s, T \ {n + 1})
  BY <1>1, <1>2, <1>3, SumFacts
<1> QED BY <1>3, <1>4 DEF Upto, T

LEMMA UptoAgree ==
  ASSUME NEW s \in Seq(Lengths), NEW t \in Seq(Lengths), NEW n \in Int,
         n <= Len(s), n <= Len(t), \A i \in 1 .. n : s[i] = t[i]
  PROVE  Upto(s, n) = Upto(t, n)
<1> DEFINE g == [i \in 1 .. n |-> s[i]]
           T == 1 .. n
<1>1. s \in [1 .. Len(s) -> Int] /\ Len(s) \in Nat /\ t \in [1 .. Len(t) -> Int] /\ Len(t) \in Nat
  BY EpisodesTyped
<1>2. IsFiniteSet(1 .. Len(s)) /\ IsFiniteSet(1 .. Len(t))
  BY <1>1, FirstFinite
<1>3. T \in SUBSET (1 .. Len(s)) /\ T \in SUBSET (1 .. Len(t))
  BY <1>1
<1>4. g \in [T -> Int] /\ (\A i \in T : s[i] = g[i]) /\ \A i \in T : t[i] = g[i]
  BY <1>1, <1>3
<1> HIDE DEF g, T
<1>5. SumOf(s, T) = SumOf(g, T)
  <2>1. s \in [1 .. Len(s) -> Int] /\ g \in [T -> Int] /\ \A i \in T : s[i] = g[i]
    BY <1>1, <1>4
  <2> QED BY <1>2, <1>3, <2>1, SumAgree, ZenonT(60)
<1>6. SumOf(t, T) = SumOf(g, T)
  <2>1. t \in [1 .. Len(t) -> Int] /\ g \in [T -> Int] /\ \A i \in T : t[i] = g[i]
    BY <1>1, <1>4
  <2> QED BY <1>2, <1>3, <2>1, SumAgree, ZenonT(60)
<1> QED BY <1>5, <1>6 DEF Upto, T

\* More episodes, no fewer transitions.
LEMMA UptoGrows ==
  ASSUME NEW s \in Seq(Lengths), NEW m \in Int, NEW n \in Int, m <= n, n <= Len(s)
  PROVE  Upto(s, m) <= Upto(s, n)
<1> DEFINE N == {k \in Nat : k <= Len(s) => \A j \in Int : j <= k => Upto(s, j) <= Upto(s, k)}
<1>0. Len(s) \in Nat /\ \A i \in 1 .. Len(s) : s[i] \in Int /\ s[i] >= 0
  BY EpisodesTyped
<1>1. 0 \in N
  BY UptoNone
<1>2. ASSUME NEW k \in N PROVE k + 1 \in N
  <2> SUFFICES ASSUME k + 1 <= Len(s), NEW j \in Int, j <= k + 1
               PROVE  Upto(s, j) <= Upto(s, k + 1)
    OBVIOUS
  <2>1. Upto(s, k + 1) = s[k + 1] + Upto(s, k) /\ Upto(s, k) \in Int
    BY <1>0, UptoStep, UptoType
  <2>2. s[k + 1] \in Int /\ s[k + 1] >= 0
    BY <1>0
  <2>3. CASE j = k + 1
    BY <2>1, <2>2, <2>3
  <2>4. CASE j <= k
    <3>1. Upto(s, j) <= Upto(s, k) /\ Upto(s, j) \in Int
      BY <1>0, <2>4, UptoType
    <3> QED BY <2>1, <2>2, <3>1
  <2> QED BY <2>3, <2>4
<1> HIDE DEF N
<1>3. N = Nat
  <2>1. N \subseteq Nat
    BY DEF N
  <2> QED BY <1>1, <1>2, <2>1, UpFromZero
<1>4. CASE n < 0
  <2>1. Upto(s, m) = 0 /\ Upto(s, n) = 0
    BY <1>4, UptoNone
  <2> QED BY <2>1
<1>5. CASE n >= 0
  <2>1. n \in N
    BY <1>3, <1>5
  <2> QED BY <2>1 DEF N
<1> QED BY <1>4, <1>5

LEMMA TotalIsSum ==
  ASSUME NEW s \in Seq(Lengths)
  PROVE  Total(s) = Upto(s, Len(s))
<1>1. DOMAIN s = 1 .. Len(s)
  OBVIOUS
<1>2. Total(s) = SumOf(s, DOMAIN s)
  BY DEF Total, FoldSeq, FoldFunction, FoldFunctionOnSet, SumOf, MapThenSumSet, MapThenFoldSet
<1> QED BY <1>1, <1>2 DEF Upto

LEMMA FrontTotal ==
  ASSUME NEW s \in Seq(Lengths)
  PROVE  Total(Front(s)) = Upto(s, Len(s) - 1)
<1>1. Len(s) \in Nat
  OBVIOUS
<1>2. CASE Len(s) = 0
  <2>1. Front(s) = <<>>
    BY <1>2, SubSeqEmpty DEF Front
  <2>2. PICK e \in Seq(Lengths) : e = <<>> /\ Len(e) = 0
    <3>1. <<>> \in Seq(Lengths) /\ Len(<<>>) = 0
      OBVIOUS
    <3> QED BY <3>1
  <2>3. Total(e) = 0
    <3>1. Total(e) = Upto(e, 0)
      BY <2>2, TotalIsSum
    <3>2. 0 \in Int
      OBVIOUS
    <3> QED BY <3>1, <3>2, UptoNone
  <2>4. Upto(s, Len(s) - 1) = 0
    <3>1. Len(s) - 1 \in Int /\ Len(s) - 1 <= 0
      BY <1>2
    <3> QED BY <3>1, UptoNone
  <2> QED BY <2>1, <2>2, <2>3, <2>4
<1>3. CASE Len(s) > 0
  <2> DEFINE n == Len(s) - 1
             f == SubSeq(s, 1, n)
  <2>1. n \in Nat /\ n <= Len(s)
    BY <1>1, <1>3
  <2>2. f \in Seq(Lengths) /\ Len(f) = n
    BY <2>1, FirstOnes
  <2>3. \A i \in 1 .. n : f[i] = s[i]
    BY <2>1
  <2>4. Total(f) = Upto(f, n)
    BY <2>2, TotalIsSum
  <2> HIDE DEF n, f
  <2>5. Upto(f, n) = Upto(s, n)
    BY <2>1, <2>2, <2>3, UptoAgree
  <2> QED BY <2>4, <2>5 DEF Front, f, n
<1> QED BY <1>1, <1>2, <1>3

LEMMA BehindFront ==
  ASSUME NEW a \in Seq(Lengths), NEW b \in Seq(Lengths), NEW j \in Len(a) + 1 .. Len(a) + Len(b)
  PROVE  (a \o b)[j] = b[j - Len(a)]
OBVIOUS

LEMMA RemovedTotal ==
  ASSUME NEW s \in Seq(Lengths), NEW i \in DOMAIN s
  PROVE  Upto(RemoveAt(s, i), Len(s) - 1) = Upto(s, Len(s)) - s[i]
<1> DEFINE r == RemoveAt(s, i)
           N == {k \in Nat : i + k <= Len(s) => Upto(r, i + k - 1) = Upto(s, i + k) - s[i]}
<1>0. i \in 1 .. Len(s) /\ Len(s) \in Nat /\ \A j \in 1 .. Len(s) : s[j] \in Int
  BY EpisodesTyped
<1>1. r \in Seq(Lengths) /\ Len(r) = Len(s) - 1
  BY Removed
<1>2. /\ \A j \in 1 .. i - 1 : r[j] = s[j]
      /\ \A j \in i .. Len(s) - 1 : r[j] = s[j + 1]
  <2> DEFINE a == SubSeq(s, 1, i - 1)
             b == SubSeq(s, i + 1, Len(s))
  <2>1. /\ a \in Seq(Lengths) /\ Len(a) = i - 1 /\ \A j \in 1 .. i - 1 : a[j] = s[j]
        /\ b \in Seq(Lengths) /\ Len(b) = Len(s) - i /\ \A j \in 1 .. Len(s) - i : b[j] = s[j + i]
    BY <1>0
  <2>2. r = a \o b
    BY DEF RemoveAt
  <2> HIDE DEF a, b, r
  <2>3. \A j \in 1 .. i - 1 : r[j] = s[j]
    BY <1>0, <2>1, <2>2
  <2>4. ASSUME NEW j \in i .. Len(s) - 1 PROVE r[j] = s[j + 1]
    <3>1. r[j] = b[j - (i - 1)]
      <4>1. j \in Len(a) + 1 .. Len(a) + Len(b)
        BY <1>0, <2>1
      <4> QED BY <2>1, <2>2, <4>1, BehindFront
    <3>2. j - (i - 1) \in 1 .. Len(s) - i /\ j - (i - 1) + i = j + 1
      BY <1>0
    <3> QED BY <2>1, <3>1, <3>2
  <2> QED BY <2>3, <2>4
<1> HIDE DEF r
<1>3. 0 \in N
  <2>1. Upto(r, i - 1) = Upto(s, i - 1)
    <3>1. i - 1 \in Int /\ i - 1 <= Len(s) /\ i - 1 <= Len(r)
      BY <1>0, <1>1
    <3> QED BY <1>1, <1>2, <3>1, UptoAgree
  <2>2. i - 1 \in Nat /\ i - 1 + 1 = i /\ i - 1 \in Int /\ i + 0 = i /\ i + 0 - 1 = i - 1
    BY <1>0
  <2>3. Upto(s, (i - 1) + 1) = s[(i - 1) + 1] + Upto(s, i - 1) /\ Upto(s, i - 1) \in Int
    BY <1>0, <2>2, UptoStep, UptoType
  <2>4. Upto(s, i) = s[i] + Upto(s, i - 1)
    BY <2>2, <2>3
  <2>5. s[i] \in Int
    BY <1>0
  <2> QED BY <2>1, <2>2, <2>3, <2>4, <2>5
<1>4. ASSUME NEW k \in N PROVE k + 1 \in N
  <2> SUFFICES ASSUME i + (k + 1) <= Len(s)
               PROVE  Upto(r, i + (k + 1) - 1) = Upto(s, i + (k + 1)) - s[i]
    OBVIOUS
  <2> DEFINE m == i + k - 1
  <2>0. k \in Nat /\ m \in Nat /\ m + 1 <= Len(s) - 1 /\ m + 1 = i + k /\ (m + 1) + 1 <= Len(s)
        /\ i + (k + 1) - 1 = m + 1 /\ i + (k + 1) = (m + 1) + 1 /\ m + 1 \in Nat
    BY <1>0
  <2>1. Upto(r, m) = Upto(s, m + 1) - s[i]
    BY <1>0, <2>0
  <2> HIDE DEF m
  <2>2. Upto(r, m + 1) = r[m + 1] + Upto(r, m)
    BY <1>1, <2>0, UptoStep
  <2>3. Upto(s, (m + 1) + 1) = s[(m + 1) + 1] + Upto(s, m + 1) /\ Upto(s, m + 1) \in Int
    BY <1>0, <2>0, UptoStep, UptoType, SMTT(30)
  <2>4. r[m + 1] = s[(m + 1) + 1] /\ s[(m + 1) + 1] \in Int /\ s[i] \in Int
    BY <1>0, <1>2, <2>0
  <2>5. Upto(r, m + 1) = Upto(s, (m + 1) + 1) - s[i]
    BY <2>1, <2>2, <2>3, <2>4
  <2> QED BY <2>0, <2>5
<1> HIDE DEF N
<1>5. N = Nat
  <2>1. N \subseteq Nat
    BY DEF N
  <2> QED BY <1>3, <1>4, <2>1, UpFromZero
<1>6. Len(s) - i \in N /\ i + (Len(s) - i) = Len(s)
  BY <1>0, <1>5
<1> QED BY <1>0, <1>6 DEF N, r

------------------------------------------------------------------------------
(* The counter of transitions, until the first crash.                       *)

\* The counter is late by the last episode while that is being pushed, and is that of
\* the data set otherwise.
TransitionsCounted ==
  /\ nTransitions \in Int /\ hndata \in [Handlers -> Int]
  /\ (\A h \in Handlers : hpc[h] = "idle") => nTransitions = Upto(episodes, Len(episodes))
  /\ \A h \in Handlers : hpc[h] # "idle" =>
       /\ Len(episodes) >= 1 /\ hndata[h] = episodes[Len(episodes)]
       /\ nTransitions = Upto(episodes, Len(episodes) - 1)

\* What the save has read of it is no less than the episodes it has found before the last.
CounterSaved ==
  /\ mpc \in {"writeStatus", "writeData"} =>
       nStored.obs \in Int /\ nStored.obs >= Upto(episodes, nStored.eps - 1)
  /\ mpc = "writeData" => backup.status.nStoredObs = nStored.obs
  /\ SaveWritten => backup.status.nStoredObs >= Upto(backup.data.eps, Len(backup.data.eps) - 1)

ObsInv == crashes = 0 => TransitionsCounted /\ CounterSaved

LEMMA InitObsInv == Init => ObsInv
<1> SUFFICES ASSUME Init PROVE TransitionsCounted /\ CounterSaved
  BY DEF ObsInv
<1>1. /\ episodes = <<>> /\ nTransitions = 0 /\ hpc = [h \in Handlers |-> "idle"]
      /\ hndata = [h \in Handlers |-> 0] /\ mpc = "step"
  BY DEF Init
<1>2. PICK e \in Seq(Lengths) : e = <<>> /\ Len(e) = 0
  <2>1. <<>> \in Seq(Lengths) /\ Len(<<>>) = 0
    OBVIOUS
  <2> QED BY <2>1
<1>3. Upto(episodes, Len(episodes)) = 0
  <2>1. 0 \in Int /\ 0 <= 0
    OBVIOUS
  <2>2. Upto(e, 0) = 0
    BY <2>1, UptoNone
  <2> QED BY <1>1, <1>2, <2>2
<1>4. TransitionsCounted
  BY <1>1, <1>3 DEF TransitionsCounted
<1>5. CounterSaved
  BY <1>1 DEF CounterSaved, SaveWritten
<1> QED BY <1>4, <1>5

\* An episode more changes no total of those before it.
LEMMA UptoAppended ==
  ASSUME NEW s \in Seq(Lengths), NEW e \in Lengths, NEW n \in Int, n <= Len(s)
  PROVE  Upto(Append(s, e), n) = Upto(s, n)
<1>1. Append(s, e) \in Seq(Lengths) /\ Len(Append(s, e)) = Len(s) + 1 /\ Len(s) \in Nat
  OBVIOUS
<1>2. \A i \in 1 .. n : s[i] = Append(s, e)[i]
  OBVIOUS
<1>3. n <= Len(Append(s, e))
  BY <1>1
<1> DEFINE t == Append(s, e)
<1> HIDE DEF t
<1> QED BY <1>1, <1>2, <1>3, UptoAgree DEF t

LEMMA PushKeepsCount ==
  ASSUME IInv, ObsInv, crashes = 0, NEW h \in Handlers, HandlerStep(h)
  PROVE  TransitionsCounted' /\ CounterSaved'
<1>1. MemTyped /\ MutexHeld /\ TransitionsCounted /\ CounterSaved /\ SaveInv
  BY DEF IInv, MemInv, ObsInv
<1>2. UNCHANGED <<mpc, nStored, backup>>
  BY DEF HandlerStep, LockAndPush, Push, CountEpisode, CountTransitions, saveVars, netVars
<1>3. h # Free /\ h # "main"
  BY CheckpointAssumption
<1>4. episodes \in Seq(Lengths) /\ Len(episodes) \in Nat /\ hndata \in [Handlers -> Int]
  BY <1>1 DEF MemTyped, TransitionsCounted
<1>5. ASSUME NEW ndata \in Lengths, LockAndPush(h, ndata)
      PROVE  TransitionsCounted' /\ \A n \in Int : n <= Len(episodes) => Upto(episodes', n) = Upto(episodes, n)
  <2>1. /\ dataset_mutex = Free /\ nTransitions' = nTransitions
        /\ hpc' = [hpc EXCEPT ![h] = "countEpisode"] /\ episodes' = Append(episodes, ndata)
        /\ hndata' = [hndata EXCEPT ![h] = ndata]
    BY <1>5 DEF LockAndPush, Push
  <2>2. \A g \in Handlers : hpc[g] = "idle" /\ hpc'[g] = IF g = h THEN "countEpisode" ELSE "idle"
    BY <1>1, <2>1, CheckpointAssumption DEF MemTyped, MutexHeld
  <2>3. nTransitions = Upto(episodes, Len(episodes)) /\ nTransitions \in Int
    BY <1>1, <2>2 DEF TransitionsCounted
  <2>4. \A n \in Int : n <= Len(episodes) => Upto(episodes', n) = Upto(episodes, n)
    BY <1>4, <2>1, UptoAppended
  <2>5. Len(episodes') = Len(episodes) + 1 /\ episodes'[Len(episodes')] = ndata
    BY <1>4, <2>1
  <2>6. hndata' \in [Handlers -> Int] /\ hndata'[h] = ndata
    BY <1>4, <2>1, LengthsAreInts
  <2>7. Upto(episodes', Len(episodes') - 1) = nTransitions
    <3>1. Len(episodes) \in Int /\ Len(episodes) <= Len(episodes) /\ Len(episodes') - 1 = Len(episodes)
      BY <1>4, <2>5
    <3> QED BY <2>3, <2>4, <3>1
  <2>8. Len(episodes') >= 1
    BY <1>4, <2>5
  <2> QED BY <2>1, <2>2, <2>3, <2>4, <2>5, <2>6, <2>7, <2>8 DEF TransitionsCounted
<1>6. ASSUME CountEpisode(h) PROVE TransitionsCounted' /\ episodes' = episodes
  <2>1. /\ hpc[h] = "countEpisode" /\ hpc' = [hpc EXCEPT ![h] = "countTransitions"]
        /\ UNCHANGED <<episodes, nTransitions, hndata>>
    BY <1>6 DEF CountEpisode
  <2>2. \A g \in Handlers : hpc'[g] = "idle" <=> hpc[g] = "idle"
    BY <1>1, <2>1 DEF MemTyped
  <2> QED BY <1>1, <2>1, <2>2 DEF TransitionsCounted
<1>7. ASSUME CountTransitions(h) PROVE TransitionsCounted' /\ episodes' = episodes
  <2>1. /\ hpc[h] = "countTransitions" /\ hpc' = [hpc EXCEPT ![h] = "idle"]
        /\ episodes' = episodes /\ nTransitions' = nTransitions + hndata[h]
        /\ hndata' = [hndata EXCEPT ![h] = 0]
    BY <1>7 DEF CountTransitions
  <2>2. \A g \in Handlers : hpc'[g] = "idle"
    BY <1>1, <2>1 DEF MemTyped, MutexHeld
  <2>3. Len(episodes) >= 1 /\ hndata[h] = episodes[Len(episodes)] /\ nTransitions \in Int
        /\ nTransitions = Upto(episodes, Len(episodes) - 1)
    BY <1>1, <2>1 DEF TransitionsCounted
  <2> DEFINE n == Len(episodes) - 1
  <2>4. n \in Nat /\ n + 1 <= Len(episodes) /\ n + 1 = Len(episodes)
    BY <1>4, <2>3
  <2> HIDE DEF n
  <2>5. Upto(episodes, n + 1) = episodes[n + 1] + Upto(episodes, n)
    BY <1>4, <2>4, UptoStep
  <2>6. nTransitions' = Upto(episodes, Len(episodes)) /\ nTransitions' \in Int
    <3>1. hndata[h] \in Int
      BY <1>4
    <3>2. nTransitions = Upto(episodes, n)
      BY <2>3 DEF n
    <3> QED BY <2>1, <2>3, <2>4, <2>5, <3>1, <3>2
  <2>7. hndata' \in [Handlers -> Int]
    BY <1>4, <2>1
  <2> QED BY <2>1, <2>2, <2>6, <2>7 DEF TransitionsCounted
<1>8. ASSUME \A n \in Int : n <= Len(episodes) => Upto(episodes', n) = Upto(episodes, n)
      PROVE  CounterSaved'
  <2>1. mpc \in {"writeStatus", "writeData"} => nStored.eps - 1 \in Int /\ nStored.eps - 1 <= Len(episodes)
    BY <1>1, <1>4 DEF SaveInv, Saving
  <2>2. mpc \in {"writeStatus", "writeData"} => Upto(episodes', nStored.eps - 1) = Upto(episodes, nStored.eps - 1)
    BY <1>8, <2>1
  <2> QED BY <1>1, <1>2, <2>2 DEF CounterSaved, SaveWritten
<1>9. ASSUME episodes' = episodes PROVE CounterSaved'
  BY <1>1, <1>2, <1>9 DEF CounterSaved, SaveWritten
<1> QED BY <1>5, <1>6, <1>7, <1>8, <1>9 DEF HandlerStep

LEMMA RemovalKeepsCount ==
  ASSUME IInv, ObsInv, crashes = 0, NEW i \in DOMAIN episodes, removeBackEpisode(i)
  PROVE  TransitionsCounted' /\ CounterSaved'
<1>1. MemTyped /\ MutexHeld /\ TransitionsCounted
  BY DEF IInv, MemInv, ObsInv
<1>2. /\ mpc = "removal" /\ mpc' = mpc /\ episodes' = RemoveAt(episodes, i)
      /\ nTransitions' = nTransitions - episodes[i] /\ UNCHANGED <<hpc, hndata>>
  BY DEF removeBackEpisode, hVars
<1>3. episodes \in Seq(Lengths) /\ Len(episodes) \in Nat /\ episodes[i] \in Int
  BY <1>1, EpisodesTyped DEF MemTyped
<1>4. \A h \in Handlers : hpc[h] = "idle"
  BY <1>1, <1>2, CheckpointAssumption DEF MutexHeld
<1>5. nTransitions = Upto(episodes, Len(episodes)) /\ nTransitions \in Int
  BY <1>1, <1>4 DEF TransitionsCounted
<1>6. Len(episodes') = Len(episodes) - 1
  BY <1>2, <1>3, Removed
<1>7. Upto(episodes', Len(episodes')) = nTransitions'
  BY <1>2, <1>3, <1>5, <1>6, RemovedTotal
<1>8. TransitionsCounted'
  BY <1>1, <1>2, <1>3, <1>4, <1>5, <1>7 DEF TransitionsCounted
<1>9. CounterSaved'
  BY <1>2 DEF CounterSaved, SaveWritten
<1> QED BY <1>8, <1>9

\* The save reads the counter after the number of episodes, and between the two nothing
\* is taken away.
LEMMA SaveKeepsCount ==
  ASSUME IInv, ObsInv, crashes = 0, ReadTransitions \/ WriteStatus \/ WriteData
  PROVE  TransitionsCounted' /\ CounterSaved'
<1>1. MemTyped /\ MutexHeld /\ TransitionsCounted /\ CounterSaved /\ SaveInv /\ FilesTyped
  BY DEF IInv, MemInv, ObsInv
<1>2. UNCHANGED <<episodes, nTransitions, hpc, hndata>>
  BY DEF ReadTransitions, WriteStatus, WriteData, memVars, hVars
<1>3. TransitionsCounted'
  BY <1>1, <1>2 DEF TransitionsCounted
<1>4. episodes \in Seq(Lengths) /\ Len(episodes) \in Nat
  BY <1>1 DEF MemTyped
<1>5. ASSUME ReadTransitions PROVE CounterSaved'
  <2>1. /\ mpc = "readTransitions" /\ mpc' = "writeStatus"
        /\ nStored' = [nStored EXCEPT !.obs = nTransitions]
    BY <1>5 DEF ReadTransitions, MainGoto
  <2>2. nStored.eps \in Nat /\ nStored.eps <= Len(episodes)
    BY <1>1, <2>1 DEF SaveInv, Saving
  <2>3. nStored'.obs = nTransitions /\ nStored'.eps = nStored.eps
    BY <1>1, <2>1 DEF FilesTyped
  <2>4. nTransitions \in Int /\ nTransitions >= Upto(episodes, Len(episodes) - 1)
    <3>1. CASE \A h \in Handlers : hpc[h] = "idle"
      <4>1. nTransitions = Upto(episodes, Len(episodes)) /\ nTransitions \in Int
        BY <1>1, <3>1 DEF TransitionsCounted
      <4>2. Len(episodes) - 1 \in Int /\ Len(episodes) \in Int /\ Len(episodes) - 1 <= Len(episodes)
            /\ Len(episodes) <= Len(episodes)
        BY <1>4
      <4>3. Upto(episodes, Len(episodes) - 1) <= Upto(episodes, Len(episodes))
        BY <1>4, <4>2, UptoGrows
      <4>4. Upto(episodes, Len(episodes) - 1) \in Int
        BY <1>4, <4>2, UptoType
      <4> QED BY <4>1, <4>3, <4>4
    <3>2. CASE \E h \in Handlers : hpc[h] # "idle"
      BY <1>1, <3>2 DEF TransitionsCounted
    <3> QED BY <3>1, <3>2
  <2>5. /\ nStored.eps - 1 \in Int /\ Len(episodes) - 1 \in Int /\ nStored.eps - 1 <= Len(episodes) - 1
        /\ Len(episodes) - 1 <= Len(episodes) /\ nStored.eps - 1 <= Len(episodes)
    BY <1>4, <2>2
  <2>6. Upto(episodes, nStored.eps - 1) <= Upto(episodes, Len(episodes) - 1)
    BY <1>4, <2>5, UptoGrows
  <2>7. Upto(episodes, nStored.eps - 1) \in Int /\ Upto(episodes, Len(episodes) - 1) \in Int
    BY <1>4, <2>5, UptoType
  <2>8. nTransitions >= Upto(episodes, nStored.eps - 1)
    BY <2>4, <2>6, <2>7
  <2> QED BY <1>2, <2>1, <2>3, <2>4, <2>8 DEF CounterSaved, SaveWritten
<1>6. ASSUME WriteStatus PROVE CounterSaved'
  <2>1. /\ mpc = "writeStatus" /\ mpc' = "writeData" /\ nStored' = nStored
        /\ backup' = [backup EXCEPT !.status =
             [present |-> TRUE, nStoredEps |-> nStored.eps, nStoredObs |-> nStored.obs,
              nGradSteps |-> nGradSteps + 1]]
    BY <1>6 DEF WriteStatus, MainGoto
  <2>2. backup'.status.nStoredObs = nStored.obs
    BY <1>1, <2>1 DEF FilesTyped
  <2> QED BY <1>1, <1>2, <2>1, <2>2 DEF CounterSaved, SaveWritten
<1>7. ASSUME WriteData PROVE CounterSaved'
  <2>1. /\ mpc = "writeData" /\ mpc' = "openStatus" /\ nStored' = nStored
        /\ backup' = [backup EXCEPT !.data = [present |-> TRUE, eps |-> Written]]
    BY <1>7 DEF WriteData, MainGoto
  <2>2. nStored.eps \in Nat /\ nStored.eps <= Len(episodes)
    BY <1>1, <2>1 DEF SaveInv, Saving
  <2>3. backup'.status = backup.status /\ backup'.data.eps = Written
    BY <1>1, <2>1 DEF FilesTyped
  <2>4. backup.status.nStoredObs = nStored.obs /\ nStored.obs >= Upto(episodes, nStored.eps - 1)
    BY <1>1, <2>1 DEF CounterSaved
  <2>5. Written \in Seq(Lengths) /\ Len(Written) = nStored.eps
    BY <1>4, <2>2, FirstOnes DEF Written
  <2>6. Upto(Written, nStored.eps - 1) = Upto(episodes, nStored.eps - 1)
    <3>1. \A j \in 1 .. nStored.eps - 1 : Written[j] = episodes[j]
      BY <1>4, <2>2 DEF Written
    <3>2. nStored.eps - 1 \in Int /\ nStored.eps - 1 <= Len(Written) /\ nStored.eps - 1 <= Len(episodes)
      BY <2>2, <2>5, <1>4
    <3> QED BY <1>4, <2>5, <3>1, <3>2, UptoAgree
  <2>7. backup'.status.nStoredObs >= Upto(backup'.data.eps, Len(backup'.data.eps) - 1)
    BY <2>3, <2>4, <2>5, <2>6
  <2> QED BY <2>1, <2>7 DEF CounterSaved, SaveWritten
<1> QED BY <1>3, <1>5, <1>6, <1>7

\* The other steps of the main thread touch neither the counters nor what is read of them.
LEMMA OthersKeepCount ==
  ASSUME IInv, ObsInv, crashes = 0,
         \/ LockForRemoval \/ RemovalDone \/ OpenParams \/ FillParams \/ CopyScaling
         \/ ReadEpisodes \/ CopyFiles \/ globalGradCounterUpdate
  PROVE  TransitionsCounted' /\ CounterSaved'
<1>1. TransitionsCounted /\ CounterSaved
  BY DEF ObsInv
<1>2. UNCHANGED <<episodes, nTransitions, hpc, hndata, backup>>
  BY DEF LockForRemoval, RemovalDone, OpenParams, FillParams, CopyScaling, CopyFiles, Copy,
     ReadEpisodes, globalGradCounterUpdate, memVars, hVars, saveVars
<1>3. \/ mpc' \in {"step", "removal", "openParams", "fillParams", "openScaling", "fillScaling",
                   "readEpisodes", "readTransitions"}
      \/ mpc \in {"openStatus", "fillStatus", "openData", "fillData"}
           /\ mpc' \in {"fillStatus", "openData", "fillData", "complete"}
  BY DEF LockForRemoval, RemovalDone, OpenParams, FillParams, CopyScaling, CopyFiles, Copy,
     ReadEpisodes, globalGradCounterUpdate, MainGoto
<1>4. TransitionsCounted'
  BY <1>1, <1>2 DEF TransitionsCounted
<1>5. CounterSaved'
  BY <1>1, <1>2, <1>3 DEF CounterSaved, SaveWritten
<1> QED BY <1>4, <1>5

LEMMA NextObsInv == IInv /\ ObsInv /\ [Next]_vars => ObsInv'
<1> SUFFICES ASSUME IInv, ObsInv, [Next]_vars, crashes' = 0 PROVE TransitionsCounted' /\ CounterSaved'
  BY DEF ObsInv
<1>1. crashes = 0 /\ ~CrashAndRestart
  <2>1. crashes \in Nat
    BY DEF IInv, NetTyped
  <2>2. ~CrashAndRestart
    BY <2>1 DEF CrashAndRestart
  <2>3. Next => crashes' = crashes \/ CrashAndRestart
    BY DEF Next, LockAndPush, Push, CountEpisode, CountTransitions, LockForRemoval, RemovalDone,
       removeBackEpisode, OpenParams, FillParams, CopyScaling, CopyFiles, Copy, ReadEpisodes,
       ReadTransitions, WriteStatus, WriteData, globalGradCounterUpdate
  <2>4. crashes' = crashes
    BY <2>2, <2>3 DEF vars
  <2> QED BY <2>2, <2>4
<1>2. ASSUME NEW h \in Handlers, HandlerStep(h) PROVE TransitionsCounted' /\ CounterSaved'
  BY <1>1, <1>2, PushKeepsCount
<1>3. ASSUME NEW i \in DOMAIN episodes, removeBackEpisode(i) PROVE TransitionsCounted' /\ CounterSaved'
  BY <1>1, <1>3, RemovalKeepsCount
<1>4. CASE ReadTransitions \/ WriteStatus \/ WriteData
  BY <1>1, <1>4, SaveKeepsCount
<1>5. CASE \/ LockForRemoval \/ RemovalDone \/ OpenParams \/ FillParams \/ CopyScaling
           \/ ReadEpisodes \/ CopyFiles \/ globalGradCounterUpdate
  BY <1>1, <1>5, OthersKeepCount
<1>6. CASE UNCHANGED vars
  <2>1. TransitionsCounted /\ CounterSaved
    BY <1>1 DEF ObsInv
  <2> QED BY <1>6, <2>1 DEF vars, memVars, hVars, saveVars, TransitionsCounted, CounterSaved, SaveWritten
<1> QED BY <1>1, <1>2, <1>3, <1>4, <1>5, <1>6 DEF Next, HandlerStep

\* The counter of observations that a save writes lacks the transitions of the last
\* episode it writes at most, whatever the threads pushed between its two reads; until a
\* crash, for any number of threads and of saves.
THEOREM ObservationsSavedHolds == Spec => []ObservationsSaved
<1>1. IInv /\ ObsInv => ObservationsSaved
  <2> SUFFICES ASSUME IInv, ObsInv, SaveWritten, crashes = 0
               PROVE  backup.status.nStoredObs >= Total(Front(backup.data.eps))
    BY DEF ObservationsSaved
  <2>1. backup.data.eps \in Seq(Lengths)
    BY DEF IInv, MemInv, SaveInv, Data
  <2>2. backup.status.nStoredObs >= Upto(backup.data.eps, Len(backup.data.eps) - 1)
    BY DEF ObsInv, CounterSaved
  <2> QED BY <2>1, <2>2, FrontTotal
<1> QED BY <1>1, InitObsInv, NextObsInv, Inductive, PTL DEF Spec

------------------------------------------------------------------------------
(* The problem that the masters are told of, and what each rank has of it   *)

IsRecordOf(e, S) == e = [f \in S |-> e[f]]

\* A description has its fields, and at least one descriptor.
IsMDP(mdp) == IsRecordOf(mdp, DOMAIN MDPdescriptor) /\ mdp.options \in Seq(Int)

IsList(s) == \E n \in Nat \ {0} : IsRecordOf(s, 1 .. n)

IsDescription(e) ==
  /\ IsRecordOf(e, DOMAIN Environment)
  /\ e.nAgentsPerEnvironment \in Nat \ {0} /\ e.separate \in BOOLEAN /\ e.died \in BOOLEAN
  /\ IsList(e.mdps)
  /\ \A i \in DOMAIN e.mdps : IsMDP(e.mdps[i])

\* With as many descriptors as its agents need, once it is known who is tracked.
Filled(e, k) ==
  IsDescription(e) /\ (k > 4 \/ (k > 3 /\ ~e.died) => Len(e.mdps) = nDescriptors(e))

\* The first n fields of a descriptor are the same.
SameMDP(a, b, n) ==
  /\ n >= 1 => a.dimState = b.dimState /\ a.dimAction = b.dimAction
  /\ n >= 2 => Len(a.options) = Len(b.options)
  /\ n >= 3 => a.flags = b.flags
  /\ n >= 4 => a.observed = b.observed
  /\ n >= 5 => a.scales = b.scales
  /\ n >= 6 => IF bDiscreteActions(a) THEN a.options = b.options ELSE a.bounds = b.bounds

\* The first k fields of two descriptions are the same.
Same(e, d, k) ==
  /\ k >= 1 => e.nAgentsPerEnvironment = d.nAgentsPerEnvironment
  /\ k >= 2 => e.separate = d.separate
  /\ k >= 3 => e.tracked = d.tracked
  /\ \A i \in Nat \ {0} : 6 * (i - 1) + 3 < k => SameMDP(e.mdps[i], d.mdps[i], k - 3 - 6 * (i - 1))

\* What the description of the application becomes, field by field.
Course(D, m) ==
  /\ m \in Nat \ {0} /\ m <= nFields(asked) + 1 /\ D[1] = asked
  /\ \A k \in 1 .. m : Filled(D[k], k) /\ nFields(D[k]) = nFields(asked)
  /\ \A k \in 1 .. m - 1 : D[k + 1] = Advanced(D[k], k)

Masters == {r \in World : bIsMaster[r]}
Workers(r) == {w \in master_workers_comm[r] : ~bIsMaster[w]}

Runs(r) == ~bIsMaster[r] /\ nForkedProcesses2spawn(r) = 0
Forks(r) == nForkedProcesses2spawn(r) > 0
HasWorkers(r) == shape.nWorkers > 0 /\ nOwnedEnvironments(r) > 0

\* A master that nobody sends anything.
Starved(r) ==
  bIsMaster[r] /\ ~Forks(r) /\ ~HasWorkers(r) /\ workerless_masters_comm[r] = {}

Talking == {"recv", "send", "relay", "running"}

\* Fields that a rank has.
Known(r) == IF received[r] THEN step[r] ELSE step[r] - 1

Waits(r) ==
  pc[r] \notin Talking \cup {"died"} =>
    /\ step[r] = 1 /\ heard[r] = 0 /\ ~received[r] /\ environment[r] = Environment
    /\ pc[r] \in {"bind", "accept"} => client[r] = asked

Kind(r) ==
  /\ pc[r] \in {"dup", "relay"} => bIsMaster[r]
  /\ pc[r] = "send" => ~bIsMaster[r]
  /\ pc[r] = "recv" => ~Runs(r)
  /\ pc[r] \in {"launch", "barrier", "made"} => Runs(r)
  /\ pc[r] = "env" => ~Forks(r)
  /\ pc[r] \in {"fork", "bind", "accept"} => Forks(r)

FollowsRun(r, D, m) ==
  pc[r] \in Talking /\ Runs(r) =>
    /\ step[r] <= m /\ environment[r] = D[step[r]] /\ ~environment[r].died /\ ~received[r]
    /\ IF pc[r] = "running" THEN step[r] = nFields(asked) + 1 ELSE step[r] <= nFields(asked)

Follows(r, D, m) ==
  pc[r] \in Talking /\ ~Runs(r) /\ ~Starved(r) =>
    /\ Filled(environment[r], step[r]) /\ ~environment[r].died
    /\ Known(r) + 1 <= m /\ Same(environment[r], D[step[r]], Known(r))
    /\ received[r] => ~D[step[r]].died
    /\ Forks(r) => client[r] = D[Known(r) + 1]
    /\ IF pc[r] = "running"
       THEN ~received[r] /\ step[r] = nFields(asked) + 1 /\ ~D[step[r]].died
       ELSE step[r] <= nFields(asked)

Starves(r) ==
  pc[r] \in Talking /\ Starved(r) =>
    /\ pc[r] # "running" /\ step[r] <= 4 /\ ~received[r]
    /\ Filled(environment[r], step[r]) /\ ~environment[r].died
    /\ environment[r].nAgentsPerEnvironment = 1 /\ ~environment[r].separate
    /\ Len(environment[r].mdps) = 1 /\ environment[r].mdps[1].dimAction = 0

Hears(r) ==
  /\ pc[r] = "recv" => IF Forks(r) THEN heard[r] = 0 /\ ~received[r]
                       ELSE /\ received[r] <=> heard[r] > 0
                            /\ received[r] => HasWorkers(r)
  /\ pc[r] = "send" /\ Forks(r) => received[r]
  /\ pc[r] = "relay" => (received[r] <=> Forks(r) \/ HasWorkers(r))
  /\ pc[r] = "relay" /\ workerless_masters_comm[r] # {} =>
       heard[r] + 2 <= Cardinality(workerless_masters_comm[r])

\* What a rank has of the description.
RankInv(r, D, m) ==
  Waits(r) /\ Kind(r) /\ FollowsRun(r, D, m) /\ Follows(r, D, m) /\ Starves(r) /\ Hears(r)

OneAhead(s, r, ahead) == pc[r] # "died" /\ pc[s] # "died" => step[s] = step[r] + IF ahead THEN 1 ELSE 0

\* A worker is a field ahead of its master when it has been heard, ...
HeardFrom(r, w) ==
  pc[r] = "relay" \/ (pc[r] = "recv" /\ RankIn(master_workers_comm[r], w) <= heard[r])

InStep(r) == \A w \in Workers(r) : OneAhead(w, r, HeardFrom(r, w))

\* ... and the other masters are one ahead of rank 0 among them when they have been told.
Told(r, s) == pc[r] = "relay" /\ RankIn(workerless_masters_comm[r], s) <= heard[r]

InStepMasters(r) ==
  workerless_masters_comm[r] # {} /\ RankIn(workerless_masters_comm[r], r) = 0 =>
    \A s \in workerless_masters_comm[r] \ {r} : OneAhead(s, r, Told(r, s))

Tables ==
  /\ step \in [World -> Nat \ {0}] /\ heard \in [World -> Nat] /\ received \in [World -> BOOLEAN]
  /\ bIsMaster \in [World -> BOOLEAN] /\ pc \in [World -> PCs]
  /\ IsRecordOf(environment, World) /\ IsRecordOf(client, World)

\* Groups of a master and its workers, in the order of their ranks.
GroupsFit ==
  /\ \A r \in World : master_workers_comm[r] # {} =>
       /\ r \in master_workers_comm[r] /\ master_workers_comm[r] \subseteq World
       /\ \A s \in master_workers_comm[r] : master_workers_comm[s] = master_workers_comm[r]
       /\ bIsMaster[r] <=> RankIn(master_workers_comm[r], r) = 0
  /\ \A r \in World : pc[r] \in Early \/ shape.nWorkers = 0 =>
       \A s \in World : master_workers_comm[s] = {}
  /\ \A r \in World : shape.nWorkers > 0 /\ pc[r] \notin Early \cup {"died"} =>
       master_workers_comm[r] # {}

\* The masters, when one has to pass the description on to the others.
MastersFit ==
  /\ \A r \in Masters : workerless_masters_comm[r] # {} => workerless_masters_comm[r] = Masters
  /\ \A r, s \in Masters : workerless_masters_comm[r] = workerless_masters_comm[s]
  /\ \A r \in Masters : workerless_masters_comm[r] # {} => Cardinality(Masters) >= 2
  /\ \A r \in World : pc[r] \in Early \cup {"dup"} =>
       \A s \in World : workerless_masters_comm[s] = {}
  /\ \A r \in World : pc[r] = "dup" => Cardinality(Masters) >= 2
  /\ \A r \in Masters : pc[r] \in {"workers", "dup"} => learners_train_comm[r] = Masters

AllEarly ==
  \A r, s \in World : pc[r] \in Early => pc[s] = pc[r] \/ pc[s] = "died"

Arrangement == Tables /\ GroupsFit /\ MastersFit /\ AllEarly

Ranks(D, m) ==
  \A r \in World : RankInv(r, D, m) /\ (bIsMaster[r] => InStep(r) /\ InStepMasters(r))

Described == \E D, m : Course(D, m) /\ Ranks(D, m)

DescribedInv == GroupsInv /\ Arrangement /\ Described

------------------------------------------------------------------------------
(* Fields and their places                                                  *)

LEMMA ListIs ==
  ASSUME NEW n \in Nat, NEW s, IsRecordOf(s, 1 .. n)
  PROVE  Len(s) = n /\ DOMAIN s = 1 .. n
<1> DEFINE T == {s[i] : i \in 1 .. n}
<1>1. s \in [1 .. n -> T]
  BY DEF IsRecordOf
<1>2. s \in Seq(T)
  BY <1>1, IsASeq
<1> HIDE DEF T
<1>3. Len(s) \in Nat /\ DOMAIN s = 1 .. Len(s)
  BY <1>2
<1>4. DOMAIN s = 1 .. n
  BY DEF IsRecordOf
<1>5. \A m, k \in Nat : 1 .. m = 1 .. k => m = k
  <2> SUFFICES ASSUME NEW m \in Nat, NEW k \in Nat, 1 .. m = 1 .. k PROVE m = k
    OBVIOUS
  <2>1. m > 0 => m \in 1 .. k
    OBVIOUS
  <2>2. k > 0 => k \in 1 .. m
    OBVIOUS
  <2> QED BY <2>1, <2>2
<1> QED BY <1>3, <1>4, <1>5

LEMMA Listed ==
  ASSUME NEW s, IsList(s)
  PROVE  Len(s) \in Nat \ {0} /\ DOMAIN s = 1 .. Len(s) /\ IsRecordOf(s, 1 .. Len(s))
<1>1. PICK n \in Nat \ {0} : IsRecordOf(s, 1 .. n)
  BY DEF IsList
<1> QED BY <1>1, ListIs

LEMMA ResizedIs ==
  ASSUME NEW v, NEW n \in Nat, NEW x
  PROVE  /\ Len(Resized(v, n, x)) = n /\ DOMAIN Resized(v, n, x) = 1 .. n
         /\ n > 0 => IsList(Resized(v, n, x))
         /\ \A i \in 1 .. n : Resized(v, n, x)[i] = IF i <= Len(v) THEN v[i] ELSE x
<1> DEFINE s == Resized(v, n, x)
<1>1. IsRecordOf(s, 1 .. n) /\ \A i \in 1 .. n : s[i] = IF i <= Len(v) THEN v[i] ELSE x
  BY DEF Resized, IsRecordOf
<1> HIDE DEF s
<1>2. Len(s) = n /\ DOMAIN s = 1 .. n
  BY <1>1, ListIs
<1>3. n > 0 => IsList(s)
  BY <1>1 DEF IsList
<1> QED BY <1>1, <1>2, <1>3 DEF s

LEMMA ResizedToOne ==
  ASSUME NEW v, NEW x
  PROVE  Len(Resized(v, 1, x)) = 1 /\ Resized(v, 1, x)[1] = IF 1 <= Len(v) THEN v[1] ELSE x
<1> DEFINE s == Resized(v, 1, x)
<1>1. IsRecordOf(s, 1 .. 1) /\ s[1] = IF 1 <= Len(v) THEN v[1] ELSE x
  BY DEF Resized, IsRecordOf
<1> HIDE DEF s
<1>2. 1 \in Nat
  OBVIOUS
<1>3. Len(s) = 1
  BY <1>1, <1>2, ListIs
<1> QED BY <1>1, <1>3 DEF s

LEMMA ResizedOptions ==
  ASSUME NEW v \in Seq(Int), NEW n \in Nat
  PROVE  Resized(v, n, 0) \in Seq(Int)
<1>1. \A i \in 1 .. n : (IF i <= Len(v) THEN v[i] ELSE 0) \in Int
  OBVIOUS
<1>2. Resized(v, n, 0) \in [1 .. n -> Int]
  BY <1>1 DEF Resized
<1> QED BY <1>2, IsASeq

\* Where a field of a descriptor is.
PlaceOf(k) == ((k - 4) % 6) + 1

LEMMA NumbersOfFields ==
  /\ Len(EnvFields) = 3 /\ Len(MDPFields) = 6
  /\ \A e : nFields(e) = 3 + 6 * nDescriptors(e)
<1>1. Len(EnvFields) = 3 /\ Len(MDPFields) = 6
  BY DEF EnvFields, MDPFields
<1> QED BY <1>1 DEF nFields

LEMMA Places ==
  ASSUME NEW k \in Nat, k > 3
  PROVE  /\ mdpOf(k) \in Nat \ {0} /\ PlaceOf(k) \in 1 .. 6
         /\ k = 6 * (mdpOf(k) - 1) + 3 + PlaceOf(k)
<1>1. mdpOf(k) = ((k - 4) \div 6) + 1
  BY NumbersOfFields DEF mdpOf
<1>2. k - 4 \in Nat
  OBVIOUS
<1>3. ASSUME NEW n \in Nat
      PROVE  n \div 6 \in Nat /\ n % 6 \in 0 .. 5 /\ n % 6 = n - 6 * (n \div 6)
  OBVIOUS
<1> QED BY <1>1, <1>2, <1>3 DEF PlaceOf

\* The names of the fields of a descriptor.
FieldAt(mdp, p) ==
  IF p # 6 THEN MDPFields[p] ELSE IF bDiscreteActions(mdp) THEN "options" ELSE "bounds"

LEMMA FieldsAt ==
  ASSUME NEW mdp
  PROVE  /\ FieldAt(mdp, 1) = "dims" /\ FieldAt(mdp, 2) = "nOptions" /\ FieldAt(mdp, 3) = "flags"
         /\ FieldAt(mdp, 4) = "observed" /\ FieldAt(mdp, 5) = "scales"
         /\ FieldAt(mdp, 6) = IF bDiscreteActions(mdp) THEN "options" ELSE "bounds"
BY DEF FieldAt, MDPFields

LEMMA FieldIs ==
  ASSUME NEW e, NEW k \in Nat \ {0}
  PROVE  /\ k = 1 => Field(e, k) = "nAgents"
         /\ k = 2 => Field(e, k) = "separate"
         /\ k = 3 => Field(e, k) = "tracked"
         /\ k > 3 => Field(e, k) = FieldAt(e.mdps[mdpOf(k)], PlaceOf(k))
<1>1. k <= 3 => Field(e, k) = EnvFields[k]
  BY NumbersOfFields DEF Field
<1>2. EnvFields[1] = "nAgents" /\ EnvFields[2] = "separate" /\ EnvFields[3] = "tracked"
  BY DEF EnvFields
<1>3. ASSUME k > 3 PROVE Field(e, k) = FieldAt(e.mdps[mdpOf(k)], PlaceOf(k))
  <2> DEFINE mdp == e.mdps[mdpOf(k)]
             f == MDPFields[((k - Len(EnvFields) - 1) % Len(MDPFields)) + 1]
  <2>1. ((k - Len(EnvFields) - 1) % Len(MDPFields)) + 1 = PlaceOf(k)
    BY NumbersOfFields DEF PlaceOf
  <2>2. PlaceOf(k) \in 1 .. 6
    BY <1>3, Places
  <2>3. Field(e, k) = IF f # "actions" THEN f
                      ELSE IF bDiscreteActions(mdp) THEN "options" ELSE "bounds"
    BY <1>3, NumbersOfFields DEF Field
  <2>4. f = MDPFields[PlaceOf(k)]
    BY <2>1
  <2>5. \A p \in 1 .. 6 : MDPFields[p] # "actions" <=> p # 6
    BY DEF MDPFields
  <2> HIDE DEF f, mdp
  <2>6. Field(e, k) = FieldAt(mdp, PlaceOf(k))
    BY <2>2, <2>3, <2>4, <2>5 DEF FieldAt
  <2> QED BY <2>6 DEF mdp
<1> QED BY <1>1, <1>2, <1>3

MDPValue(mdp, f) ==
  CASE f = "dims" -> <<mdp.dimState, mdp.dimAction>> [] f = "nOptions" -> Len(mdp.options)
    [] OTHER -> mdp[f]

LEMMA NoOptions ==
  ASSUME NEW mdp, mdp.options \in Seq(Int)
  PROVE  Len(mdp.options) \in Nat /\ (bDiscreteActions(mdp) <=> Len(mdp.options) # 0)
BY DEF bDiscreteActions

LEMMA StoredSameMDP ==
  ASSUME NEW a, NEW b, IsMDP(a), IsMDP(b), NEW p \in 1 .. 6, SameMDP(a, b, p - 1)
  PROVE  LET c == StoredMDP(a, FieldAt(a, p), MDPValue(b, FieldAt(a, p))) IN
         /\ FieldAt(a, p) = FieldAt(b, p)
         /\ IsMDP(c) /\ SameMDP(c, b, p)
<1> DEFINE f == FieldAt(a, p)
           v == MDPValue(b, f)
           c == StoredMDP(a, f, v)
           MF == DOMAIN MDPdescriptor
<1>1. MF = {"dimState", "dimAction", "options", "flags", "observed", "scales", "bounds"}
  BY DEF MDPdescriptor
<1>2. /\ a = [x \in MF |-> a[x]] /\ b = [x \in MF |-> b[x]]
      /\ a.options \in Seq(Int) /\ b.options \in Seq(Int)
  BY DEF IsMDP, IsRecordOf
<1>3. /\ Len(a.options) \in Nat /\ (bDiscreteActions(a) <=> Len(a.options) # 0)
      /\ Len(b.options) \in Nat /\ (bDiscreteActions(b) <=> Len(b.options) # 0)
  BY <1>2, NoOptions
<1> HIDE DEF MF
<1>4. p >= 3 => (bDiscreteActions(a) <=> bDiscreteActions(b))
  BY <1>3 DEF SameMDP
<1>5. FieldAt(a, p) = FieldAt(b, p)
  BY <1>4 DEF FieldAt
<1>6. CASE p = 1
  <2>1. c = [a EXCEPT !.dimState = b.dimState, !.dimAction = b.dimAction]
    BY <1>6, FieldsAt DEF StoredMDP, MDPValue
  <2> HIDE DEF c
  <2>2. c = [x \in MF |-> IF x = "dimState" THEN b.dimState
                          ELSE IF x = "dimAction" THEN b.dimAction ELSE a[x]]
    BY <1>1, <1>2, <2>1
  <2>3. IsMDP(c) /\ SameMDP(c, b, 1)
    BY <1>1, <1>2, <2>2 DEF IsMDP, IsRecordOf, SameMDP, MF
  <2> QED BY <1>5, <1>6, <2>3 DEF c
<1>7. CASE p = 2
  <2>1. c = [a EXCEPT !.options = Resized(@, Len(b.options), 0)]
    BY <1>7, FieldsAt DEF StoredMDP, MDPValue
  <2> HIDE DEF c
  <2>2. c = [x \in MF |-> IF x = "options" THEN Resized(a.options, Len(b.options), 0) ELSE a[x]]
    BY <1>1, <1>2, <2>1
  <2>3. /\ Resized(a.options, Len(b.options), 0) \in Seq(Int)
        /\ Len(Resized(a.options, Len(b.options), 0)) = Len(b.options)
    BY <1>2, <1>3, ResizedIs, ResizedOptions, ZenonT(60)
  <2>4. IsMDP(c) /\ SameMDP(c, b, 2)
    BY <1>1, <1>2, <1>7, <2>2, <2>3 DEF IsMDP, IsRecordOf, SameMDP, MF
  <2> QED BY <1>5, <1>7, <2>4 DEF c
<1>8. CASE p \in 3 .. 6
  <2>1. /\ f \in {"flags", "observed", "scales", "options", "bounds"}
        /\ p = 3 => f = "flags"
        /\ p = 4 => f = "observed"
        /\ p = 5 => f = "scales"
        /\ p = 6 => f = IF bDiscreteActions(a) THEN "options" ELSE "bounds"
    BY <1>8, FieldsAt
  <2>2. c = [a EXCEPT ![f] = b[f]]
    BY <2>1 DEF StoredMDP, MDPValue
  <2> HIDE DEF c, f
  <2>3. c = [x \in MF |-> IF x = f THEN b[f] ELSE a[x]]
    BY <1>1, <1>2, <2>2
  <2>4. IsMDP(c)
    BY <1>1, <1>2, <2>1, <2>3 DEF IsMDP, IsRecordOf, MF
  <2>5. c[f] = b[f] /\ \A x \in MF : x # f => c[x] = a[x]
    BY <1>1, <2>1, <2>3
  <2>6. /\ a.dimState = b.dimState /\ a.dimAction = b.dimAction
        /\ Len(a.options) = Len(b.options)
        /\ p >= 4 => a.flags = b.flags
        /\ p >= 5 => a.observed = b.observed
        /\ p >= 6 => a.scales = b.scales
    BY <1>8 DEF SameMDP
  <2>7. /\ c.dimState = b.dimState /\ c.dimAction = b.dimAction
        /\ Len(c.options) = Len(b.options)
        /\ c.flags = b.flags
        /\ p >= 4 => c.observed = b.observed
        /\ p >= 5 => c.scales = b.scales
    BY <1>1, <1>8, <2>1, <2>5, <2>6
  <2>8. p = 6 => IF bDiscreteActions(c) THEN c.options = b.options ELSE c.bounds = b.bounds
    <3>1. c.options \in Seq(Int) /\ (bDiscreteActions(c) <=> Len(c.options) # 0)
      BY <2>4, NoOptions DEF IsMDP, IsRecordOf
    <3>2. bDiscreteActions(c) <=> bDiscreteActions(a)
      BY <1>3, <2>6, <2>7, <3>1
    <3> QED BY <1>1, <2>1, <2>5, <3>2
  <2>9. SameMDP(c, b, p)
    BY <1>8, <2>7, <2>8 DEF SameMDP
  <2> QED BY <1>5, <2>4, <2>9 DEF c, f
<1> QED BY <1>6, <1>7, <1>8

LEMMA SameMDPRefl ==
  ASSUME NEW a, NEW n
  PROVE  SameMDP(a, a, n)
BY DEF SameMDP

LEMMA SameMDPSymmetric ==
  ASSUME NEW a, NEW b, IsMDP(a), IsMDP(b), NEW n \in Int, SameMDP(a, b, n)
  PROVE  SameMDP(b, a, n)
<1>1. n >= 2 => (bDiscreteActions(a) <=> bDiscreteActions(b))
  BY NoOptions DEF SameMDP, IsMDP
<1> QED BY <1>1 DEF SameMDP

LEMMA SameMDPLess ==
  ASSUME NEW a, NEW b, NEW n \in Int, NEW m \in Int, SameMDP(a, b, n), m <= n \/ n >= 6
  PROVE  SameMDP(a, b, m)
BY DEF SameMDP

\* What is put in for a field does not change those before it.
LEMMA PreparedSameMDP ==
  ASSUME NEW a, IsMDP(a), NEW p \in 1 .. 6
  PROVE  LET c == PreparedMDP(a, FieldAt(a, p)) IN
         /\ IsMDP(c) /\ SameMDP(c, a, p - 1)
<1> DEFINE f == FieldAt(a, p)
           c == PreparedMDP(a, f)
           MF == DOMAIN MDPdescriptor
<1>1. MF = {"dimState", "dimAction", "options", "flags", "observed", "scales", "bounds"}
  BY DEF MDPdescriptor
<1>2. a = [x \in MF |-> a[x]] /\ a.options \in Seq(Int)
  BY DEF IsMDP, IsRecordOf
<1>3. /\ p \in {1, 2, 3} => f \notin {"observed", "scales", "bounds"}
      /\ p = 4 => f = "observed"
      /\ p = 5 => f = "scales"
      /\ p = 6 => f \in {"options", "bounds"}
  BY FieldsAt
<1>4. \/ c = a
      \/ \E v : /\ c = [a EXCEPT !.observed = v] /\ f = "observed"
      \/ \E v : /\ c = [a EXCEPT !.scales = v] /\ f = "scales"
      \/ \E v : /\ c = [a EXCEPT !.bounds = v] /\ f = "bounds"
  <2> DEFINE o == [i \in 1 .. a.dimState |-> TRUE]
             s == [i \in 1 .. dimStateObserved(a) |-> Default]
             z == state2observed(a, a.scales)
             b == [i \in 1 .. a.dimAction |-> <<-1, 1>>]
  <2>1. \/ c = a
        \/ c = [a EXCEPT !.observed = o] /\ f = "observed"
        \/ c = [a EXCEPT !.scales = s] /\ f = "scales"
        \/ c = [a EXCEPT !.scales = z] /\ f = "scales"
        \/ c = [a EXCEPT !.bounds = b] /\ f = "bounds"
    <3> HIDE DEF f
    <3>1. CASE f = "observed"
      BY <3>1 DEF PreparedMDP
    <3>2. CASE f = "scales"
      BY <3>2 DEF PreparedMDP
    <3>3. CASE f = "bounds"
      BY <3>3 DEF PreparedMDP
    <3>4. CASE f \notin {"observed", "scales", "bounds"}
      BY <3>4 DEF PreparedMDP
    <3> QED BY <3>1, <3>2, <3>3, <3>4
  <2> HIDE DEF o, s, z, b, c, f
  <2> QED BY <2>1
<1> HIDE DEF MF, f, c
<1>5. CASE c = a
  BY <1>5, SameMDPRefl DEF f, c
<1>6. ASSUME NEW g \in {"observed", "scales", "bounds"}, f = g, NEW v,
             c = [x \in MF |-> IF x = g THEN v ELSE a[x]]
      PROVE  IsMDP(c) /\ SameMDP(c, a, p - 1)
  <2>1. IsMDP(c)
    BY <1>1, <1>2, <1>6 DEF IsMDP, IsRecordOf, MF
  <2>2. g = "observed" => p <= 4
    BY <1>3, <1>6
  <2>3. g = "scales" => p <= 5
    BY <1>3, <1>6
  <2>4. \A x \in MF : x # g => c[x] = a[x]
    BY <1>1, <1>6
  <2> QED BY <1>1, <2>1, <2>2, <2>3, <2>4 DEF SameMDP
<1>7. ASSUME NEW v, c = [a EXCEPT !.observed = v] /\ f = "observed" PROVE IsMDP(c) /\ SameMDP(c, a, p - 1)
  BY <1>1, <1>2, <1>6, <1>7
<1>8. ASSUME NEW v, c = [a EXCEPT !.scales = v] /\ f = "scales" PROVE IsMDP(c) /\ SameMDP(c, a, p - 1)
  BY <1>1, <1>2, <1>6, <1>8
<1>9. ASSUME NEW v, c = [a EXCEPT !.bounds = v] /\ f = "bounds" PROVE IsMDP(c) /\ SameMDP(c, a, p - 1)
  BY <1>1, <1>2, <1>6, <1>9
<1> QED BY <1>4, <1>5, <1>7, <1>8, <1>9 DEF f, c

LEMMA SameMDPTrans ==
  ASSUME NEW a, NEW b, NEW c, IsMDP(a), IsMDP(b), NEW n \in Int,
         SameMDP(a, b, n), SameMDP(b, c, n)
  PROVE  SameMDP(a, c, n)
<1>1. n >= 2 => (bDiscreteActions(a) <=> bDiscreteActions(b))
  BY NoOptions DEF SameMDP, IsMDP
<1> QED BY <1>1 DEF SameMDP

LEMMA InDescription ==
  ASSUME NEW e, IsDescription(e)
  PROVE  /\ Len(e.mdps) \in Nat \ {0} /\ DOMAIN e.mdps = 1 .. Len(e.mdps)
         /\ nDescriptors(e) \in Nat \ {0} /\ nFields(e) \in Nat /\ nFields(e) >= 9
         /\ nFields(e) = 3 + 6 * nDescriptors(e)
         /\ \A i \in 1 .. Len(e.mdps) : IsMDP(e.mdps[i])
<1>1. Len(e.mdps) \in Nat \ {0} /\ DOMAIN e.mdps = 1 .. Len(e.mdps)
  BY Listed DEF IsDescription
<1>2. nDescriptors(e) \in Nat \ {0}
  BY DEF IsDescription, nDescriptors
<1>3. nFields(e) = 3 + 6 * nDescriptors(e)
  BY NumbersOfFields
<1> HIDE DEF nDescriptors
<1>4. nFields(e) \in Nat /\ nFields(e) >= 9
  BY <1>2, <1>3
<1>5. \A i \in 1 .. Len(e.mdps) : IsMDP(e.mdps[i])
  BY <1>1 DEF IsDescription
<1> QED BY <1>1, <1>2, <1>3, <1>4, <1>5

LEMMA InPlace ==
  ASSUME NEW e, IsDescription(e), NEW k \in Nat, k > 3, k <= nFields(e)
  PROVE  mdpOf(k) \in 1 .. nDescriptors(e)
<1>1. nDescriptors(e) \in Nat \ {0} /\ nFields(e) = 3 + 6 * nDescriptors(e)
  BY InDescription
<1>2. /\ mdpOf(k) \in Nat \ {0} /\ PlaceOf(k) \in 1 .. 6
      /\ k = 6 * (mdpOf(k) - 1) + 3 + PlaceOf(k)
  BY Places
<1> QED BY <1>1, <1>2

EnvironmentFields == {"nAgentsPerEnvironment", "separate", "distributed", "tracked", "mdps", "died"}

LEMMA EnvironmentHas == DOMAIN Environment = EnvironmentFields
BY DEF Environment, EnvironmentFields

\* One descriptor is changed.
Replaces(w, e, m, mdp) ==
  /\ IsRecordOf(w, EnvironmentFields) /\ \A f \in EnvironmentFields : f # "mdps" => w[f] = e[f]
  /\ IsRecordOf(w.mdps, 1 .. Len(e.mdps)) /\ w.mdps[m] = mdp
  /\ \A i \in 1 .. Len(e.mdps) : i # m => w.mdps[i] = e.mdps[i]

LEMMA MDPReplaced ==
  ASSUME NEW e, IsDescription(e), NEW m \in 1 .. Len(e.mdps), NEW mdp
  PROVE  Replaces([e EXCEPT !.mdps[m] = mdp], e, m, mdp)
<1> DEFINE w == [e EXCEPT !.mdps[m] = mdp]
           EF == EnvironmentFields
           n == Len(e.mdps)
           s == [e.mdps EXCEPT ![m] = mdp]
<1>1. EF = {"nAgentsPerEnvironment", "separate", "distributed", "tracked", "mdps", "died"}
      /\ DOMAIN Environment = EF
  BY EnvironmentHas DEF EnvironmentFields
<1>2. e = [x \in EF |-> e[x]] /\ e.mdps = [i \in 1 .. n |-> e.mdps[i]] /\ n \in Nat \ {0}
  BY <1>1, Listed DEF IsDescription, IsRecordOf
<1>3. w = [x \in EF |-> IF x = "mdps" THEN s ELSE e[x]]
  BY <1>1, <1>2
<1>4. s = [i \in 1 .. n |-> IF i = m THEN mdp ELSE e.mdps[i]]
  BY <1>2
<1> HIDE DEF w, EF, s
<1>5. /\ w = [x \in EF |-> w[x]] /\ w.mdps = s
      /\ \A f \in EF : f # "mdps" => w[f] = e[f]
  BY <1>1, <1>3
<1> HIDE DEF n
<1>6. /\ s = [i \in 1 .. n |-> s[i]] /\ s[m] = mdp
      /\ \A i \in 1 .. n : i # m => s[i] = e.mdps[i]
  BY <1>2, <1>4 DEF n
<1>7. /\ IsRecordOf(w, EF) /\ IsRecordOf(s, 1 .. n)
  BY <1>5, <1>6 DEF IsRecordOf
<1>8. Replaces(w, e, m, mdp)
  BY <1>5, <1>6, <1>7 DEF Replaces, EF, n
<1> QED BY <1>8 DEF w

LEMMA WithMDP ==
  ASSUME NEW e, IsDescription(e), NEW m \in 1 .. Len(e.mdps), NEW mdp, IsMDP(mdp),
         NEW w, Replaces(w, e, m, mdp)
  PROVE  /\ IsDescription(w) /\ Len(w.mdps) = Len(e.mdps) /\ nDescriptors(w) = nDescriptors(e)
         /\ w.nAgentsPerEnvironment = e.nAgentsPerEnvironment /\ w.separate = e.separate
         /\ w.tracked = e.tracked /\ w.died = e.died
<1> DEFINE n == Len(e.mdps)
<1>1. /\ EnvironmentFields = {"nAgentsPerEnvironment", "separate", "distributed", "tracked", "mdps", "died"}
      /\ DOMAIN Environment = EnvironmentFields
  BY EnvironmentHas DEF EnvironmentFields
<1>2. n \in Nat \ {0} /\ \A i \in 1 .. n : IsMDP(e.mdps[i])
  BY InDescription
<1>3. /\ IsRecordOf(w.mdps, 1 .. n) /\ w.mdps[m] = mdp
      /\ \A i \in 1 .. n : i # m => w.mdps[i] = e.mdps[i]
  BY DEF Replaces
<1> HIDE DEF n
<1>4. Len(w.mdps) = n /\ DOMAIN w.mdps = 1 .. n /\ IsList(w.mdps)
  BY <1>2, <1>3, ListIs DEF IsList
<1>5. /\ w.nAgentsPerEnvironment = e.nAgentsPerEnvironment /\ w.separate = e.separate
      /\ w.tracked = e.tracked /\ w.died = e.died
  BY <1>1 DEF Replaces
<1>6. \A i \in 1 .. n : IsMDP(w.mdps[i])
  BY <1>2, <1>3
<1>7. IsRecordOf(w, DOMAIN Environment)
  BY <1>1 DEF Replaces
<1>8. IsDescription(w)
  BY <1>4, <1>5, <1>6, <1>7 DEF IsDescription
<1>9. nDescriptors(w) = nDescriptors(e)
  BY <1>5 DEF nDescriptors
<1> QED BY <1>4, <1>5, <1>8, <1>9 DEF n

\* Another part of it is.
LEMMA WithParts ==
  ASSUME NEW e, IsDescription(e), NEW w, IsRecordOf(w, EnvironmentFields),
         w.nAgentsPerEnvironment \in Nat \ {0}, w.separate \in BOOLEAN, w.died \in BOOLEAN,
         w.mdps = e.mdps
  PROVE  IsDescription(w)
BY EnvironmentHas DEF IsDescription

\* How far two descriptors agree does not depend on more than the fields that they have.
LEMMA SameStep ==
  ASSUME NEW e, NEW d, NEW w, NEW k \in Nat, k > 3,
         Same(e, d, k - 1),
         \A f \in {"nAgentsPerEnvironment", "separate", "tracked"} : w[f] = e[f],
         \A i \in Nat \ {0} : i < mdpOf(k) => w.mdps[i] = e.mdps[i],
         SameMDP(w.mdps[mdpOf(k)], d.mdps[mdpOf(k)], PlaceOf(k))
  PROVE  Same(w, d, k)
<1> DEFINE m == mdpOf(k)
           p == PlaceOf(k)
<1>1. m \in Nat \ {0} /\ p \in 1 .. 6 /\ k = 6 * (m - 1) + 3 + p
  BY Places
<1> HIDE DEF m, p
<1>2. /\ w.nAgentsPerEnvironment = d.nAgentsPerEnvironment /\ w.separate = d.separate
      /\ w.tracked = d.tracked
  BY DEF Same
<1>3. ASSUME NEW i \in Nat \ {0}, 6 * (i - 1) + 3 < k
      PROVE  SameMDP(w.mdps[i], d.mdps[i], k - 3 - 6 * (i - 1))
  <2>1. i <= m
    BY <1>1, <1>3
  <2>2. CASE i = m
    <3>1. k - 3 - 6 * (i - 1) = p
      BY <1>1, <2>2
    <3> QED BY <2>2, <3>1 DEF m, p
  <2>3. CASE i < m
    <3>1. 6 * (i - 1) + 3 < k - 1 /\ (k - 1) - 3 - 6 * (i - 1) >= 6
      BY <1>1, <2>3
    <3>2. SameMDP(e.mdps[i], d.mdps[i], (k - 1) - 3 - 6 * (i - 1))
      BY <3>1 DEF Same
    <3>3. (k - 1) - 3 - 6 * (i - 1) \in Int /\ k - 3 - 6 * (i - 1) \in Int
      OBVIOUS
    <3>4. SameMDP(e.mdps[i], d.mdps[i], k - 3 - 6 * (i - 1))
      BY <3>1, <3>2, <3>3, SameMDPLess
    <3> QED BY <2>3, <3>4 DEF m
  <2> QED BY <1>1, <2>1, <2>2, <2>3
<1> QED BY <1>2, <1>3 DEF Same

LEMMA SameLess ==
  ASSUME NEW e, NEW d, NEW k \in Int, NEW n \in Int, Same(e, d, k), n <= k
  PROVE  Same(e, d, n)
<1>1. ASSUME NEW i \in Nat \ {0}, 6 * (i - 1) + 3 < n
      PROVE  SameMDP(e.mdps[i], d.mdps[i], n - 3 - 6 * (i - 1))
  <2>1. SameMDP(e.mdps[i], d.mdps[i], k - 3 - 6 * (i - 1))
    BY <1>1 DEF Same
  <2>2. k - 3 - 6 * (i - 1) \in Int /\ n - 3 - 6 * (i - 1) \in Int
        /\ n - 3 - 6 * (i - 1) <= k - 3 - 6 * (i - 1)
    OBVIOUS
  <2> QED BY <2>1, <2>2, SameMDPLess
<1> QED BY <1>1 DEF Same

LEMMA SameDescriptors ==
  ASSUME NEW e, NEW d, NEW k \in Int, Same(e, d, k), k >= 2
  PROVE  nDescriptors(e) = nDescriptors(d) /\ nFields(e) = nFields(d)
<1>1. nDescriptors(e) = nDescriptors(d)
  BY DEF Same, nDescriptors
<1> QED BY <1>1, NumbersOfFields

\* Whoever gets the next field has it as it was sent.
LEMMA StoredSame ==
  ASSUME NEW k \in Nat \ {0}, NEW e, Filled(e, k), ~e.died, NEW d, Filled(d, k), ~d.died,
         k <= nFields(d), Same(e, d, k - 1)
  PROVE  LET w == Stored(e, k, Value(d, k)) IN
         /\ Field(e, k) = Field(d, k)
         /\ Filled(w, k) /\ ~w.died /\ Same(w, d, k)
<1> DEFINE v == Value(d, k)
           w == Stored(e, k, v)
<1>1. /\ IsDescription(e) /\ IsDescription(d)
      /\ k > 3 => Len(e.mdps) = nDescriptors(e) /\ Len(d.mdps) = nDescriptors(d)
  BY DEF Filled
<1>e. EnvironmentFields = {"nAgentsPerEnvironment", "separate", "distributed", "tracked", "mdps", "died"}
  BY DEF EnvironmentFields
<1>2. CASE k = 1
  <2>1. /\ Field(e, k) = "nAgents" /\ Field(d, k) = "nAgents"
        /\ w = [e EXCEPT !.nAgentsPerEnvironment = d.nAgentsPerEnvironment]
        /\ d.nAgentsPerEnvironment \in Nat \ {0}
    BY <1>1, <1>2, FieldIs DEF Stored, Value, IsDescription
  <2> HIDE DEF w
  <2>2. /\ IsDescription(w) /\ w.nAgentsPerEnvironment = d.nAgentsPerEnvironment
        /\ w.died = e.died
    BY <1>1, <1>e, <2>1, WithParts, EnvironmentHas DEF IsDescription, IsRecordOf
  <2>3. Same(w, d, k)
    BY <1>2, <2>2 DEF Same
  <2> QED BY <1>2, <2>1, <2>2, <2>3 DEF Filled, w
<1>3. CASE k = 2
  <2>1. /\ Field(e, k) = "separate" /\ Field(d, k) = "separate"
        /\ w = [e EXCEPT !.separate = d.separate]
        /\ d.separate \in BOOLEAN
    BY <1>1, <1>3, FieldIs DEF Stored, Value, IsDescription
  <2> HIDE DEF w
  <2>2. /\ IsDescription(w) /\ w.separate = d.separate
        /\ w.nAgentsPerEnvironment = e.nAgentsPerEnvironment /\ w.died = e.died
    BY <1>1, <1>e, <2>1, WithParts, EnvironmentHas DEF IsDescription, IsRecordOf
  <2>3. Same(w, d, k)
    BY <1>3, <2>2 DEF Same
  <2> QED BY <1>3, <2>1, <2>2, <2>3 DEF Filled, w
<1>4. CASE k = 3
  <2>1. /\ Field(e, k) = "tracked" /\ Field(d, k) = "tracked"
        /\ w = [e EXCEPT !.tracked = d.tracked]
    BY <1>1, <1>4, FieldIs DEF Stored, Value
  <2> HIDE DEF w
  <2>2. /\ IsDescription(w) /\ w.tracked = d.tracked /\ w.separate = e.separate
        /\ w.nAgentsPerEnvironment = e.nAgentsPerEnvironment /\ w.died = e.died
    BY <1>1, <1>e, <2>1, WithParts, EnvironmentHas DEF IsDescription, IsRecordOf
  <2>3. Same(w, d, k)
    BY <1>4, <2>2 DEF Same
  <2> QED BY <1>4, <2>1, <2>2, <2>3 DEF Filled, w
<1>5. CASE k > 3
  <2> DEFINE m == mdpOf(k)
             p == PlaceOf(k)
             a == e.mdps[m]
             b == d.mdps[m]
             c == StoredMDP(a, FieldAt(a, p), MDPValue(b, FieldAt(a, p)))
  <2>1. m \in Nat \ {0} /\ p \in 1 .. 6 /\ k = 6 * (m - 1) + 3 + p
    BY <1>5, Places
  <2>2. nDescriptors(e) = nDescriptors(d) /\ nFields(e) = nFields(d)
    <3>1. k - 1 \in Int /\ k - 1 >= 2
      BY <1>5
    <3> QED BY <3>1, SameDescriptors
  <2>3. m \in 1 .. nDescriptors(d) /\ m \in 1 .. Len(e.mdps) /\ m \in 1 .. Len(d.mdps)
    BY <1>1, <1>5, <2>2, InPlace
  <2>4. IsMDP(a) /\ IsMDP(b)
    BY <1>1, <2>3, InDescription
  <2>5. SameMDP(a, b, p - 1)
    <3>1. CASE p = 1
      BY <3>1 DEF SameMDP
    <3>2. CASE p > 1
      <4>1. 6 * (m - 1) + 3 < k - 1 /\ (k - 1) - 3 - 6 * (m - 1) = p - 1
        BY <2>1, <3>2
      <4>2. SameMDP(e.mdps[m], d.mdps[m], (k - 1) - 3 - 6 * (m - 1))
        BY <2>1, <4>1 DEF Same
      <4> QED BY <4>1, <4>2
    <3> QED BY <2>1, <3>1, <3>2
  <2>6. Field(e, k) = FieldAt(a, p) /\ Field(d, k) = FieldAt(b, p)
    BY <1>5, FieldIs
  <2>7. FieldAt(a, p) = FieldAt(b, p) /\ IsMDP(c) /\ SameMDP(c, b, p)
    BY <2>1, <2>4, <2>5, StoredSameMDP
  <2>8. FieldAt(a, p) \notin {"nAgents", "separate", "tracked"}
    <3> HIDE DEF a
    <3>1. p \in {1, 2, 3, 4, 5, 6}
      BY <2>1
    <3>2. FieldAt(a, p) \in {"dims", "nOptions", "flags", "observed", "scales", "options", "bounds"}
      BY <3>1, FieldsAt
    <3> QED BY <3>2
  <2>9. v = MDPValue(b, FieldAt(a, p))
    BY <2>6, <2>7, <2>8 DEF Value, MDPValue
  <2>10. w = [e EXCEPT !.mdps[m] = c]
    BY <2>6, <2>8, <2>9 DEF Stored
  <2> HIDE DEF w, c, m, p, v
  <2>a. Replaces([e EXCEPT !.mdps[m] = c], e, m, c)
    BY <1>1, <2>3, MDPReplaced
  <2>b. Replaces(w, e, m, c)
    BY <2>10, <2>a
  <2>11. /\ IsDescription(w) /\ Len(w.mdps) = Len(e.mdps) /\ nDescriptors(w) = nDescriptors(e)
         /\ w.nAgentsPerEnvironment = e.nAgentsPerEnvironment /\ w.separate = e.separate
         /\ w.tracked = e.tracked /\ w.died = e.died
    BY <1>1, <2>3, <2>7, <2>b, WithMDP
  <2>12. Same(w, d, k)
    <3>1. \A i \in Nat \ {0} : i < m => w.mdps[i] = e.mdps[i]
      BY <2>1, <2>3, <2>b DEF Replaces
    <3>2. \A f \in {"nAgentsPerEnvironment", "separate", "tracked"} : w[f] = e[f]
      BY <2>11
    <3>3. SameMDP(w.mdps[m], d.mdps[m], p)
      BY <2>7, <2>b DEF Replaces, b
    <3>4. Same(e, d, k - 1)
      OBVIOUS
    <3> QED BY <1>5, <3>1, <3>2, <3>3, <3>4, SameStep DEF m, p
  <2> QED BY <1>1, <1>5, <2>6, <2>7, <2>11, <2>12 DEF Filled, w, m, p, v
<1> QED BY <1>2, <1>3, <1>4, <1>5

\* Two descriptions can be compared as far as both have descriptors.
Reaches(e, k) == IsDescription(e) /\ (k > 3 => Len(e.mdps) = nDescriptors(e) /\ k <= nFields(e))

LEMMA DescriptorAt ==
  ASSUME NEW e, NEW k \in Int, Reaches(e, k), NEW i \in Nat \ {0}, 6 * (i - 1) + 3 < k
  PROVE  i \in 1 .. Len(e.mdps) /\ IsMDP(e.mdps[i])
<1>1. k > 3
  OBVIOUS
<1>2. IsDescription(e) /\ Len(e.mdps) = nDescriptors(e) /\ k <= nFields(e)
  BY <1>1 DEF Reaches
<1>3. /\ nDescriptors(e) \in Nat \ {0} /\ nFields(e) = 3 + 6 * nDescriptors(e)
      /\ \A j \in 1 .. Len(e.mdps) : IsMDP(e.mdps[j])
  BY <1>2, InDescription
<1>4. i \in 1 .. nDescriptors(e)
  BY <1>2, <1>3
<1> QED BY <1>2, <1>3, <1>4

LEMMA SameSymmetric ==
  ASSUME NEW e, NEW d, NEW k \in Int, Reaches(e, k), Reaches(d, k), Same(e, d, k)
  PROVE  Same(d, e, k)
<1>1. ASSUME NEW i \in Nat \ {0}, 6 * (i - 1) + 3 < k
      PROVE  SameMDP(d.mdps[i], e.mdps[i], k - 3 - 6 * (i - 1))
  <2>1. IsMDP(e.mdps[i]) /\ IsMDP(d.mdps[i])
    BY <1>1, DescriptorAt
  <2>2. SameMDP(e.mdps[i], d.mdps[i], k - 3 - 6 * (i - 1))
    BY <1>1 DEF Same
  <2>3. k - 3 - 6 * (i - 1) \in Int
    OBVIOUS
  <2> QED BY <2>1, <2>2, <2>3, SameMDPSymmetric
<1> QED BY <1>1 DEF Same

LEMMA SameTransitive ==
  ASSUME NEW e, NEW d, NEW w, NEW k \in Int, Reaches(e, k), Reaches(d, k),
         Same(e, d, k), Same(d, w, k)
  PROVE  Same(e, w, k)
<1>1. ASSUME NEW i \in Nat \ {0}, 6 * (i - 1) + 3 < k
      PROVE  SameMDP(e.mdps[i], w.mdps[i], k - 3 - 6 * (i - 1))
  <2>1. IsMDP(e.mdps[i]) /\ IsMDP(d.mdps[i])
    BY <1>1, DescriptorAt
  <2>2. /\ SameMDP(e.mdps[i], d.mdps[i], k - 3 - 6 * (i - 1))
        /\ SameMDP(d.mdps[i], w.mdps[i], k - 3 - 6 * (i - 1))
    BY <1>1 DEF Same
  <2>3. k - 3 - 6 * (i - 1) \in Int
    OBVIOUS
  <2> QED BY <2>1, <2>2, <2>3, SameMDPTrans
<1> QED BY <1>1 DEF Same

LEMMA SameRefl ==
  ASSUME NEW e, NEW k
  PROVE  Same(e, e, k)
BY SameMDPRefl DEF Same

\* Only a descriptor beyond the k-th field, or with that field, is changed.
LEMMA SameReplaced ==
  ASSUME NEW e, NEW k \in Int, Reaches(e, k), NEW m \in 1 .. Len(e.mdps), NEW mdp,
         NEW w, Replaces(w, e, m, mdp),
         6 * (m - 1) + 3 < k => SameMDP(mdp, e.mdps[m], k - 3 - 6 * (m - 1))
  PROVE  Same(w, e, k)
<1>1. /\ EnvironmentFields = {"nAgentsPerEnvironment", "separate", "distributed", "tracked", "mdps", "died"}
  BY DEF EnvironmentFields
<1>2. /\ w.nAgentsPerEnvironment = e.nAgentsPerEnvironment /\ w.separate = e.separate
      /\ w.tracked = e.tracked
  BY <1>1 DEF Replaces
<1>3. ASSUME NEW i \in Nat \ {0}, 6 * (i - 1) + 3 < k
      PROVE  SameMDP(w.mdps[i], e.mdps[i], k - 3 - 6 * (i - 1))
  <2>1. i \in 1 .. Len(e.mdps)
    BY <1>3, DescriptorAt
  <2>2. CASE i = m
    BY <1>3, <2>2 DEF Replaces
  <2>3. CASE i # m
    BY <2>1, <2>3, SameMDPRefl DEF Replaces
  <2> QED BY <2>2, <2>3
<1> QED BY <1>2, <1>3 DEF Same

LEMMA PreparedFacts ==
  ASSUME NEW e, NEW k \in Nat, IsDescription(e), k + 1 > 3 => Len(e.mdps) = nDescriptors(e),
         k + 1 <= nFields(e)
  PROVE  LET w == Prepared(e, k + 1) IN
         /\ IsDescription(w) /\ Len(w.mdps) = Len(e.mdps) /\ nDescriptors(w) = nDescriptors(e)
         /\ nFields(w) = nFields(e) /\ w.died = e.died
         /\ Same(w, e, k)
<1> DEFINE w == Prepared(e, k + 1)
           f == Field(e, k + 1)
<1>e. EnvironmentFields = {"nAgentsPerEnvironment", "separate", "distributed", "tracked", "mdps", "died"}
  BY DEF EnvironmentFields
<1>0. k + 1 \in Nat \ {0}
  OBVIOUS
<1>1. CASE k + 1 \in {1, 2}
  <2>1. w = e
    <3>1. f # "tracked" /\ k + 1 <= Len(EnvFields)
      BY <1>0, <1>1, FieldIs, NumbersOfFields
    <3> QED BY <3>1 DEF Prepared
  <2> QED BY <2>1, SameRefl
<1>2. CASE k + 1 = 3
  <2> DEFINE t == Resized(e.tracked, e.nAgentsPerEnvironment, TRUE)
  <2>1. w = [e EXCEPT !.tracked = t]
    BY <1>0, <1>2, FieldIs DEF Prepared
  <2> HIDE DEF w, t
  <2>2. /\ IsDescription(w) /\ w.mdps = e.mdps /\ w.died = e.died
        /\ w.nAgentsPerEnvironment = e.nAgentsPerEnvironment /\ w.separate = e.separate
    BY <1>e, <2>1, WithParts, EnvironmentHas DEF IsDescription, IsRecordOf
  <2>3. nDescriptors(w) = nDescriptors(e)
    BY <2>2 DEF nDescriptors
  <2>4. nFields(w) = nFields(e)
    BY <2>3, NumbersOfFields
  <2>5. Same(w, e, k)
    BY <1>2, <2>2 DEF Same
  <2> QED BY <2>2, <2>3, <2>4, <2>5 DEF w
<1>3. CASE k + 1 > 3
  <2> DEFINE m == mdpOf(k + 1)
             p == PlaceOf(k + 1)
             a == e.mdps[m]
             c == PreparedMDP(a, FieldAt(a, p))
  <2>1. m \in Nat \ {0} /\ p \in 1 .. 6 /\ k + 1 = 6 * (m - 1) + 3 + p
    BY <1>0, <1>3, Places
  <2>2. m \in 1 .. Len(e.mdps)
    BY <1>0, <1>3, InPlace
  <2>3. IsMDP(a)
    BY <2>2, InDescription
  <2>4. f = FieldAt(a, p)
    BY <1>0, <1>3, FieldIs
  <2>5. FieldAt(a, p) # "tracked"
    <3> HIDE DEF a
    <3>1. p \in {1, 2, 3, 4, 5, 6}
      BY <2>1
    <3>2. FieldAt(a, p) \in {"dims", "nOptions", "flags", "observed", "scales", "options", "bounds"}
      BY <3>1, FieldsAt
    <3> QED BY <3>2
  <2>6. w = [e EXCEPT !.mdps[m] = c]
    BY <1>3, <2>4, <2>5, NumbersOfFields, SMTT(30) DEF Prepared
  <2>7. IsMDP(c) /\ SameMDP(c, a, p - 1)
    BY <2>1, <2>3, PreparedSameMDP
  <2>8. Replaces(w, e, m, c)
    <3>1. Replaces([e EXCEPT !.mdps[m] = c], e, m, c)
      BY <2>2, MDPReplaced
    <3> HIDE DEF w, c, m
    <3> QED BY <2>6, <3>1
  <2> HIDE DEF w, c, m, p
  <2>9. /\ IsDescription(w) /\ Len(w.mdps) = Len(e.mdps) /\ nDescriptors(w) = nDescriptors(e)
        /\ w.died = e.died
    BY <2>2, <2>7, <2>8, WithMDP
  <2>10. nFields(w) = nFields(e)
    BY <2>9, NumbersOfFields
  <2>11. Same(w, e, k)
    <3>1. 6 * (m - 1) + 3 < k => k - 3 - 6 * (m - 1) = p - 1
      BY <2>1
    <3>2. Reaches(e, k)
      <4>1. nFields(e) \in Nat
        BY InDescription
      <4> QED BY <1>3, <4>1 DEF Reaches
    <3> QED BY <2>2, <2>7, <2>8, <3>1, <3>2, SameReplaced
  <2> QED BY <2>9, <2>10, <2>11 DEF w
<1> QED BY <1>0, <1>1, <1>2, <1>3

------------------------------------------------------------------------------
(* What is settled, and put in, before a field is passed on                 *)

OrderedMDP(mdp) == [mdp EXCEPT !.bounds = [i \in DOMAIN @ |-> Ordered(@[i])]]

LEMMA OrderedIs ==
  ASSUME NEW mdp, IsMDP(mdp)
  PROVE  LET c == OrderedMDP(mdp) IN
         /\ IsMDP(c) /\ c.bounds = [i \in DOMAIN mdp.bounds |-> Ordered(mdp.bounds[i])]
         /\ \A f \in DOMAIN MDPdescriptor : f # "bounds" => c[f] = mdp[f]
<1> DEFINE c == OrderedMDP(mdp)
           b == [i \in DOMAIN mdp.bounds |-> Ordered(mdp.bounds[i])]
           MF == DOMAIN MDPdescriptor
<1>1. MF = {"dimState", "dimAction", "options", "flags", "observed", "scales", "bounds"}
  BY DEF MDPdescriptor
<1>2. c = [mdp EXCEPT !.bounds = b]
  BY DEF OrderedMDP
<1> HIDE DEF c, b, MF
<1>3. IsRecordOf(mdp, MF) /\ mdp.options \in Seq(Int)
  BY DEF IsMDP, MF
<1>4. IsRecordOf(c, MF) /\ c.bounds = b /\ \A f \in MF : f # "bounds" => c[f] = mdp[f]
  BY <1>1, <1>2, <1>3 DEF IsRecordOf
<1>5. IsMDP(c)
  BY <1>1, <1>3, <1>4 DEF IsMDP, MF
<1> QED BY <1>4, <1>5 DEF c, b, MF

\* What becomes of a descriptor with its last field.
Bounded(e, k) == k > 3 /\ Field(e, k) = "bounds" /\ ~Wrong(e.mdps[mdpOf(k)], "bounds")
Fails(e, k) == k > 3 /\ Wrong(e.mdps[mdpOf(k)], Field(e, k))

LEMMA SettledIs ==
  ASSUME NEW e, NEW k \in Nat \ {0}, IsDescription(e)
  PROVE  /\ k < 3 => Settled(e, k) = e
         /\ k = 3 => Settled(e, k) = initDescriptors(e)
         /\ k > 3 /\ Fails(e, k) => Settled(e, k) = [e EXCEPT !.died = TRUE]
         /\ k > 3 /\ Bounded(e, k) =>
              Settled(e, k) = [e EXCEPT !.mdps[mdpOf(k)] = OrderedMDP(e.mdps[mdpOf(k)])]
         /\ k > 3 /\ ~Fails(e, k) /\ ~Bounded(e, k) => Settled(e, k) = e
<1> DEFINE f == Field(e, k)
           mdp == e.mdps[mdpOf(k)]
<1>1. CASE k < 3
  <2>1. f # "tracked" /\ f # "bounds"
    BY <1>1, FieldIs
  <2> QED BY <1>1, <2>1, NumbersOfFields DEF Settled
<1>2. CASE k = 3
  <2>1. f = "tracked"
    BY <1>2, FieldIs
  <2> QED BY <1>2, <2>1, NumbersOfFields DEF Settled
<1>3. CASE k > 3
  <2>1. f # "tracked" /\ k > Len(EnvFields) /\ ~(k < Len(EnvFields))
    <3>1. PlaceOf(k) \in {1, 2, 3, 4, 5, 6}
      BY <1>3, Places
    <3>2. f \in {"dims", "nOptions", "flags", "observed", "scales", "options", "bounds"}
      <4> HIDE DEF f
      <4>1. f = FieldAt(mdp, PlaceOf(k))
        BY <1>3, FieldIs DEF f
      <4> QED BY <3>1, <4>1, FieldsAt
    <3> QED BY <1>3, <3>2, NumbersOfFields
  <2> HIDE DEF f, mdp
  <2>2. CASE Wrong(mdp, f)
    <3>1. Settled(e, k) = [e EXCEPT !.died = TRUE] /\ Fails(e, k) /\ ~Bounded(e, k)
      BY <1>3, <2>1, <2>2 DEF Settled, f, mdp, Fails, Bounded
    <3> QED BY <1>3, <3>1
  <2>3. CASE ~Wrong(mdp, f) /\ f = "bounds"
    <3>1. Settled(e, k) = [e EXCEPT !.mdps[mdpOf(k)].bounds = [i \in DOMAIN @ |-> Ordered(@[i])]]
      BY <1>3, <2>1, <2>3 DEF Settled, f, mdp
    <3>2. ~Fails(e, k) /\ Bounded(e, k)
      BY <1>3, <2>3 DEF Fails, Bounded, f, mdp
    <3> QED BY <1>3, <3>1, <3>2 DEF OrderedMDP
  <2>4. CASE ~Wrong(mdp, f) /\ f # "bounds"
    <3>1. Settled(e, k) = e /\ ~Fails(e, k) /\ ~Bounded(e, k)
      BY <1>3, <2>1, <2>4 DEF Settled, f, mdp, Fails, Bounded
    <3> QED BY <1>3, <3>1
  <2> QED BY <2>2, <2>3, <2>4
<1> QED BY <1>1, <1>2, <1>3

LEMMA InitDescriptorsFacts ==
  ASSUME NEW e, IsDescription(e), ~e.died
  PROVE  LET w == initDescriptors(e) IN
         /\ IsDescription(w) /\ w.nAgentsPerEnvironment = e.nAgentsPerEnvironment
         /\ w.separate = e.separate /\ w.tracked = e.tracked
         /\ w.died \/ Len(w.mdps) = nDescriptors(e)
<1> DEFINE w == initDescriptors(e)
           n == nDescriptors(e)
           s == Resized(e.mdps, n, e.mdps[1])
<1>e. /\ EnvironmentFields = {"nAgentsPerEnvironment", "separate", "distributed", "tracked", "mdps", "died"}
      /\ IsRecordOf(e, EnvironmentFields) /\ DOMAIN Environment = EnvironmentFields
  BY EnvironmentHas DEF EnvironmentFields, IsDescription
<1>1. n \in Nat \ {0} /\ Len(e.mdps) \in Nat \ {0} /\ \A i \in 1 .. Len(e.mdps) : IsMDP(e.mdps[i])
  BY InDescription
<1>2. CASE Len(e.mdps) > n
  <2>1. w = [e EXCEPT !.died = TRUE]
    BY <1>2 DEF initDescriptors
  <2> HIDE DEF w
  <2>2. /\ w.nAgentsPerEnvironment = e.nAgentsPerEnvironment /\ w.separate = e.separate
        /\ w.tracked = e.tracked /\ w.mdps = e.mdps /\ w.died /\ w.died \in BOOLEAN
        /\ IsRecordOf(w, EnvironmentFields)
    BY <1>e, <2>1 DEF IsRecordOf
  <2>3. IsDescription(w)
    BY <2>2, WithParts DEF IsDescription
  <2> QED BY <2>2, <2>3 DEF w
<1>3. CASE ~(Len(e.mdps) > n)
  <2>1. w = [e EXCEPT !.mdps = s]
    BY <1>3 DEF initDescriptors
  <2>2. /\ Len(s) = n /\ DOMAIN s = 1 .. n /\ IsList(s)
        /\ \A i \in 1 .. n : s[i] = IF i <= Len(e.mdps) THEN e.mdps[i] ELSE e.mdps[1]
    <3> HIDE DEF n
    <3> QED BY <1>1, ResizedIs
  <2>3. \A i \in 1 .. n : IsMDP(s[i])
    <3> HIDE DEF n, s
    <3>1. 1 \in 1 .. Len(e.mdps)
      BY <1>1
    <3>2. \A i \in 1 .. n : i <= Len(e.mdps) => i \in 1 .. Len(e.mdps)
      BY <1>1
    <3> QED BY <1>1, <2>2, <3>1, <3>2
  <2> HIDE DEF w, s
  <2>4. /\ w.nAgentsPerEnvironment = e.nAgentsPerEnvironment /\ w.separate = e.separate
        /\ w.tracked = e.tracked /\ w.mdps = s /\ w.died = e.died
        /\ IsRecordOf(w, EnvironmentFields)
    BY <1>e, <2>1 DEF IsRecordOf
  <2>5. IsDescription(w)
    BY <1>e, <2>2, <2>3, <2>4 DEF IsDescription
  <2> QED BY <2>2, <2>4, <2>5 DEF w
<1> QED BY <1>2, <1>3

LEMMA SettledFacts ==
  ASSUME NEW k \in Nat \ {0}, NEW e, Filled(e, k), ~e.died, k <= nFields(e)
  PROVE  LET w == Settled(e, k) IN
         /\ IsDescription(w) /\ w.nAgentsPerEnvironment = e.nAgentsPerEnvironment
         /\ w.separate = e.separate /\ w.tracked = e.tracked
         /\ nDescriptors(w) = nDescriptors(e) /\ nFields(w) = nFields(e)
         /\ k > 3 \/ (k >= 3 /\ ~w.died) => Len(w.mdps) = nDescriptors(w)
<1> DEFINE w == Settled(e, k)
           m == mdpOf(k)
<1>e. /\ EnvironmentFields = {"nAgentsPerEnvironment", "separate", "distributed", "tracked", "mdps", "died"}
      /\ IsRecordOf(e, EnvironmentFields) /\ DOMAIN Environment = EnvironmentFields
  BY EnvironmentHas DEF EnvironmentFields, IsDescription, Filled
<1>0. IsDescription(e) /\ (k > 3 => Len(e.mdps) = nDescriptors(e))
  BY DEF Filled
<1>1. SUFFICES /\ IsDescription(w) /\ w.nAgentsPerEnvironment = e.nAgentsPerEnvironment
               /\ w.separate = e.separate /\ w.tracked = e.tracked
               /\ k > 3 \/ (k >= 3 /\ ~w.died) => Len(w.mdps) = nDescriptors(e)
  <2>1. w.nAgentsPerEnvironment = e.nAgentsPerEnvironment /\ w.separate = e.separate =>
          nDescriptors(w) = nDescriptors(e)
    BY DEF nDescriptors
  <2>2. nDescriptors(w) = nDescriptors(e) => nFields(w) = nFields(e)
    BY NumbersOfFields
  <2> HIDE DEF w
  <2> QED BY <2>1, <2>2 DEF w
<1>2. CASE k < 3
  <2>1. w = e
    BY <1>0, <1>2, SettledIs
  <2> QED BY <1>0, <1>2, <2>1
<1>3. CASE k = 3
  <2>1. w = initDescriptors(e)
    BY <1>0, <1>3, SettledIs
  <2> QED BY <1>0, <1>3, <2>1, InitDescriptorsFacts
<1>4. CASE k > 3 /\ Fails(e, k)
  <2>1. w = [e EXCEPT !.died = TRUE]
    BY <1>0, <1>4, SettledIs
  <2> HIDE DEF w
  <2>2. /\ w.nAgentsPerEnvironment = e.nAgentsPerEnvironment /\ w.separate = e.separate
        /\ w.tracked = e.tracked /\ w.mdps = e.mdps /\ w.died /\ w.died \in BOOLEAN
        /\ IsRecordOf(w, EnvironmentFields)
    BY <1>e, <2>1 DEF IsRecordOf
  <2>3. IsDescription(w)
    BY <1>0, <2>2, WithParts DEF IsDescription
  <2> QED BY <1>0, <1>4, <2>2, <2>3 DEF w
<1>5. CASE k > 3 /\ Bounded(e, k)
  <2>1. w = [e EXCEPT !.mdps[m] = OrderedMDP(e.mdps[m])]
    BY <1>0, <1>5, SettledIs
  <2>2. m \in 1 .. Len(e.mdps) /\ IsMDP(e.mdps[m])
    BY <1>0, <1>5, InPlace, InDescription
  <2>3. IsMDP(OrderedMDP(e.mdps[m]))
    BY <2>2, OrderedIs
  <2>4. Replaces([e EXCEPT !.mdps[m] = OrderedMDP(e.mdps[m])], e, m, OrderedMDP(e.mdps[m]))
    BY <1>0, <2>2, MDPReplaced
  <2>5. Replaces(w, e, m, OrderedMDP(e.mdps[m]))
    <3> HIDE DEF w, m
    <3> QED BY <2>1, <2>4
  <2> HIDE DEF w, m
  <2> QED BY <1>0, <1>5, <2>2, <2>3, <2>5, WithMDP
<1>6. CASE k > 3 /\ ~Fails(e, k) /\ ~Bounded(e, k)
  <2>1. w = e
    BY <1>0, <1>6, SettledIs
  <2> QED BY <1>0, <1>6, <2>1
<1> QED BY <1>2, <1>3, <1>4, <1>5, <1>6

\* A description stays one, with as many fields, when a field of it has been passed on.
LEMMA AdvancedFilled ==
  ASSUME NEW k \in Nat \ {0}, NEW e, Filled(e, k), ~e.died, k <= nFields(e)
  PROVE  LET w == Advanced(e, k) IN
         Filled(w, k + 1) /\ nFields(w) = nFields(e) /\ nDescriptors(w) = nDescriptors(e)
<1> DEFINE s == Settled(e, k)
           w == Advanced(e, k)
<1>1. /\ IsDescription(s) /\ nDescriptors(s) = nDescriptors(e) /\ nFields(s) = nFields(e)
      /\ k > 3 \/ (k >= 3 /\ ~s.died) => Len(s.mdps) = nDescriptors(s)
  BY SettledFacts
<1>2. CASE s.died \/ k = nFields(s)
  <2>1. w = s
    BY <1>2 DEF Advanced
  <2> HIDE DEF s, w
  <2> QED BY <1>1, <2>1 DEF Filled, w
<1>3. CASE ~(s.died \/ k = nFields(s))
  <2>1. w = Prepared(s, k + 1)
    BY <1>3 DEF Advanced
  <2> HIDE DEF s, w
  <2>2. k + 1 <= nFields(s)
    <3>1. nFields(s) \in Nat
      BY <1>1, InDescription
    <3> QED BY <1>1, <1>3, <3>1
  <2>3. /\ IsDescription(w) /\ Len(w.mdps) = Len(s.mdps) /\ nDescriptors(w) = nDescriptors(s)
        /\ nFields(w) = nFields(s) /\ w.died = s.died
    BY <1>1, <1>3, <2>1, <2>2, PreparedFacts
  <2> QED BY <1>1, <1>3, <2>3 DEF Filled, w
<1> QED BY <1>2, <1>3

\* Two descriptions that agree up to a field settle in the same way.
LEMMA SettledSame ==
  ASSUME NEW k \in Nat \ {0}, NEW e, Filled(e, k), ~e.died, NEW d, Filled(d, k), ~d.died,
         k <= nFields(d), k <= nFields(e), Same(e, d, k), ~Settled(e, k).died
  PROVE  Same(Settled(e, k), Settled(d, k), k)
<1> DEFINE w == Settled(e, k)
           z == Settled(d, k)
           m == mdpOf(k)
           p == PlaceOf(k)
           a == e.mdps[m]
           b == d.mdps[m]
<1>0. IsDescription(e) /\ IsDescription(d) /\ Reaches(e, k) /\ Reaches(d, k)
  BY DEF Filled, Reaches
<1>1. /\ w.nAgentsPerEnvironment = e.nAgentsPerEnvironment /\ w.separate = e.separate
      /\ w.tracked = e.tracked
      /\ z.nAgentsPerEnvironment = d.nAgentsPerEnvironment /\ z.separate = d.separate
      /\ z.tracked = d.tracked
  BY SettledFacts
<1>2. CASE k <= 3
  <2> HIDE DEF w, z
  <2>1. Same(w, z, k)
    BY <1>1, <1>2 DEF Same
  <2> QED BY <2>1 DEF w, z
<1>3. CASE k > 3
  <2>1. m \in Nat \ {0} /\ p \in 1 .. 6 /\ k = 6 * (m - 1) + 3 + p
    BY <1>3, Places
  <2>2. m \in 1 .. Len(e.mdps) /\ m \in 1 .. Len(d.mdps)
    BY <1>0, <1>3, InPlace DEF Reaches
  <2>3. IsMDP(a) /\ IsMDP(b)
    BY <1>0, <2>2, InDescription
  <2>4. SameMDP(a, b, p)
    <3>1. 6 * (m - 1) + 3 < k /\ k - 3 - 6 * (m - 1) = p
      BY <2>1
    <3>2. SameMDP(e.mdps[m], d.mdps[m], k - 3 - 6 * (m - 1))
      BY <2>1, <3>1 DEF Same
    <3> QED BY <3>1, <3>2
  <2>5. Field(e, k) = FieldAt(a, p) /\ Field(d, k) = FieldAt(b, p)
    BY <1>3, FieldIs
  <2>6. ~Fails(e, k)
    <3>1. CASE Fails(e, k)
      <4>1. w = [e EXCEPT !.died = TRUE]
        BY <1>0, <1>3, <3>1, SettledIs
      <4>2. w.died
        <5> HIDE DEF w
        <5>1. IsRecordOf(e, EnvironmentFields) /\ "died" \in EnvironmentFields
          BY <1>0, EnvironmentHas DEF IsDescription, EnvironmentFields
        <5> QED BY <4>1, <5>1 DEF IsRecordOf
      <4> QED BY <4>2
    <3> QED BY <3>1
  <2>7. CASE Bounded(e, k) \/ Bounded(d, k)
    <3>1. p = 6 /\ ~bDiscreteActions(a) /\ ~bDiscreteActions(b) /\ a.bounds = b.bounds
      <4>1. FieldAt(a, p) = "bounds" \/ FieldAt(b, p) = "bounds"
        BY <2>5, <2>7 DEF Bounded
      <4>2. p = 6
        <5> HIDE DEF a, b, p
        <5>1. p \in {1, 2, 3, 4, 5, 6}
          BY <2>1
        <5> QED BY <4>1, <5>1, FieldsAt
      <4>3. Len(a.options) = Len(b.options)
        BY <2>4, <4>2 DEF SameMDP
      <4>4. bDiscreteActions(a) <=> bDiscreteActions(b)
        BY <2>3, <4>3, NoOptions DEF IsMDP
      <4>5. ~bDiscreteActions(a)
        <5> HIDE DEF a, b, p
        <5> QED BY <4>1, <4>2, <4>4, FieldsAt
      <4> QED BY <2>4, <4>2, <4>4, <4>5 DEF SameMDP
    <3>2. Field(e, k) = "bounds" /\ Field(d, k) = "bounds"
      BY <2>5, <3>1, FieldsAt
    <3>3. a.dimAction = b.dimAction
      BY <2>4, <3>1 DEF SameMDP
    <3>4. Wrong(a, "bounds") <=> Wrong(b, "bounds")
      BY <3>1, <3>3 DEF Wrong
    <3>5. ~Wrong(a, "bounds")
      BY <1>3, <2>6, <3>2 DEF Fails
    <3>6. Bounded(e, k) /\ Bounded(d, k)
      BY <1>3, <3>2, <3>4, <3>5 DEF Bounded
    <3> DEFINE A == OrderedMDP(a)
               B == OrderedMDP(b)
    <3>7. /\ w = [e EXCEPT !.mdps[m] = A]
          /\ z = [d EXCEPT !.mdps[m] = B]
      BY <1>0, <1>3, <3>6, SettledIs
    <3>8. Replaces(w, e, m, A) /\ Replaces(z, d, m, B)
      <4>1. Replaces([e EXCEPT !.mdps[m] = A], e, m, A)
        BY <1>0, <2>2, MDPReplaced
      <4>2. Replaces([d EXCEPT !.mdps[m] = B], d, m, B)
        BY <1>0, <2>2, MDPReplaced
      <4> HIDE DEF w, z, A, B, m
      <4> QED BY <3>7, <4>1, <4>2
    <3>9. /\ IsMDP(A) /\ A.bounds = [i \in DOMAIN a.bounds |-> Ordered(a.bounds[i])]
          /\ IsMDP(B) /\ B.bounds = [i \in DOMAIN b.bounds |-> Ordered(b.bounds[i])]
          /\ \A f \in DOMAIN MDPdescriptor : f # "bounds" => A[f] = a[f] /\ B[f] = b[f]
      BY <2>3, OrderedIs
    <3>10. A.bounds = B.bounds
      <4> HIDE DEF A, B, a, b
      <4> QED BY <3>1, <3>9
    <3>11. SameMDP(A, B, p)
      <4> HIDE DEF A, B, a, b
      <4>1. DOMAIN MDPdescriptor
              = {"dimState", "dimAction", "options", "flags", "observed", "scales", "bounds"}
        BY DEF MDPdescriptor
      <4>2. /\ A.options = a.options /\ B.options = b.options
            /\ A.dimState = a.dimState /\ B.dimState = b.dimState
            /\ A.dimAction = a.dimAction /\ B.dimAction = b.dimAction
            /\ A.flags = a.flags /\ B.flags = b.flags
            /\ A.observed = a.observed /\ B.observed = b.observed
            /\ A.scales = a.scales /\ B.scales = b.scales
        BY <3>9, <4>1
      <4>3. ~bDiscreteActions(A)
        BY <3>1, <4>2 DEF bDiscreteActions
      <4> QED BY <2>4, <3>1, <3>10, <4>2, <4>3 DEF SameMDP
    <3> HIDE DEF A, B, w, z, m, p
    <3>12. Same(w, z, k)
      <4>1. ASSUME NEW i \in Nat \ {0}, 6 * (i - 1) + 3 < k
            PROVE  SameMDP(w.mdps[i], z.mdps[i], k - 3 - 6 * (i - 1))
        <5>1. i \in 1 .. Len(e.mdps) /\ i \in 1 .. Len(d.mdps)
          BY <1>0, <4>1, DescriptorAt
        <5>2. CASE i = m
          <6>1. w.mdps[i] = A /\ z.mdps[i] = B /\ k - 3 - 6 * (i - 1) = p
            BY <2>1, <3>8, <5>2 DEF Replaces
          <6> QED BY <3>11, <6>1
        <5>3. CASE i # m
          <6>1. w.mdps[i] = e.mdps[i] /\ z.mdps[i] = d.mdps[i]
            BY <3>8, <5>1, <5>3 DEF Replaces
          <6>2. SameMDP(e.mdps[i], d.mdps[i], k - 3 - 6 * (i - 1))
            BY <4>1 DEF Same
          <6> QED BY <6>1, <6>2
        <5> QED BY <5>2, <5>3
      <4>2. /\ w.nAgentsPerEnvironment = z.nAgentsPerEnvironment /\ w.separate = z.separate
            /\ w.tracked = z.tracked
        BY <1>1, <1>3 DEF Same
      <4> QED BY <4>1, <4>2 DEF Same
    <3> QED BY <3>12 DEF w, z
  <2>8. CASE ~Bounded(e, k) /\ ~Bounded(d, k)
    <3>1. w = e
      BY <1>0, <1>3, <2>6, <2>8, SettledIs
    <3>2. z = d \/ z = [d EXCEPT !.died = TRUE]
      BY <1>0, <1>3, <2>8, SettledIs
    <3>3. z.mdps = d.mdps
      <4>1. IsRecordOf(d, EnvironmentFields) /\ "mdps" \in EnvironmentFields
        BY <1>0, EnvironmentHas DEF IsDescription, EnvironmentFields
      <4> HIDE DEF z
      <4> QED BY <3>2, <4>1 DEF IsRecordOf
    <3> HIDE DEF w, z
    <3>4. Same(w, z, k)
      BY <1>1, <3>1, <3>3 DEF Same
    <3> QED BY <3>4 DEF w, z
  <2> QED BY <2>7, <2>8
<1> QED BY <1>2, <1>3

LEMMA AdvancedLike ==
  ASSUME NEW k \in Nat \ {0}, NEW e, Filled(e, k), ~e.died, k <= nFields(e)
  PROVE  /\ Same(Advanced(e, k), Settled(e, k), k)
         /\ Advanced(e, k).died <=> Settled(e, k).died
         /\ ~Advanced(e, k).died => Reaches(Advanced(e, k), k)
<1> DEFINE s == Settled(e, k)
           w == Advanced(e, k)
<1>1. /\ IsDescription(s) /\ nDescriptors(s) = nDescriptors(e) /\ nFields(s) = nFields(e)
      /\ k >= 3 /\ ~s.died => Len(s.mdps) = nDescriptors(s)
  BY SettledFacts
<1>2. CASE s.died \/ k = nFields(s)
  <2>1. w = s
    BY <1>2 DEF Advanced
  <2> HIDE DEF s, w
  <2>2. ~s.died => Reaches(s, k)
    BY <1>1 DEF Reaches
  <2> QED BY <1>1, <2>1, <2>2, SameRefl DEF s, w
<1>3. CASE ~(s.died \/ k = nFields(s))
  <2>1. w = Prepared(s, k + 1)
    BY <1>3 DEF Advanced
  <2> HIDE DEF s, w
  <2>2. k + 1 <= nFields(s)
    <3>1. nFields(s) \in Nat
      BY <1>1, InDescription
    <3> QED BY <1>1, <1>3, <3>1
  <2>3. /\ IsDescription(w) /\ Len(w.mdps) = Len(s.mdps) /\ nDescriptors(w) = nDescriptors(s)
        /\ nFields(w) = nFields(s) /\ w.died = s.died /\ Same(w, s, k)
    BY <1>1, <1>3, <2>1, <2>2, PreparedFacts
  <2>4. Reaches(w, k)
    BY <1>1, <1>3, <2>3 DEF Reaches
  <2> QED BY <2>3, <2>4 DEF s, w
<1> QED BY <1>2, <1>3

\* They also agree when the next field is about to be passed on.
LEMMA AdvancedSame ==
  ASSUME NEW k \in Nat \ {0}, NEW e, Filled(e, k), ~e.died, NEW d, Filled(d, k), ~d.died,
         k <= nFields(d), k <= nFields(e), Same(e, d, k), ~Advanced(e, k).died
  PROVE  Same(Advanced(e, k), Advanced(d, k), k)
<1> DEFINE w == Advanced(e, k)
           z == Advanced(d, k)
           s == Settled(e, k)
           t == Settled(d, k)
<1>1. Same(w, s, k) /\ (w.died <=> s.died) /\ Reaches(w, k)
  BY AdvancedLike
<1>2. Same(s, t, k)
  BY <1>1, SettledSame
<1>3. Same(z, t, k) /\ (~z.died => Reaches(z, k)) /\ (z.died <=> t.died)
  BY AdvancedLike
<1>4. IsDescription(s) /\ IsDescription(t)
      /\ nFields(s) = nFields(e) /\ nFields(t) = nFields(d)
      /\ (k >= 3 /\ ~s.died => Len(s.mdps) = nDescriptors(s))
      /\ (k >= 3 /\ ~t.died => Len(t.mdps) = nDescriptors(t))
  BY SettledFacts
<1>5. Reaches(s, k) /\ (~t.died => Reaches(t, k))
  BY <1>1, <1>4 DEF Reaches
<1> HIDE DEF w, z, s, t
<1>6. Same(w, t, k)
  BY <1>1, <1>2, <1>5, SameTransitive
<1>7. CASE ~t.died
  <2>1. Same(t, z, k)
    BY <1>3, <1>5, <1>7, SameSymmetric
  <2> QED BY <1>1, <1>5, <1>6, <1>7, <2>1, SameTransitive DEF w, z
<1>8. CASE t.died
  <2>1. z = t
    BY <1>8 DEF z, t, Advanced
  <2> QED BY <1>6, <2>1 DEF w, z
<1> QED BY <1>7, <1>8

\* What has died stays so.
LEMMA DiedStays ==
  ASSUME NEW e, IsDescription(e), NEW k \in Nat \ {0}, ~Advanced(e, k).died
  PROVE  ~e.died /\ ~Settled(e, k).died
<1> DEFINE s == Settled(e, k)
           m == mdpOf(k)
<1>e. IsRecordOf(e, EnvironmentFields) /\ "died" \in EnvironmentFields /\ "mdps" \in EnvironmentFields
  BY EnvironmentHas DEF IsDescription, EnvironmentFields
<1>1. ~s.died
  BY DEF Advanced
<1> HIDE DEF s
<1>2. s = e \/ s = initDescriptors(e) \/ s = [e EXCEPT !.died = TRUE]
      \/ s = [e EXCEPT !.mdps[m] = OrderedMDP(e.mdps[m])]
  BY SettledIs DEF s
<1> HIDE DEF m
<1>3. s.died = e.died \/ s.died = TRUE
  <2>1. CASE s = initDescriptors(e)
    BY <1>e, <2>1 DEF initDescriptors, IsRecordOf
  <2>2. CASE s = [e EXCEPT !.died = TRUE]
    BY <1>e, <2>2 DEF IsRecordOf
  <2>3. CASE s = [e EXCEPT !.mdps[m] = OrderedMDP(e.mdps[m])]
    BY <1>e, <2>3 DEF IsRecordOf
  <2> QED BY <1>2, <2>1, <2>2, <2>3
<1> QED BY <1>1, <1>3 DEF s

\* The last field is found right or wrong by all that agree on it.
LEMMA LastAgrees ==
  ASSUME NEW k \in Nat \ {0}, NEW e, Filled(e, k), ~e.died, NEW d, Filled(d, k), ~d.died,
         k = nFields(d), k <= nFields(e), Same(e, d, k), ~Advanced(e, k).died
  PROVE  ~Advanced(d, k).died
<1> DEFINE m == mdpOf(k)
           p == PlaceOf(k)
           a == e.mdps[m]
           b == d.mdps[m]
           s == Settled(d, k)
<1>0. /\ IsDescription(e) /\ IsDescription(d) /\ nDescriptors(d) \in Nat \ {0}
      /\ nFields(d) = 3 + 6 * nDescriptors(d) /\ nFields(e) \in Nat
  BY InDescription DEF Filled
<1>1. k > 3 /\ m \in Nat \ {0} /\ p = 6 /\ k = 6 * (m - 1) + 3 + p
  <2>1. k > 3 /\ k = 3 + 6 * nDescriptors(d)
    BY <1>0
  <2>2. m \in Nat \ {0} /\ p \in 1 .. 6 /\ k = 6 * (m - 1) + 3 + p
    BY <2>1, Places
  <2> HIDE DEF m, p
  <2> DEFINE L == nDescriptors(d)
  <2>3. L \in Nat /\ k = 3 + 6 * L
    BY <1>0
  <2> HIDE DEF L
  <2>4. p = 6
    BY <2>2, <2>3
  <2> QED BY <2>1, <2>2, <2>4
<1>2. m \in 1 .. Len(e.mdps) /\ m \in 1 .. Len(d.mdps)
  BY <1>0, <1>1, InPlace DEF Filled
<1>3. IsMDP(a) /\ IsMDP(b)
  BY <1>0, <1>2, InDescription
<1>4. SameMDP(a, b, 6)
  <2>1. 6 * (m - 1) + 3 < k /\ k - 3 - 6 * (m - 1) = 6
    BY <1>1
  <2>2. SameMDP(e.mdps[m], d.mdps[m], k - 3 - 6 * (m - 1))
    BY <1>1, <2>1 DEF Same
  <2> QED BY <2>1, <2>2
<1>5. Field(e, k) = FieldAt(a, 6) /\ Field(d, k) = FieldAt(b, 6)
  BY <1>1, FieldIs
<1>6. ~Fails(e, k)
  <2>1. ~Settled(e, k).died
    BY <1>0, DiedStays
  <2>2. CASE Fails(e, k)
    <3>1. Settled(e, k) = [e EXCEPT !.died = TRUE]
      BY <1>0, <1>1, <2>2, SettledIs
    <3>2. [e EXCEPT !.died = TRUE].died
      <4>1. IsRecordOf(e, EnvironmentFields) /\ "died" \in EnvironmentFields
        BY <1>0, EnvironmentHas DEF IsDescription, EnvironmentFields
      <4> QED BY <4>1 DEF IsRecordOf
    <3> QED BY <2>1, <3>1, <3>2
  <2> QED BY <2>2
<1>7. ~Fails(d, k)
  <2> HIDE DEF a, b, m, p
  <2>1. ~Wrong(a, FieldAt(a, 6))
    BY <1>1, <1>5, <1>6 DEF Fails, a, m
  <2>2. a.dimAction = b.dimAction /\ Len(a.options) = Len(b.options)
        /\ IF bDiscreteActions(a) THEN a.options = b.options ELSE a.bounds = b.bounds
    BY <1>4 DEF SameMDP
  <2>3. bDiscreteActions(a) <=> bDiscreteActions(b)
    BY <1>3, <2>2, NoOptions DEF IsMDP
  <2>4. CASE bDiscreteActions(a)
    <3>1. FieldAt(a, 6) = "options" /\ FieldAt(b, 6) = "options"
      BY <2>3, <2>4, FieldsAt
    <3>2. Wrong(b, "options") <=> Wrong(a, "options")
      BY <2>2, <2>4 DEF Wrong
    <3>3. ~Wrong(b, FieldAt(b, 6))
      BY <2>1, <3>1, <3>2
    <3> QED BY <1>5, <3>3 DEF Fails, b, m
  <2>5. CASE ~bDiscreteActions(a)
    <3>1. FieldAt(a, 6) = "bounds" /\ FieldAt(b, 6) = "bounds"
      BY <2>3, <2>5, FieldsAt
    <3>2. Wrong(b, "bounds") <=> Wrong(a, "bounds")
      BY <2>2, <2>5 DEF Wrong
    <3>3. ~Wrong(b, FieldAt(b, 6))
      BY <2>1, <3>1, <3>2
    <3> QED BY <1>5, <3>3 DEF Fails, b, m
  <2> QED BY <2>4, <2>5
<1>8. s = d \/ s = [d EXCEPT !.mdps[m] = OrderedMDP(d.mdps[m])]
  BY <1>0, <1>1, <1>7, SettledIs
<1> HIDE DEF s, m
<1>9. s.died = d.died
  <2>1. IsRecordOf(d, EnvironmentFields) /\ "died" \in EnvironmentFields
    BY <1>0, EnvironmentHas DEF IsDescription, EnvironmentFields
  <2> QED BY <1>8, <2>1 DEF IsRecordOf
<1>10. Advanced(d, k).died <=> s.died
  BY AdvancedLike DEF s
<1> QED BY <1>9, <1>10

LEMMA SameSpace ==
  ASSUME NEW a, NEW b, IsMDP(a), IsMDP(b), NEW n \in Int, n >= 6, SameMDP(a, b, n)
  PROVE  Space(a) = Space(b)
<1> DEFINE MF == DOMAIN MDPdescriptor
<1>1. MF = {"dimState", "dimAction", "options", "flags", "observed", "scales", "bounds"}
  BY DEF MDPdescriptor
<1>2. /\ a = [x \in MF |-> a[x]] /\ b = [x \in MF |-> b[x]]
      /\ a.options \in Seq(Int) /\ b.options \in Seq(Int)
  BY DEF IsMDP, IsRecordOf
<1> HIDE DEF MF
<1>3. /\ a.dimState = b.dimState /\ a.dimAction = b.dimAction
      /\ Len(a.options) = Len(b.options)
      /\ a.flags = b.flags /\ a.observed = b.observed /\ a.scales = b.scales
      /\ IF bDiscreteActions(a) THEN a.options = b.options ELSE a.bounds = b.bounds
  BY DEF SameMDP
<1>4. bDiscreteActions(a) <=> bDiscreteActions(b)
  BY <1>2, <1>3, NoOptions
<1>5. CASE bDiscreteActions(a)
  <2>1. /\ Space(a) = [x \in MF |-> IF x = "bounds" THEN <<>> ELSE a[x]]
        /\ Space(b) = [x \in MF |-> IF x = "bounds" THEN <<>> ELSE b[x]]
    BY <1>1, <1>2, <1>4, <1>5 DEF Space
  <2>2. \A x \in MF : x # "bounds" => a[x] = b[x]
    BY <1>1, <1>3, <1>5
  <2> QED BY <2>1, <2>2
<1>6. CASE ~bDiscreteActions(a)
  <2>1. a.options = b.options
    <3>1. a.options = <<>> /\ b.options = <<>>
      BY <1>4, <1>6 DEF bDiscreteActions
    <3> QED BY <3>1
  <2>2. \A x \in MF : a[x] = b[x]
    BY <1>1, <1>3, <1>6, <2>1
  <2>3. a = b
    BY <1>2, <2>2
  <2> QED BY <2>3
<1> QED BY <1>5, <1>6

LEMMA SameAgents ==
  ASSUME NEW e, NEW d, NEW c \in Nat, IsDescription(e), IsDescription(d),
         Len(e.mdps) = nDescriptors(e), Len(d.mdps) = nDescriptors(d),
         Same(e, d, nFields(d))
  PROVE  LET mine == agentsOf(e, c)
             theirs == agentsOf(d, 1)
         IN /\ Cardinality(DOMAIN mine) = c * Cardinality(DOMAIN theirs)
            /\ \A i \in DOMAIN mine :
                 /\ Space(mine[i].MDP) = Space(theirs[mine[i].localID].MDP)
                 /\ mine[i].trackEpisodes = theirs[mine[i].localID].trackEpisodes
<1> DEFINE n == e.nAgentsPerEnvironment
           L == nDescriptors(d)
           mine == agentsOf(e, c)
           theirs == agentsOf(d, 1)
<1>1. /\ L \in Nat \ {0} /\ nFields(d) = 3 + 6 * L /\ nFields(d) \in Nat /\ nFields(d) >= 9
      /\ n \in Nat \ {0}
  BY InDescription DEF IsDescription
<1>2. /\ d.nAgentsPerEnvironment = n /\ e.separate = d.separate /\ e.tracked = d.tracked
      /\ nDescriptors(e) = L
  <2>1. nFields(d) \in Int /\ nFields(d) >= 2
    BY <1>1
  <2>2. nDescriptors(e) = nDescriptors(d)
    BY <2>1, SameDescriptors
  <2> HIDE DEF L
  <2> QED BY <1>1, <2>2 DEF Same, L
<1>3. L = 1 \/ L = n
  BY <1>2 DEF nDescriptors
<1>4. \A x \in 1 .. L : Space(e.mdps[x]) = Space(d.mdps[x])
  <2> HIDE DEF L
  <2> SUFFICES ASSUME NEW x \in 1 .. L PROVE Space(e.mdps[x]) = Space(d.mdps[x])
    OBVIOUS
  <2> DEFINE q == nFields(d) - 3 - 6 * (x - 1)
  <2>1. x \in Nat \ {0} /\ 6 * (x - 1) + 3 < nFields(d) /\ q >= 6 /\ q \in Int
    BY <1>1
  <2>2. SameMDP(e.mdps[x], d.mdps[x], q)
    BY <2>1 DEF Same
  <2>3. IsMDP(e.mdps[x]) /\ IsMDP(d.mdps[x])
    BY <1>2, InDescription DEF L
  <2> HIDE DEF q
  <2> QED BY <2>1, <2>2, <2>3, SameSpace
<1> HIDE DEF n, L
<1>5. n * c \in Nat /\ c * n = n * c /\ n * 1 = n
  BY <1>1
<1>6. /\ DOMAIN mine = 0 .. n * c - 1
      /\ \A i \in 0 .. n * c - 1 :
           /\ mine[i].localID = i % n /\ mine[i].MDP = e.mdps[(i % L) + 1]
           /\ mine[i].trackEpisodes = e.tracked[(i % n) + 1]
  BY <1>2 DEF agentsOf, n
<1>7. /\ DOMAIN theirs = 0 .. n - 1
      /\ \A i \in 0 .. n - 1 :
           /\ theirs[i].MDP = d.mdps[(i % L) + 1]
           /\ theirs[i].trackEpisodes = d.tracked[(i % n) + 1]
  BY <1>2, <1>5 DEF agentsOf, L
<1> HIDE DEF mine, theirs
<1>8. Cardinality(0 .. n * c - 1) = n * c /\ Cardinality(0 .. n - 1) = n
  <2>1. \A m \in Nat : Cardinality(0 .. m - 1) = m
    <3> SUFFICES ASSUME NEW m \in Nat PROVE Cardinality(0 .. m - 1) = m
      OBVIOUS
    <3>1. /\ 0 \in Int /\ m - 1 \in Int
          /\ (0 > m - 1 => m = 0) /\ (m - 1) - 0 + 1 = m
      OBVIOUS
    <3>2. Cardinality(0 .. m - 1) = IF 0 > m - 1 THEN 0 ELSE (m - 1) - 0 + 1
      BY <3>1, FS_Interval
    <3> QED BY <3>1, <3>2
  <2> QED BY <1>1, <1>5, <2>1
<1>9. ASSUME NEW i \in 0 .. n * c - 1
      PROVE  /\ i % n \in 0 .. n - 1 /\ (i % n) % n = i % n
             /\ (i % L) + 1 \in 1 .. L /\ (i % n) % L = i % L
  <2>1. i \in Nat
    BY <1>5
  <2>2. \A q \in Nat \ {0} : i % q \in 0 .. q - 1
    BY <2>1
  <2>3. \A q \in Nat \ {0} : \A j \in 0 .. q - 1 : j % q = j
    OBVIOUS
  <2>4. i % n \in 0 .. n - 1 /\ (i % n) % n = i % n /\ i % L \in 0 .. L - 1
    BY <1>1, <2>2, <2>3
  <2>5. (i % n) % L = i % L
    <3>1. CASE L = n
      BY <2>4, <3>1
    <3>2. CASE L = 1
      <4>1. \A j \in Nat : j % 1 = 0
        OBVIOUS
      <4>2. i % n \in Nat
        BY <2>4
      <4> QED BY <2>1, <3>2, <4>1, <4>2
    <3> QED BY <1>3, <3>1, <3>2
  <2> QED BY <1>1, <2>4, <2>5
<1>10. ASSUME NEW i \in DOMAIN mine
       PROVE  /\ Space(mine[i].MDP) = Space(theirs[mine[i].localID].MDP)
              /\ mine[i].trackEpisodes = theirs[mine[i].localID].trackEpisodes
  <2>1. i \in 0 .. n * c - 1
    BY <1>6
  <2>2. mine[i].localID = i % n /\ i % n \in 0 .. n - 1
    BY <1>6, <1>9, <2>1
  <2>3. /\ theirs[i % n].MDP = d.mdps[(i % L) + 1]
        /\ theirs[i % n].trackEpisodes = d.tracked[(i % n) + 1]
    BY <1>7, <1>9, <2>1
  <2> QED BY <1>2, <1>4, <1>6, <1>9, <2>1, <2>2, <2>3
<1> QED BY <1>5, <1>6, <1>7, <1>8, <1>10 DEF mine, theirs

------------------------------------------------------------------------------
(* The course of the description, in ranks that take no part in a step      *)

LEMMA FiniteWorld ==
  ASSUME shape \in Shapes, NEW C, C \subseteq World
  PROVE  IsFiniteSet(C) /\ Cardinality(C) \in Nat /\ World \subseteq Nat
<1>1. shape.nMasters + shape.nWorkers - 1 \in Int /\ 0 \in Int
  BY ShapeTypes
<1>2. IsFiniteSet(World) /\ World \subseteq Nat
  BY <1>1, FS_Interval DEF World
<1>3. IsFiniteSet(C)
  BY <1>2, FS_Subset
<1> QED BY <1>2, <1>3, FS_CardinalityType

\* Members of a communicator are numbered in the order of the world.
LEMMA RanksInOrder ==
  ASSUME shape \in Shapes, NEW C, C \subseteq World, NEW r \in C
  PROVE  /\ RankIn(C, r) \in Nat /\ RankIn(C, r) < Cardinality(C)
         /\ \A s \in C : RankIn(C, s) = RankIn(C, r) => s = r
<1> DEFINE Below(q) == {s \in C : s < q}
<1>1. \A q \in C : Below(q) \subseteq C /\ q \notin Below(q) /\ Below(q) \subseteq World
  BY FiniteWorld
<1>2. \A q \in C : /\ IsFiniteSet(Below(q)) /\ Cardinality(Below(q)) \in Nat
                   /\ RankIn(C, q) = Cardinality(Below(q))
  BY <1>1, FiniteWorld DEF RankIn
<1>3. ASSUME NEW q \in C, NEW T, T \subseteq C, Below(q) \cup {q} \subseteq T
      PROVE  RankIn(C, q) < Cardinality(T)
  <2> DEFINE B == Below(q)
  <2>1. IsFiniteSet(B) /\ q \notin B /\ RankIn(C, q) = Cardinality(B) /\ Cardinality(B) \in Nat
    BY <1>1, <1>2
  <2> HIDE DEF B
  <2>2. Cardinality(B \cup {q}) = Cardinality(B) + 1
    BY <2>1, FS_AddElement
  <2>3. IsFiniteSet(T) /\ Cardinality(T) \in Nat
    BY <1>3, FiniteWorld
  <2>4. B \cup {q} \in SUBSET T
    BY <1>3 DEF B
  <2>5. Cardinality(B \cup {q}) <= Cardinality(T)
    BY <2>3, <2>4, FS_Subset
  <2> QED BY <2>1, <2>2, <2>3, <2>5
<1>4. ASSUME NEW q \in C, NEW s \in C, q < s
      PROVE  RankIn(C, q) < RankIn(C, s)
  <2>1. q \in Nat /\ s \in Nat /\ C \subseteq Nat
    BY FiniteWorld
  <2>2. Below(q) \cup {q} \subseteq Below(s) /\ Below(s) \subseteq C
    <3>1. \A x \in C : x < q => x < s
      BY <1>4, <2>1
    <3> QED BY <1>4, <3>1
  <2> HIDE DEF Below
  <2>3. RankIn(C, q) < Cardinality(Below(s))
    BY <1>3, <2>2
  <2> QED BY <1>2, <2>3
<1>5. RankIn(C, r) < Cardinality(C)
  <2>1. Below(r) \cup {r} \subseteq C
    BY <1>1
  <2> HIDE DEF Below
  <2> QED BY <1>3, <2>1
<1>6. ASSUME NEW s \in C, RankIn(C, s) = RankIn(C, r) PROVE s = r
  <2>1. s \in Nat /\ r \in Nat /\ RankIn(C, s) \in Nat
    BY <1>2, FiniteWorld
  <2>2. ~(s < r) /\ ~(r < s)
    BY <1>2, <1>4, <1>6, <2>1
  <2> QED BY <2>1, <2>2
<1> QED BY <1>2, <1>5, <1>6

LEMMA RankOfIs ==
  ASSUME shape \in Shapes, NEW C, C \subseteq World, NEW i \in Nat, i < Cardinality(C)
  PROVE  RankOf(C, i) \in C /\ RankIn(C, RankOf(C, i)) = i
<1> DEFINE n == Cardinality(C)
           T == 0 .. n - 1
           f == [r \in C |-> RankIn(C, r)]
<1>1. n \in Nat /\ i < n /\ IsFiniteSet(C)
  BY FiniteWorld
<1>2. \A r \in C : RankIn(C, r) \in Nat /\ RankIn(C, r) < n
  BY RanksInOrder
<1>3. \A r, s \in C : RankIn(C, r) = RankIn(C, s) => r = s
  BY RanksInOrder
<1>4. IsFiniteSet(T) /\ Cardinality(T) = n
  <2> HIDE DEF n
  <2>1. n - 1 \in Int /\ 0 \in Int
    BY <1>1
  <2> QED BY <1>1, <2>1, FS_Interval
<1>5. i \in T
  BY <1>1
<1>6. f \in [C -> T]
  BY <1>1, <1>2
<1>7. \A r, s \in C : f[r] = f[s] => r = s
  BY <1>3
<1>8. Cardinality(C) = n
  OBVIOUS
<1> HIDE DEF T, n
<1>9. f \in Injection(C, T)
  BY <1>6, <1>7 DEF Injection, IsInjective
<1> HIDE DEF f
<1>10. f \in Surjection(C, T)
  BY <1>4, <1>8, <1>9, FS_Injection
<1>11. \E r \in C : f[r] = i
  BY <1>5, <1>10 DEF Surjection
<1>12. \E r \in C : RankIn(C, r) = i
  BY <1>11 DEF f
<1> QED BY <1>12 DEF RankOf

\* The course goes on as far as the description can be sent.
Extends(D2, m2, D, m) == m <= m2 /\ \A k \in 1 .. m : D2[k] = D[k]

LEMMA CourseExtends ==
  ASSUME NEW D, NEW m, Course(D, m), NEW k \in 1 .. m, ~D[k].died, k <= nFields(asked)
  PROVE  \E D2, m2 : Course(D2, m2) /\ Extends(D2, m2, D, m) /\ k + 1 <= m2
<1>1. m \in Nat \ {0} /\ k \in Nat \ {0}
  BY DEF Course
<1>2. CASE k < m
  <2>1. Extends(D, m, D, m) /\ k + 1 <= m
    BY <1>1, <1>2 DEF Extends
  <2> QED BY <2>1
<1>3. CASE k = m
  <2> DEFINE D2 == [j \in 1 .. m + 1 |-> IF j <= m THEN D[j] ELSE Advanced(D[m], m)]
  <2>1. /\ \A j \in 1 .. m : D2[j] = D[j]
        /\ D2[m + 1] = Advanced(D[m], m)
    BY <1>1
  <2> HIDE DEF D2
  <2>2. Filled(D[m], m) /\ nFields(D[m]) = nFields(asked)
    BY <1>3 DEF Course
  <2>3. Filled(D2[m + 1], m + 1) /\ nFields(D2[m + 1]) = nFields(asked)
    BY <1>1, <1>3, <2>1, <2>2, AdvancedFilled
  <2>4. nFields(asked) \in Nat
    BY <2>2, InDescription DEF Filled
  <2>5. m + 1 \in Nat \ {0} /\ m + 1 <= nFields(asked) + 1
    BY <1>1, <1>3, <2>4
  <2>6. \A j \in 1 .. m + 1 : Filled(D2[j], j) /\ nFields(D2[j]) = nFields(asked)
    <3> SUFFICES ASSUME NEW j \in 1 .. m + 1
                 PROVE  Filled(D2[j], j) /\ nFields(D2[j]) = nFields(asked)
      OBVIOUS
    <3>1. j \in 1 .. m \/ j = m + 1
      BY <1>1
    <3>2. CASE j \in 1 .. m
      BY <2>1, <3>2 DEF Course
    <3> QED BY <2>3, <3>1, <3>2
  <2>7. \A j \in 1 .. (m + 1) - 1 : D2[j + 1] = Advanced(D2[j], j)
    <3> SUFFICES ASSUME NEW j \in 1 .. m PROVE D2[j + 1] = Advanced(D2[j], j)
      BY <1>1
    <3>1. CASE j = m
      BY <2>1, <3>1
    <3>2. CASE j # m
      <4>1. j \in 1 .. m - 1 /\ j + 1 \in 1 .. m
        BY <1>1, <3>2
      <4> QED BY <2>1, <4>1 DEF Course
    <3> QED BY <3>1, <3>2
  <2>8. D2[1] = asked
    <3>1. 1 \in 1 .. m
      BY <1>1
    <3> QED BY <2>1, <3>1 DEF Course
  <2>9. Course(D2, m + 1)
    BY <2>5, <2>6, <2>7, <2>8 DEF Course
  <2>10. Extends(D2, m + 1, D, m) /\ k + 1 <= m + 1
    BY <1>1, <1>3, <2>1 DEF Extends
  <2> QED BY <2>9, <2>10
<1> QED BY <1>1, <1>2, <1>3

\* What is known of a rank stays true when the course goes on.
LEMMA RankMore ==
  ASSUME NEW D, NEW m, Course(D, m), NEW D2, NEW m2, Course(D2, m2), Extends(D2, m2, D, m),
         NEW r \in World, Tables, RankInv(r, D, m)
  PROVE  RankInv(r, D2, m2)
<1>1. m \in Nat /\ m2 \in Nat /\ step[r] \in Nat \ {0} /\ m <= m2 /\ received[r] \in BOOLEAN
  BY DEF Course, Extends, Tables
<1>2. \A k \in 1 .. m : D2[k] = D[k]
  BY DEF Extends
<1>3. FollowsRun(r, D2, m2)
  <2> SUFFICES ASSUME pc[r] \in Talking /\ Runs(r)
               PROVE  /\ step[r] <= m2 /\ environment[r] = D2[step[r]]
                      /\ ~environment[r].died /\ ~received[r]
                      /\ IF pc[r] = "running" THEN step[r] = nFields(asked) + 1
                                              ELSE step[r] <= nFields(asked)
    BY DEF FollowsRun
  <2>1. step[r] <= m /\ environment[r] = D[step[r]]
    BY DEF RankInv, FollowsRun
  <2>2. step[r] \in 1 .. m /\ step[r] <= m2
    BY <1>1, <2>1
  <2> QED BY <1>2, <2>1, <2>2 DEF RankInv, FollowsRun
<1>4. Follows(r, D2, m2)
  <2> SUFFICES ASSUME pc[r] \in Talking /\ ~Runs(r) /\ ~Starved(r)
               PROVE  /\ Filled(environment[r], step[r]) /\ ~environment[r].died
                      /\ Known(r) + 1 <= m2 /\ Same(environment[r], D2[step[r]], Known(r))
                      /\ received[r] => ~D2[step[r]].died
                      /\ Forks(r) => client[r] = D2[Known(r) + 1]
                      /\ IF pc[r] = "running"
                         THEN ~received[r] /\ step[r] = nFields(asked) + 1 /\ ~D2[step[r]].died
                         ELSE step[r] <= nFields(asked)
    BY DEF Follows
  <2>1. Known(r) + 1 <= m
    BY DEF RankInv, Follows
  <2>2. Known(r) \in Nat /\ step[r] \in {Known(r), Known(r) + 1}
    BY <1>1 DEF Known
  <2>3. step[r] \in 1 .. m /\ Known(r) + 1 \in 1 .. m /\ Known(r) + 1 <= m2
    BY <1>1, <2>1, <2>2
  <2> QED BY <1>2, <2>3 DEF RankInv, Follows
<1> QED BY <1>3, <1>4 DEF RankInv

SameComms ==
  UNCHANGED <<shape, bIsMaster, learners_train_comm, master_workers_comm, workerless_masters_comm>>

\* A rank that takes no part in a step.
Still(r) ==
  /\ pc'[r] = pc[r] /\ step'[r] = step[r] /\ heard'[r] = heard[r] /\ received'[r] = received[r]
  /\ environment'[r] = environment[r] /\ client'[r] = client[r]

LEMMA SameRoles ==
  ASSUME SameComms
  PROVE  /\ World' = World /\ Masters' = Masters
         /\ \A r : /\ Forks(r)' <=> Forks(r)
                   /\ Runs(r)' <=> Runs(r)
                   /\ HasWorkers(r)' <=> HasWorkers(r)
                   /\ Starved(r)' <=> Starved(r)
                   /\ Workers(r)' = Workers(r)
<1>1. World' = World /\ Masters' = Masters
  BY DEF SameComms, World, Masters
<1>2. ASSUME NEW r
      PROVE  nForkedProcesses2spawn(r)' = nForkedProcesses2spawn(r)
  BY DEF SameComms, nForkedProcesses2spawn, nEnvironments, notRoundedSplitting, CeilDiv,
         forkableApplication
<1>3. ASSUME NEW r
      PROVE  /\ Forks(r)' <=> Forks(r)
             /\ Runs(r)' <=> Runs(r)
             /\ HasWorkers(r)' <=> HasWorkers(r)
             /\ Workers(r)' = Workers(r)
  BY <1>2 DEF SameComms, Forks, Runs, HasWorkers, Workers, nOwnedEnvironments
<1>4. ASSUME NEW r PROVE Starved(r)' <=> Starved(r)
  BY <1>3 DEF SameComms, Starved
<1> QED BY <1>1, <1>3, <1>4

LEMMA RankDead ==
  ASSUME NEW D, NEW m, NEW r, pc'[r] = "died"
  PROVE  RankInv(r, D, m)'
BY DEF RankInv, Waits, Kind, FollowsRun, Follows, Starves, Hears, Talking

LEMMA RankStill ==
  ASSUME NEW D, NEW m, NEW r \in World, RankInv(r, D, m), Still(r), SameComms, UNCHANGED asked
  PROVE  RankInv(r, D, m)'
<1>1. /\ Forks(r)' <=> Forks(r)
      /\ Runs(r)' <=> Runs(r)
      /\ HasWorkers(r)' <=> HasWorkers(r)
      /\ Starved(r)' <=> Starved(r)
  BY SameRoles
<1>2. Waits(r)' /\ Kind(r)'
  <2>1. Kind(r)'
    BY <1>1 DEF RankInv, Kind, Still, SameComms
  <2>2. Waits(r)'
    BY DEF RankInv, Waits, Still, Talking
  <2> QED BY <2>1, <2>2
<1>3. Known(r)' = Known(r) /\ nFields(asked)' = nFields(asked)
  BY DEF Known, Still
<1>4. FollowsRun(r, D, m)'
  BY <1>1, <1>3 DEF RankInv, FollowsRun, Still
<1>5. Follows(r, D, m)'
  BY <1>1, <1>3 DEF RankInv, Follows, Still
<1>6. Starves(r)' /\ Hears(r)'
  BY <1>1 DEF RankInv, Starves, Hears, Still, SameComms
<1> QED BY <1>2, <1>4, <1>5, <1>6 DEF RankInv

LEMMA CourseKept ==
  ASSUME NEW D, NEW m, Course(D, m), UNCHANGED asked
  PROVE  Course(D, m)'
BY DEF Course

LEMMA ArrangementKept ==
  ASSUME Arrangement, SameComms, Tables',
         \A r \in World : pc'[r] # pc[r] =>
           pc[r] \notin Early \cup {"died"} /\ pc'[r] \notin Early \cup {"dup"}
  PROVE  Arrangement'
<1>1. World' = World /\ Masters' = Masters
  BY SameRoles
<1>2. GroupsFit'
  <2>1. \A r \in World : master_workers_comm'[r] # {} =>
         /\ r \in master_workers_comm'[r] /\ master_workers_comm'[r] \subseteq World
         /\ \A s \in master_workers_comm'[r] : master_workers_comm'[s] = master_workers_comm'[r]
         /\ bIsMaster'[r] <=> RankIn(master_workers_comm'[r], r) = 0
    BY DEF Arrangement, GroupsFit, SameComms
  <2>2. \A r \in World : pc'[r] \in Early \/ shape'.nWorkers = 0 =>
         \A s \in World : master_workers_comm'[s] = {}
    BY DEF Arrangement, GroupsFit, SameComms
  <2>3. \A r \in World : shape'.nWorkers > 0 /\ pc'[r] \notin Early \cup {"died"} =>
         master_workers_comm'[r] # {}
    BY DEF Arrangement, GroupsFit, SameComms
  <2> QED BY <1>1, <2>1, <2>2, <2>3 DEF GroupsFit
<1>3. MastersFit'
  <2>1. \A r \in World : pc'[r] \in Early \cup {"dup"} => pc[r] = pc'[r]
    OBVIOUS
  <2>2. \A r \in Masters : pc'[r] \in {"workers", "dup"} => learners_train_comm'[r] = Masters
    BY <2>1 DEF Arrangement, MastersFit, SameComms, Early, Masters
  <2>3. \A r \in World : pc'[r] \in Early \cup {"dup"} =>
          \A s \in World : workerless_masters_comm'[s] = {}
    BY <2>1 DEF Arrangement, MastersFit, SameComms
  <2>4. \A r \in World : pc'[r] = "dup" => Cardinality(Masters) >= 2
    BY <2>1 DEF Arrangement, MastersFit
  <2>5. /\ \A r \in Masters : workerless_masters_comm'[r] # {} => workerless_masters_comm'[r] = Masters
        /\ \A r, s \in Masters : workerless_masters_comm'[r] = workerless_masters_comm'[s]
        /\ \A r \in Masters : workerless_masters_comm'[r] # {} => Cardinality(Masters) >= 2
    BY DEF Arrangement, MastersFit, SameComms
  <2> QED BY <1>1, <2>2, <2>3, <2>4, <2>5 DEF MastersFit
<1>4. AllEarly'
  <2>1. \A r, s \in World : pc'[r] \in Early => pc'[s] = pc'[r] \/ pc'[s] = "died"
    <3> SUFFICES ASSUME NEW r \in World, NEW s \in World, pc'[r] \in Early
                 PROVE  pc'[s] = pc'[r] \/ pc'[s] = "died"
      OBVIOUS
    <3>1. pc[r] = pc'[r] /\ (pc[s] = pc[r] \/ pc[s] = "died")
      BY DEF Arrangement, AllEarly
    <3>2. pc'[s] = pc[s]
      BY <3>1
    <3> QED BY <3>1, <3>2
  <2> QED BY <1>1, <2>1 DEF AllEarly
<1> QED BY <1>2, <1>3, <1>4 DEF Arrangement

Alive == \A r \in World : pc[r] # "died"

LEMMA WorkersAre ==
  ASSUME Arrangement, shape \in Shapes, NEW r \in World, bIsMaster[r]
  PROVE  /\ Workers(r) \subseteq World /\ r \notin Workers(r)
         /\ \A w \in Workers(r) :
              /\ master_workers_comm[w] = master_workers_comm[r] /\ r \in master_workers_comm[r]
              /\ RankIn(master_workers_comm[r], w) \in Nat \ {0}
              /\ shape.nWorkers > 0 /\ HasWorkers(r)
<1> DEFINE C == master_workers_comm[r]
<1>1. CASE C = {}
  BY <1>1 DEF Workers
<1>2. CASE C # {}
  <2>1. /\ r \in C /\ C \subseteq World /\ RankIn(C, r) = 0
        /\ \A s \in C : master_workers_comm[s] = C
    BY <1>2 DEF Arrangement, GroupsFit
  <2>2. \A w \in C : RankIn(C, w) \in Nat /\ (RankIn(C, w) = RankIn(C, r) => w = r)
                     /\ RankIn(C, w) < Cardinality(C)
    BY <2>1, RanksInOrder
  <2>3. shape.nWorkers > 0
    <3>1. shape.nWorkers # 0
      BY <1>2 DEF Arrangement, GroupsFit
    <3> QED BY <3>1, ShapeTypes
  <2>4. \A w \in Workers(r) : w \in C /\ w # r /\ RankIn(C, w) \in Nat \ {0}
    BY <2>1, <2>2 DEF Workers
  <2>5. ASSUME NEW w \in Workers(r) PROVE HasWorkers(r)
    <3>1. Cardinality(C) \in Nat
      BY <2>1, FiniteWorld
    <3>2. Cardinality(C) - 1 > 0
      BY <2>2, <2>4, <3>1
    <3> QED BY <2>3, <3>2 DEF HasWorkers, nOwnedEnvironments
  <2> QED BY <2>1, <2>3, <2>4, <2>5 DEF Workers
<1> QED BY <1>1, <1>2

\* The members of a group other than its master are its workers.
LEMMA WorkerIn ==
  ASSUME Arrangement, shape \in Shapes, NEW r \in World, bIsMaster[r],
         NEW w \in master_workers_comm[r], w # r
  PROVE  w \in Workers(r) /\ w \in World /\ ~bIsMaster[w]
<1> DEFINE C == master_workers_comm[r]
<1>1. /\ r \in C /\ C \subseteq World /\ RankIn(C, r) = 0
      /\ \A s \in C : master_workers_comm[s] = C
  BY DEF Arrangement, GroupsFit
<1>2. RankIn(C, w) # 0
  BY <1>1, RanksInOrder
<1>3. w \in World /\ master_workers_comm[w] = C
  BY <1>1
<1>4. bIsMaster[w] <=> RankIn(C, w) = 0
  BY <1>3, <1>1 DEF Arrangement, GroupsFit
<1> QED BY <1>2, <1>3, <1>4 DEF Workers

LEMMA WorkersOfOne ==
  ASSUME Arrangement, shape \in Shapes, NEW r \in World, bIsMaster[r], NEW q \in World, bIsMaster[q],
         NEW w \in Workers(r), w \in Workers(q)
  PROVE  q = r
<1>1. /\ master_workers_comm[w] = master_workers_comm[r] /\ r \in master_workers_comm[r]
      /\ master_workers_comm[w] = master_workers_comm[q] /\ q \in master_workers_comm[q]
  BY WorkersAre
<1>2. q \in master_workers_comm[r]
  BY <1>1
<1> QED BY <1>2, WorkerIn

LEMMA InStepKept ==
  ASSUME NEW r \in World, InStep(r), SameComms,
         pc'[r] # "died" =>
           /\ pc[r] # "died" /\ step'[r] = step[r]
           /\ \A w \in Workers(r) : HeardFrom(r, w)' <=> HeardFrom(r, w),
         \A w \in Workers(r) : pc'[w] = "died" \/ (pc[w] # "died" /\ step'[w] = step[w])
  PROVE  InStep(r)'
<1>1. Workers(r)' = Workers(r)
  BY SameRoles
<1>2. ASSUME NEW w \in Workers(r) PROVE OneAhead(w, r, HeardFrom(r, w))'
  BY DEF InStep, OneAhead
<1> QED BY <1>1, <1>2 DEF InStep

LEMMA InStepMastersKept ==
  ASSUME NEW r \in World, InStepMasters(r), SameComms,
         pc'[r] # "died" =>
           /\ pc[r] # "died" /\ step'[r] = step[r]
           /\ \A s \in workerless_masters_comm[r] \ {r} : Told(r, s)' <=> Told(r, s),
         \A s \in workerless_masters_comm[r] \ {r} :
           pc'[s] = "died" \/ (pc[s] # "died" /\ step'[s] = step[s])
  PROVE  InStepMasters(r)'
<1>1. workerless_masters_comm'[r] = workerless_masters_comm[r]
  BY DEF SameComms
<1>2. ASSUME RankIn(workerless_masters_comm[r], r) = 0,
             NEW s \in workerless_masters_comm[r] \ {r}
      PROVE  OneAhead(s, r, Told(r, s))'
  BY <1>2 DEF InStepMasters, OneAhead
<1> QED BY <1>1, <1>2 DEF InStepMasters

LEMMA OtherMasters ==
  ASSUME Arrangement, shape \in Shapes, NEW r \in World, bIsMaster[r],
         NEW s \in workerless_masters_comm[r]
  PROVE  s \in World /\ bIsMaster[s] /\ workerless_masters_comm[s] = workerless_masters_comm[r]
         /\ workerless_masters_comm[r] = Masters /\ Masters \subseteq World
BY DEF Arrangement, MastersFit, Masters

\* No rank is told or heard before a field is passed on.
LEMMA StepsStay ==
  ASSUME Arrangement, shape \in Shapes, Alive, SameComms, UNCHANGED <<step, heard>>,
         \A r \in World : bIsMaster[r] =>
           \/ pc'[r] \in {pc[r], "died"}
           \/ pc[r] \notin {"recv", "relay"} /\ pc'[r] # "relay" /\ (pc'[r] = "recv" => heard[r] = 0),
         NEW r \in World, bIsMaster[r], InStep(r), InStepMasters(r)
  PROVE  InStep(r)' /\ InStepMasters(r)'
<1>1. \A w \in Workers(r) : w \in World /\ RankIn(master_workers_comm[r], w) \in Nat \ {0}
  BY WorkersAre
<1>2. pc'[r] # "died" => \A w \in Workers(r) : HeardFrom(r, w)' <=> HeardFrom(r, w)
  BY <1>1 DEF HeardFrom, SameComms
<1>3. InStep(r)'
  BY <1>1, <1>2, InStepKept DEF Alive
<1>4. \A s \in workerless_masters_comm[r] : s \in World
  BY OtherMasters
<1>5. pc'[r] # "died" => \A s \in workerless_masters_comm[r] : Told(r, s)' <=> Told(r, s)
  BY DEF Told, SameComms
<1>6. InStepMasters(r)'
  BY <1>4, <1>5, InStepMastersKept DEF Alive
<1> QED BY <1>3, <1>6

\* An error takes a rank away, and changes nothing else.
LEMMA OneDies ==
  ASSUME Arrangement, shape \in Shapes, Alive, Described, NEW r \in World, pc[r] \notin Early,
         pc' = [pc EXCEPT ![r] = "died"], SameComms, UNCHANGED <<asked, syncVars>>
  PROVE  Arrangement' /\ Described'
<1>0. pc \in [World -> PCs]
  BY DEF Arrangement, Tables
<1>1. pc' \in [World -> PCs] /\ pc'[r] = "died" /\ \A q \in World : q # r => pc'[q] = pc[q]
  BY <1>0 DEF PCs
<1>2. World' = World
  BY SameRoles
<1>3. Arrangement'
  <2>1. Tables'
    BY <1>1, <1>2 DEF Arrangement, Tables, syncVars, SameComms
  <2>2. \A q \in World : pc'[q] # pc[q] =>
          pc[q] \notin Early \cup {"died"} /\ pc'[q] \notin Early \cup {"dup"}
    BY <1>1 DEF Alive, Early
  <2> QED BY <2>1, <2>2, ArrangementKept
<1>4. Described'
  <2>1. PICK D, m : Course(D, m) /\ Ranks(D, m)
    BY DEF Described
  <2>2. ASSUME NEW q \in World PROVE RankInv(q, D, m)'
    <3>1. CASE q = r
      BY <1>1, <3>1, RankDead
    <3>2. CASE q # r
      BY <1>1, <2>1, <3>2, RankStill DEF Ranks, Still, syncVars
    <3> QED BY <3>1, <3>2
  <2>3. ASSUME NEW q \in World, bIsMaster[q] PROVE InStep(q)' /\ InStepMasters(q)'
    BY <1>1, <2>1, <2>3, StepsStay DEF Ranks, syncVars
  <2>4. Course(D, m)'
    BY <2>1, CourseKept
  <2>5. Ranks(D, m)'
    BY <1>2, <2>2, <2>3 DEF Ranks, SameComms
  <2> QED BY <2>4, <2>5 DEF Described
<1> QED BY <1>3, <1>4

------------------------------------------------------------------------------
(* Before the first field                                                   *)

LEMMA ForkedIs ==
  ASSUME shape \in Shapes, NEW r \in World
  PROVE  nForkedProcesses2spawn(r) \in Nat
<1>1. CASE shape.nWorkers = 0
  <2> DEFINE M == shape.nMasters
             E == shape.nEnvironments
             n == (E + M - 1) \div M
             a == (r + 1) * n
             b == r * n
  <2>1. M \in Nat \ {0} /\ E \in Nat /\ r \in Nat
    BY <1>1, ShapeTypes, ShapesAssumption, FiniteWorld
  <2>2. n \in Nat
    BY <2>1, WholeShares
  <2>3. nForkedProcesses2spawn(r) = Min({a, E}) - Min({b, E})
    BY <1>1 DEF nForkedProcesses2spawn, notRoundedSplitting, nEnvironments, CeilDiv
  <2> HIDE DEF n
  <2>4. b \in Nat /\ a = b + n
    BY <2>1, <2>2
  <2> HIDE DEF a, b, E, M
  <2>5. a \in Nat /\ b <= a
    BY <2>2, <2>4
  <2>6. /\ Min({a, E}) = IF a <= E THEN a ELSE E
        /\ Min({b, E}) = IF b <= E THEN b ELSE E
    BY <2>1, <2>4, <2>5, LesserOfTwo
  <2> QED BY <2>1, <2>3, <2>4, <2>5, <2>6
<1>2. CASE shape.nWorkers # 0
  BY <1>2 DEF nForkedProcesses2spawn
<1> QED BY <1>1, <1>2

LEMMA EnvironmentIs ==
  /\ IsDescription(Environment) /\ ~Environment.died
  /\ Environment.nAgentsPerEnvironment = 1 /\ ~Environment.separate
  /\ Len(Environment.mdps) = 1 /\ Environment.mdps[1].dimAction = 0
<1> DEFINE s == <<MDPdescriptor>>
<1>1. /\ Environment.nAgentsPerEnvironment = 1 /\ Environment.separate = FALSE
      /\ Environment.died = FALSE /\ Environment.mdps = s
      /\ IsRecordOf(Environment, DOMAIN Environment)
  BY DEF Environment, IsRecordOf
<1>2. /\ MDPdescriptor.options = <<>> /\ MDPdescriptor.dimAction = 0
      /\ IsRecordOf(MDPdescriptor, DOMAIN MDPdescriptor)
  BY DEF MDPdescriptor, IsRecordOf
<1>3. IsMDP(MDPdescriptor)
  BY <1>2 DEF IsMDP
<1>4. Len(s) = 1 /\ s[1] = MDPdescriptor /\ IsRecordOf(s, 1 .. 1) /\ DOMAIN s = 1 .. 1
  BY DEF IsRecordOf
<1> HIDE DEF s
<1>5. IsList(s)
  <2>1. 1 \in Nat \ {0}
    OBVIOUS
  <2> QED BY <1>4, <2>1 DEF IsList
<1>6. \A i \in DOMAIN s : IsMDP(s[i])
  <2>1. \A i \in 1 .. 1 : i = 1
    OBVIOUS
  <2> QED BY <1>3, <1>4, <2>1
<1>7. IsList(Environment.mdps) /\ \A i \in DOMAIN Environment.mdps : IsMDP(Environment.mdps[i])
  BY <1>1, <1>5, <1>6
<1>8. IsDescription(Environment)
  <2>1. Environment.nAgentsPerEnvironment \in Nat \ {0}
    BY <1>1
  <2>2. Environment.separate \in BOOLEAN /\ Environment.died \in BOOLEAN
    BY <1>1
  <2>3. IsRecordOf(Environment, DOMAIN Environment)
    BY <1>1
  <2> QED BY <1>7, <2>1, <2>2, <2>3 DEF IsDescription
<1>9. Len(Environment.mdps) = 1 /\ Environment.mdps[1].dimAction = 0
  BY <1>1, <1>2, <1>4
<1> QED BY <1>1, <1>8, <1>9

LEMMA FieldsAsked ==
  ASSUME NEW D, NEW m, Course(D, m)
  PROVE  /\ m \in Nat \ {0} /\ nFields(asked) \in Nat /\ nFields(asked) >= 9
         /\ IsDescription(asked) /\ D[1] = asked
<1>1. m \in Nat \ {0} /\ D[1] = asked /\ 1 \in 1 .. m
  BY DEF Course
<1>2. Filled(D[1], 1)
  BY <1>1 DEF Course
<1> QED BY <1>1, <1>2, InDescription DEF Filled

LEMMA SameAsNothing ==
  ASSUME NEW e, NEW d
  PROVE  Same(e, d, 0)
<1>1. \A i \in Nat \ {0} : ~(6 * (i - 1) + 3 < 0)
  OBVIOUS
<1> QED BY <1>1 DEF Same

\* A rank that is about to be told.
LEMMA Arrives ==
  ASSUME NEW D, NEW m, Course(D, m), UNCHANGED asked, NEW r,
         pc'[r] = "recv", step'[r] = 1, heard'[r] = 0, received'[r] = FALSE,
         environment'[r] = Environment, ~Runs(r)', Forks(r)' => client'[r] = asked
  PROVE  RankInv(r, D, m)'
<1>1. /\ m \in Nat \ {0} /\ nFields(asked) \in Nat /\ nFields(asked) >= 9 /\ D[1] = asked
  BY FieldsAsked
<1>2. /\ Filled(Environment, 1) /\ ~Environment.died
      /\ Environment.nAgentsPerEnvironment = 1 /\ ~Environment.separate
      /\ Len(Environment.mdps) = 1 /\ Environment.mdps[1].dimAction = 0
  BY EnvironmentIs DEF Filled
<1>3. Waits(r)' /\ FollowsRun(r, D, m)' /\ Kind(r)'
  BY DEF Waits, Talking, FollowsRun, Kind
<1>4. Known(r)' = 0
  BY DEF Known
<1>5. Follows(r, D, m)'
  BY <1>1, <1>2, <1>4, SameAsNothing DEF Follows
<1>6. Starves(r)' /\ Hears(r)'
  BY <1>2 DEF Starves, Hears
<1> QED BY <1>3, <1>5, <1>6 DEF RankInv

\* A rank that only goes on to the next call.
LEMMA GoesOn ==
  ASSUME NEW D, NEW m, NEW r, pc'[r] \notin Talking \cup {"died"},
         step'[r] = 1, heard'[r] = 0, received'[r] = FALSE, environment'[r] = Environment,
         pc'[r] \in {"bind", "accept"} => client'[r] = asked', Kind(r)'
  PROVE  RankInv(r, D, m)'
BY DEF RankInv, Waits, FollowsRun, Follows, Starves, Hears, Talking

LEMMA SetupStep ==
  ASSUME Arrangement, shape \in Shapes, Alive, Described, SameComms,
         UNCHANGED <<asked, step, heard, received>>,
         pc' \in [World -> PCs], IsRecordOf(environment', World), IsRecordOf(client', World),
         NEW T, \A q \in World : q \notin T => Still(q),
         \A q \in World : q \in T => /\ pc[q] \notin Early \cup {"recv", "relay"}
                                     /\ pc'[q] \notin Early \cup {"dup", "relay"}
                                     /\ pc'[q] = "recv" => heard[q] = 0,
         ASSUME NEW D, NEW m, Course(D, m), Ranks(D, m), NEW q \in World, q \in T
         PROVE  RankInv(q, D, m)'
  PROVE  Arrangement' /\ Described'
<1>1. World' = World
  BY SameRoles
<1>2. \A q \in World : q \notin T => pc'[q] = pc[q]
  BY DEF Still
<1>3. Arrangement'
  <2>1. Tables'
    BY <1>1 DEF Arrangement, Tables, SameComms
  <2>2. \A q \in World : pc'[q] # pc[q] =>
          pc[q] \notin Early \cup {"died"} /\ pc'[q] \notin Early \cup {"dup"}
    BY <1>2 DEF Alive
  <2> QED BY <2>1, <2>2, ArrangementKept
<1>4. PICK D, m : Course(D, m) /\ Ranks(D, m)
  BY DEF Described
<1>5. ASSUME NEW q \in World PROVE RankInv(q, D, m)'
  <2>1. CASE q \in T
    BY <1>4, <2>1
  <2>2. CASE q \notin T
    BY <1>4, <2>2, RankStill DEF Ranks
  <2> QED BY <2>1, <2>2
<1>6. ASSUME NEW q \in World, bIsMaster[q] PROVE InStep(q)' /\ InStepMasters(q)'
  <2>1. \A r \in World : \/ pc'[r] \in {pc[r], "died"}
                         \/ /\ pc[r] \notin {"recv", "relay"} /\ pc'[r] # "relay"
                            /\ pc'[r] = "recv" => heard[r] = 0
    BY <1>2
  <2> QED BY <1>4, <1>6, <2>1, StepsStay DEF Ranks
<1>7. Course(D, m)'
  BY <1>4, CourseKept
<1>8. Ranks(D, m)'
  BY <1>1, <1>5, <1>6 DEF Ranks, SameComms
<1> QED BY <1>3, <1>7, <1>8 DEF Described

\* What a rank has that does not talk yet.
LEMMA WaitingRank ==
  ASSUME NEW D, NEW m, NEW r, RankInv(r, D, m), pc[r] \notin Talking \cup {"died"}
  PROVE  /\ step[r] = 1 /\ heard[r] = 0 /\ ~received[r] /\ environment[r] = Environment
         /\ pc[r] \in {"bind", "accept"} => client[r] = asked
BY DEF RankInv, Waits

LEMMA DescribedTeams ==
  ASSUME GroupsInv, Arrangement, Alive, Described, NEW r \in World, SplitEnvironments(r)
  PROVE  Arrangement' /\ Described'
<1> DEFINE group == master_workers_comm[r]
<1>0. shape \in Shapes /\ Tables /\ pc \in [World -> PCs]
  BY DEF GroupsInv, Arrangement
<1>1. /\ \A s \in group : pc[s] = "env"
      /\ pc' = [s \in World |-> IF s \in group
                                THEN [q \in World |-> IF bIsMaster[q] THEN "recv" ELSE "launch"][s]
                                ELSE pc[s]]
      /\ SameComms /\ UNCHANGED <<shape, asked, syncVars>>
  BY DEF SplitEnvironments, Together, SameComms
<1>2. \A s \in World : pc'[s] = IF s \in group THEN IF bIsMaster[s] THEN "recv" ELSE "launch"
                                ELSE pc[s]
  BY <1>1
<1>3. pc' \in [World -> PCs]
  <2>1. \A s \in World : pc'[s] \in PCs
    BY <1>0, <1>2 DEF PCs
  <2> QED BY <1>1, <2>1
<1> HIDE DEF group
<1>4. UNCHANGED <<step, heard, received, environment, client>>
  BY <1>1 DEF syncVars
<1>5. \A q \in World : q \notin group => Still(q)
  BY <1>2, <1>4 DEF Still
<1>6. ASSUME NEW D, NEW m, Course(D, m), Ranks(D, m), NEW q \in World, q \in group
      PROVE  RankInv(q, D, m)' /\ heard[q] = 0
  <2>1. RankInv(q, D, m) /\ pc[q] = "env"
    BY <1>1, <1>6 DEF Ranks, group
  <2>2. step[q] = 1 /\ heard[q] = 0 /\ received[q] = FALSE /\ environment[q] = Environment
    BY <1>0, <2>1, WaitingRank DEF Talking, Tables
  <2>3. ~Forks(q) /\ nForkedProcesses2spawn(q) = 0
    <3>1. ~Forks(q)
      BY <2>1 DEF RankInv, Kind
    <3> QED BY <1>0, <3>1, ForkedIs DEF Forks
  <2>4. ~Forks(q)' /\ (bIsMaster[q] => ~Runs(q)') /\ (~bIsMaster[q] => Runs(q)')
    BY <1>1, <2>3, SameRoles DEF Runs
  <2>5. CASE bIsMaster[q]
    BY <1>1, <1>2, <1>4, <1>6, <2>2, <2>4, <2>5, Arrives
  <2>6. CASE ~bIsMaster[q]
    <3>1. pc'[q] = "launch"
      BY <1>2, <1>6, <2>6
    <3>2. Kind(q)'
      BY <2>4, <2>6, <3>1 DEF Kind
    <3> QED BY <1>4, <2>2, <3>1, <3>2, GoesOn DEF Talking
  <2> QED BY <2>2, <2>5, <2>6
<1>7. \A q \in World : q \in group => heard[q] = 0
  BY <1>6 DEF Described
<1>8. \A q \in World : q \in group => /\ pc[q] \notin Early \cup {"recv", "relay"}
                                      /\ pc'[q] \notin Early \cup {"dup", "relay"}
  BY <1>1, <1>2 DEF Early, group
<1>9. IsRecordOf(environment', World) /\ IsRecordOf(client', World)
  BY <1>0, <1>4 DEF Tables
<1> QED BY <1>0, <1>1, <1>3, <1>4, <1>5, <1>6, <1>7, <1>8, <1>9, SetupStep

\* One rank goes on to its next call.
LEMMA DescribedOn ==
  ASSUME GroupsInv, Arrangement, Alive, Described, NEW r \in World,
         pc[r] \notin Early \cup Talking \cup {"died"},
         NEW to \in PCs \ (Early \cup Talking \cup {"died", "dup"}), pc' = [pc EXCEPT ![r] = to],
         SameComms, UNCHANGED <<asked, step, heard, received, environment>>,
         IsRecordOf(client', World), \A q \in World : q # r => client'[q] = client[q],
         to \in {"bind", "accept"} => client'[r] = asked \/ (pc[r] = "bind" /\ UNCHANGED client),
         ASSUME Kind(r) PROVE Kind(r)'
  PROVE  Arrangement' /\ Described'
<1>0. shape \in Shapes /\ Tables /\ pc \in [World -> PCs]
  BY DEF GroupsInv, Arrangement
<1>1. /\ pc' \in [World -> PCs] /\ pc'[r] = to
      /\ \A q \in World : q \notin {r} => Still(q)
  BY <1>0 DEF Still
<1>2. ASSUME NEW D, NEW m, Course(D, m), Ranks(D, m), NEW q \in World, q \in {r}
      PROVE  RankInv(q, D, m)'
  <2>1. q = r /\ RankInv(r, D, m)
    BY <1>2 DEF Ranks
  <2>2. /\ step[r] = 1 /\ heard[r] = 0 /\ received[r] = FALSE /\ environment[r] = Environment
        /\ pc[r] = "bind" => client[r] = asked
    BY <1>0, <2>1, WaitingRank DEF Tables
  <2>3. Kind(r)'
    BY <2>1 DEF RankInv
  <2>4. pc'[r] \notin Talking \cup {"died"}
    BY <1>1
  <2>5. pc'[r] \in {"bind", "accept"} => client'[r] = asked'
    BY <1>1, <2>2
  <2> QED BY <2>1, <2>2, <2>3, <2>4, <2>5, GoesOn
<1>3. \A q \in World : q \in {r} => /\ pc[q] \notin Early \cup {"recv", "relay"}
                                    /\ pc'[q] \notin Early \cup {"dup", "relay"}
                                    /\ pc'[q] = "recv" => heard[q] = 0
  BY <1>1 DEF Talking
<1>4. IsRecordOf(environment', World)
  BY <1>0 DEF Tables
<1> QED BY <1>0, <1>1, <1>2, <1>3, <1>4, SetupStep

LEMMA DescribedAside ==
  ASSUME GroupsInv, Arrangement, Alive, Described, SameComms, UNCHANGED <<pc, asked, syncVars>>
  PROVE  Arrangement' /\ Described'
<1> DEFINE T == {}
<1>0. shape \in Shapes /\ Tables /\ pc \in [World -> PCs]
  BY DEF GroupsInv, Arrangement
<1>1. \A q \in World : q \notin T => Still(q)
  BY DEF Still, syncVars
<1>2. UNCHANGED <<asked, step, heard, received>> /\ UNCHANGED <<environment, client>>
  BY DEF syncVars
<1>3. IsRecordOf(environment', World) /\ IsRecordOf(client', World) /\ pc' \in [World -> PCs]
  BY <1>0, <1>2 DEF Tables
<1>4. \A q : q \notin T
  OBVIOUS
<1> HIDE DEF T
<1>5. ASSUME NEW D, NEW m, Course(D, m), Ranks(D, m), NEW q \in World, q \in T
      PROVE  RankInv(q, D, m)'
  BY <1>4, <1>5
<1>6. \A q \in World : q \in T => /\ pc[q] \notin Early \cup {"recv", "relay"}
                                  /\ pc'[q] \notin Early \cup {"dup", "relay"}
                                  /\ pc'[q] = "recv" => heard[q] = 0
  BY <1>4
<1> QED BY <1>0, <1>1, <1>2, <1>3, <1>5, <1>6, SetupStep

LEMMA DescribedDirs ==
  ASSUME GroupsInv, Arrangement, Alive, Described, NEW r \in World, LookForDir(r) \/ MakeDir(r)
  PROVE  Arrangement' /\ Described'
<1> USE DEF comms, syncVars
<1>1. SameComms /\ UNCHANGED <<asked, syncVars>>
  BY DEF LookForDir, MakeDir, SameComms
<1>2. \/ UNCHANGED pc
      \/ pc[r] = "launch" /\ pc' = [pc EXCEPT ![r] = "barrier"]
      \/ pc[r] = "barrier" /\ pc' = [pc EXCEPT ![r] = "made"]
  BY DEF LookForDir, MakeDir
<1>3. CASE UNCHANGED pc
  BY <1>1, <1>3, DescribedAside
<1>4. ASSUME NEW to \in {"barrier", "made"}, pc[r] \in {"launch", "barrier"},
             pc' = [pc EXCEPT ![r] = to]
      PROVE  Arrangement' /\ Described'
  <2>1. pc'[r] = to
    BY <1>4 DEF GroupsInv
  <2>2. Kind(r) => Kind(r)'
    BY <1>1, <1>4, <2>1, SameRoles DEF Kind
  <2>3. /\ pc[r] \notin Early \cup Talking \cup {"died"}
        /\ to \in PCs \ (Early \cup Talking \cup {"died", "dup"}) /\ to \notin {"bind", "accept"}
    BY <1>4 DEF Early, Talking, PCs
  <2>4. IsRecordOf(client', World)
    BY <1>1 DEF Arrangement, Tables
  <2> QED BY <1>1, <1>4, <2>2, <2>3, <2>4, DescribedOn
<1> QED BY <1>2, <1>3, <1>4

LEMMA DescribedForks ==
  ASSUME GroupsInv, Arrangement, Alive, Described, NEW r \in World, Fork(r) \/ Bind(r)
  PROVE  Arrangement' /\ Described'
<1> USE DEF comms, syncVars
<1>0. IsRecordOf(client, World) /\ pc \in [World -> PCs]
  BY DEF Arrangement, Tables
<1>1. SameComms /\ UNCHANGED <<asked, step, heard, received, environment>>
  BY DEF Fork, Bind, SameComms
<1>2. \/ pc[r] = "fork" /\ pc' = [pc EXCEPT ![r] = "bind"] /\ client' = [client EXCEPT ![r] = asked]
      \/ pc[r] = "bind" /\ pc' = [pc EXCEPT ![r] = "accept"] /\ UNCHANGED client
  BY DEF Fork, Bind
<1>3. /\ IsRecordOf(client', World) /\ \A q \in World : q # r => client'[q] = client[q]
      /\ client'[r] = asked \/ (pc[r] = "bind" /\ UNCHANGED client)
  <2>1. CASE client' = [client EXCEPT ![r] = asked]
    BY <1>0, <2>1 DEF IsRecordOf
  <2> QED BY <1>0, <1>2, <2>1
<1>4. PICK to \in {"bind", "accept"} : pc' = [pc EXCEPT ![r] = to] /\ pc[r] \in {"fork", "bind"}
  BY <1>2
<1>5. pc'[r] = to
  BY <1>0, <1>4
<1>6. Kind(r) => Kind(r)'
  BY <1>1, <1>4, <1>5, SameRoles DEF Kind
<1>7. /\ pc[r] \notin Early \cup Talking \cup {"died"}
      /\ to \in PCs \ (Early \cup Talking \cup {"died", "dup"})
  BY <1>4 DEF Early, Talking, PCs
<1> QED BY <1>1, <1>3, <1>4, <1>6, <1>7, DescribedOn

LEMMA DescribedConnects ==
  ASSUME GroupsInv, Arrangement, Alive, Described, NEW r \in World,
         SOCKET_clientConnect(r) \/ SOCKET_serverConnect(r)
  PROVE  Arrangement' /\ Described'
<1> USE DEF comms, syncVars
<1>0. shape \in Shapes /\ Tables /\ pc \in [World -> PCs]
  BY DEF GroupsInv, Arrangement
<1>1. SameComms /\ UNCHANGED <<asked, syncVars>>
  BY DEF SOCKET_clientConnect, SOCKET_serverConnect, SameComms
<1>2. CASE SOCKET_clientConnect(r)
  BY <1>1, <1>2, DescribedAside DEF SOCKET_clientConnect
<1>3. CASE SOCKET_serverConnect(r)
  <2>1. pc[r] = "accept" /\ pc' = [pc EXCEPT ![r] = "recv"]
    BY <1>3 DEF SOCKET_serverConnect
  <2>2. pc' \in [World -> PCs] /\ pc'[r] = "recv"
    BY <1>0, <2>1 DEF PCs
  <2>3. UNCHANGED <<step, heard, received, environment, client>>
    BY <1>1
  <2>4. \A q \in World : q \notin {r} => Still(q)
    BY <1>0, <2>1, <2>3 DEF Still
  <2>5. ASSUME NEW D, NEW m, Course(D, m), Ranks(D, m), NEW q \in World, q \in {r}
        PROVE  RankInv(q, D, m)' /\ heard[q] = 0
    <3>1. q = r /\ RankInv(r, D, m)
      BY <2>5 DEF Ranks
    <3>2. /\ step[r] = 1 /\ heard[r] = 0 /\ received[r] = FALSE /\ environment[r] = Environment
          /\ client[r] = asked
      BY <1>0, <2>1, <3>1, WaitingRank DEF Tables, Talking
    <3>3. Forks(r)
      BY <2>1, <3>1 DEF RankInv, Kind
    <3>4. ~Runs(r)'
      <4>1. ~Runs(r)
        BY <1>0, <3>3, ForkedIs DEF Forks, Runs
      <4> QED BY <1>1, <4>1, SameRoles
    <3> QED BY <1>1, <2>2, <2>3, <2>5, <3>1, <3>2, <3>4, Arrives
  <2>6. \A q \in World : q \in {r} => /\ pc[q] \notin Early \cup {"recv", "relay"}
                                      /\ pc'[q] \notin Early \cup {"dup", "relay"}
                                      /\ pc'[q] = "recv" => heard[q] = 0
    BY <2>1, <2>2, <2>5 DEF Early, Described
  <2>7. IsRecordOf(environment', World) /\ IsRecordOf(client', World)
    BY <1>0, <2>3 DEF Tables
  <2> QED BY <1>0, <1>1, <2>2, <2>3, <2>4, <2>5, <2>6, <2>7, SetupStep
<1> QED BY <1>2, <1>3

\* A call changes a descriptor, or a member of the description.
LEMMA CallKeeps ==
  ASSUME IsDescription(asked), Call
  PROVE  IsDescription(asked')
<1> USE DEF Ask
<1>e. EnvironmentFields = {"nAgentsPerEnvironment", "separate", "distributed", "tracked", "mdps", "died"}
      /\ DOMAIN Environment = EnvironmentFields
  BY EnvironmentHas DEF EnvironmentFields
<1>m. DOMAIN MDPdescriptor = {"dimState", "dimAction", "options", "flags", "observed", "scales", "bounds"}
  BY DEF MDPdescriptor
<1>1. ASSUME asked' = [asked EXCEPT !.died = TRUE] PROVE IsDescription(asked')
  BY <1>e, <1>1, WithParts DEF IsDescription, IsRecordOf
<1>2. ASSUME NEW i \in DOMAIN asked.mdps, NEW mdp, IsMDP(mdp), asked' = [asked EXCEPT !.mdps[i] = mdp]
      PROVE  IsDescription(asked')
  <2>1. i \in 1 .. Len(asked.mdps)
    BY <1>2, InDescription
  <2>2. Replaces(asked', asked, i, mdp)
    BY <1>2, <2>1, MDPReplaced
  <2> QED BY <1>2, <2>1, <2>2, WithMDP
<1>3. ASSUME NEW i \in DOMAIN asked.mdps,
             \/ \E s \in 0 .. MaxDim, a \in 1 .. MaxDim : setStateActionDims(i, s, a)
             \/ \E b \in Vectors({<<0, 2>>, <<2, 0>>}) : setActionScales(i, b)
             \/ \E o \in Vectors({1, 2, 3}) : setActionOptions(i, o)
             \/ \E o \in Vectors(BOOLEAN) : setStateObservable(i, o)
             \/ \E s \in Vectors({Given, Flat}) : setStateScales(i, s)
             \/ setIsPartiallyObservable(i) \/ setPreprocessingConv2d(i)
             \/ setNumAppendedPastObservations(i) \/ agentsShareExplorationNoise(i)
      PROVE  IsDescription(asked')
  <2> DEFINE a == asked.mdps[i]
  <2>0. IsMDP(a)
    BY <1>3 DEF IsDescription
  <2>1. asked' = [asked EXCEPT !.died = TRUE]
        \/ \E mdp : IsMDP(mdp) /\ asked' = [asked EXCEPT !.mdps[i] = mdp]
    <3>1. ASSUME NEW s, NEW n, setStateActionDims(i, s, n)
          PROVE  \E mdp : IsMDP(mdp) /\ asked' = [asked EXCEPT !.mdps[i] = mdp]
      <4>1. asked' = [asked EXCEPT !.mdps[i] = [a EXCEPT !.dimState = s, !.dimAction = n]]
        BY <3>1 DEF setStateActionDims
      <4>2. IsMDP([a EXCEPT !.dimState = s, !.dimAction = n])
        BY <1>m, <2>0 DEF IsMDP, IsRecordOf
      <4> QED BY <4>1, <4>2
    <3>2. ASSUME NEW b, setActionScales(i, b)
          PROVE  asked' = [asked EXCEPT !.died = TRUE]
                 \/ \E mdp : IsMDP(mdp) /\ asked' = [asked EXCEPT !.mdps[i] = mdp]
      <4>1. asked' = [asked EXCEPT !.died = TRUE]
            \/ asked' = [asked EXCEPT !.mdps[i] = [a EXCEPT !.bounds = b]]
        BY <3>2 DEF setActionScales
      <4>2. IsMDP([a EXCEPT !.bounds = b])
        BY <1>m, <2>0 DEF IsMDP, IsRecordOf
      <4> QED BY <4>1, <4>2
    <3>3. ASSUME NEW o \in Vectors({1, 2, 3}), setActionOptions(i, o)
          PROVE  asked' = [asked EXCEPT !.died = TRUE]
                 \/ \E mdp : IsMDP(mdp) /\ asked' = [asked EXCEPT !.mdps[i] = mdp]
      <4>1. asked' = [asked EXCEPT !.died = TRUE]
            \/ asked' = [asked EXCEPT !.mdps[i] = [a EXCEPT !.options = o]]
        BY <3>3 DEF setActionOptions
      <4>2. o \in Seq(Int)
        <5>1. PICK n \in 1 .. MaxDim : o \in [1 .. n -> {1, 2, 3}]
          BY <3>3 DEF Vectors
        <5>2. n \in Nat /\ o \in [1 .. n -> Int]
          BY <5>1, MaxDimAssumption
        <5> QED BY <5>2, IsASeq
      <4>3. IsMDP([a EXCEPT !.options = o])
        BY <1>m, <2>0, <4>2 DEF IsMDP, IsRecordOf
      <4> QED BY <4>1, <4>3
    <3>4. ASSUME NEW o, setStateObservable(i, o)
          PROVE  asked' = [asked EXCEPT !.died = TRUE]
                 \/ \E mdp : IsMDP(mdp) /\ asked' = [asked EXCEPT !.mdps[i] = mdp]
      <4>1. asked' = [asked EXCEPT !.died = TRUE]
            \/ asked' = [asked EXCEPT !.mdps[i] = [a EXCEPT !.observed = o]]
        BY <3>4 DEF setStateObservable
      <4>2. IsMDP([a EXCEPT !.observed = o])
        BY <1>m, <2>0 DEF IsMDP, IsRecordOf
      <4> QED BY <4>1, <4>2
    <3>5. ASSUME NEW s, setStateScales(i, s)
          PROVE  asked' = [asked EXCEPT !.died = TRUE]
                 \/ \E mdp : IsMDP(mdp) /\ asked' = [asked EXCEPT !.mdps[i] = mdp]
      <4>1. asked' = [asked EXCEPT !.died = TRUE]
            \/ asked' = [asked EXCEPT !.mdps[i] = [a EXCEPT !.scales = s]]
        BY <3>5 DEF setStateScales
      <4>2. IsMDP([a EXCEPT !.scales = s])
        BY <1>m, <2>0 DEF IsMDP, IsRecordOf
      <4> QED BY <4>1, <4>2
    <3>6. ASSUME \/ setIsPartiallyObservable(i) \/ setPreprocessingConv2d(i)
                 \/ setNumAppendedPastObservations(i) \/ agentsShareExplorationNoise(i)
          PROVE  asked' = [asked EXCEPT !.died = TRUE]
                 \/ \E mdp : IsMDP(mdp) /\ asked' = [asked EXCEPT !.mdps[i] = mdp]
      <4>1. asked' = [asked EXCEPT !.died = TRUE]
            \/ \E f : asked' = [asked EXCEPT !.mdps[i] = [a EXCEPT !.flags = @ \cup {f}]]
        BY <3>6 DEF setIsPartiallyObservable, setPreprocessingConv2d, setNumAppendedPastObservations,
                    agentsShareExplorationNoise, setFlag
      <4>2. ASSUME NEW f PROVE IsMDP([a EXCEPT !.flags = @ \cup {f}])
        BY <1>m, <2>0 DEF IsMDP, IsRecordOf
      <4> QED BY <4>1, <4>2
    <3> QED BY <1>3, <3>1, <3>2, <3>3, <3>4, <3>5, <3>6
  <2> QED BY <1>1, <1>2, <1>3, <2>1
<1>4. ASSUME NEW n \in 1 .. 2, setNumAgents(n) PROVE IsDescription(asked')
  BY <1>e, <1>4, WithParts DEF IsDescription, IsRecordOf, setNumAgents
<1>5. ASSUME envHasDistributedAgents PROVE IsDescription(asked')
  <2>1. asked' = [asked EXCEPT !.died = TRUE] \/ asked' = [asked EXCEPT !.distributed = TRUE]
    BY <1>5 DEF envHasDistributedAgents
  <2>2. CASE asked' = [asked EXCEPT !.distributed = TRUE]
    BY <1>e, <2>2, WithParts DEF IsDescription, IsRecordOf
  <2> QED BY <1>1, <2>1, <2>2
<1>6. ASSUME agentsDefineDifferentMDP PROVE IsDescription(asked')
  <2> DEFINE w == [asked EXCEPT !.separate = TRUE]
  <2>1. asked' = [asked EXCEPT !.died = TRUE] \/ asked' = initDescriptors(w)
    BY <1>6 DEF agentsDefineDifferentMDP
  <2>2. IsDescription(w) /\ ~w.died
    <3>1. ~asked.died
      BY DEF Call
    <3>2. /\ IsRecordOf(w, EnvironmentFields) /\ w.separate = TRUE /\ w.mdps = asked.mdps
          /\ w.died = asked.died /\ w.nAgentsPerEnvironment = asked.nAgentsPerEnvironment
      BY <1>e DEF IsDescription, IsRecordOf
    <3> HIDE DEF w
    <3> QED BY <3>1, <3>2, WithParts DEF IsDescription
  <2> HIDE DEF w
  <2>3. IsDescription(initDescriptors(w))
    BY <2>2, InitDescriptorsFacts
  <2> QED BY <1>1, <2>1, <2>3
<1>7. ASSUME NEW n, disableDataTrackingForAgents(n, n) PROVE IsDescription(asked')
  <2>1. \E v : asked' = [asked EXCEPT !.tracked = v]
    BY <1>7 DEF disableDataTrackingForAgents
  <2>2. ASSUME NEW v, asked' = [asked EXCEPT !.tracked = v] PROVE IsDescription(asked')
    BY <1>e, <2>2, WithParts DEF IsDescription, IsRecordOf
  <2> QED BY <2>1, <2>2
<1> QED BY <1>3, <1>4, <1>5, <1>6, <1>7 DEF Call

LEMMA DescribedCalls ==
  ASSUME GroupsInv, Arrangement, Alive, Described, Describe
  PROVE  Arrangement' /\ Described'
<1>0. shape \in Shapes /\ Tables /\ 0 \in World
  BY ShapeTypes DEF GroupsInv, Arrangement
<1>1. /\ SameComms /\ UNCHANGED <<pc, step, heard, received, environment, client>>
      /\ pc[0] = "figure" /\ Call
  BY DEF Describe, SameComms, comms, syncVars
<1>2. \A r \in World : pc[r] = "figure"
  BY <1>0, <1>1 DEF Arrangement, AllEarly, Early, Alive
<1>3. World' = World
  BY <1>1, SameRoles
<1>4. Arrangement'
  <2>1. Tables'
    BY <1>0, <1>1, <1>3 DEF Tables, SameComms
  <2> QED BY <1>1, <2>1, ArrangementKept
<1>5. PICK D, m : Course(D, m) /\ Ranks(D, m)
  BY DEF Described
<1>6. IsDescription(asked')
  BY <1>1, <1>5, FieldsAsked, CallKeeps
<1>7. PICK D2 : D2[1] = asked'
  <2>1. [k \in 1 .. 1 |-> asked'][1] = asked'
    OBVIOUS
  <2> QED BY <2>1
<1>8. Course(D2, 1)'
  <2>1. Filled(asked', 1)
    BY <1>6 DEF Filled
  <2>2. 1 \in Nat \ {0} /\ 1 <= nFields(asked') + 1 /\ 1 .. 1 - 1 = {}
    BY <1>6, InDescription
  <2>3. \A k \in 1 .. 1 : k = 1
    OBVIOUS
  <2>4. \A k \in 1 .. 1 : Filled(D2[k], k) /\ nFields(D2[k]) = nFields(asked')
    BY <1>7, <2>1, <2>3
  <2>5. \A k \in 1 .. 1 - 1 : D2[k + 1] = Advanced(D2[k], k)
    BY <2>2
  <2> QED BY <1>7, <2>2, <2>4, <2>5 DEF Course
<1>9. ASSUME NEW q \in World PROVE RankInv(q, D2, 1)'
  <2>1. RankInv(q, D, m) /\ pc[q] \notin Talking \cup {"died"} /\ pc[q] \notin {"bind", "accept"}
    BY <1>2, <1>5 DEF Ranks, Talking
  <2>2. step[q] = 1 /\ heard[q] = 0 /\ received[q] = FALSE /\ environment[q] = Environment
    BY <1>0, <2>1, WaitingRank DEF Tables
  <2>3. Kind(q)'
    BY <1>1, <1>2, SameRoles DEF Kind
  <2>4. pc'[q] \notin Talking \cup {"died"} /\ pc'[q] \notin {"bind", "accept"}
    BY <1>1, <2>1
  <2>5. step'[q] = 1 /\ heard'[q] = 0 /\ received'[q] = FALSE /\ environment'[q] = Environment
    BY <1>1, <2>2
  <2> QED BY <2>3, <2>4, <2>5, GoesOn
<1>10. ASSUME NEW q \in World, bIsMaster[q] PROVE InStep(q)' /\ InStepMasters(q)'
  BY <1>0, <1>1, <1>5, <1>10, StepsStay DEF Ranks
<1>11. Ranks(D2, 1)'
  BY <1>1, <1>3, <1>9, <1>10 DEF Ranks, SameComms
<1>12. Described'
  <2>1. Course(D2, 1)' /\ Ranks(D2, 1)'
    BY <1>8, <1>11
  <2>2. \E E, m2 : Course(E, m2)' /\ Ranks(E, m2)'
    BY <2>1
  <2> QED BY <2>2 DEF Described
<1> QED BY <1>4, <1>12

LEMMA DescribedApplication ==
  ASSUME GroupsInv, Arrangement, Alive, Described, NEW r \in World, EnterDir(r)
  PROVE  Arrangement' /\ Described'
<1> DEFINE T == environment_app_comm[r]
<1>0. shape \in Shapes /\ Tables /\ pc \in [World -> PCs]
  BY DEF GroupsInv, Arrangement
<1>1. /\ \A s \in T : pc[s] \in {"made", "barrier"}
      /\ pc' = [s \in World |-> IF s \notin T THEN pc[s] ELSE IF asked.died THEN "died" ELSE "send"]
      /\ environment' = [s \in World |-> IF s \in T THEN asked ELSE environment[s]]
      /\ SameComms /\ UNCHANGED <<shape, asked, client, step, heard, received>>
  BY DEF EnterDir, SameComms, comms
<1> HIDE DEF T
<1>2. /\ \A s \in World : pc'[s] = IF s \notin T THEN pc[s] ELSE IF asked.died THEN "died" ELSE "send"
      /\ \A s \in World : environment'[s] = IF s \in T THEN asked ELSE environment[s]
  BY <1>1
<1>3. pc' \in [World -> PCs] /\ IsRecordOf(environment', World) /\ IsRecordOf(client', World)
  <2>1. \A s \in World : pc'[s] \in PCs
    BY <1>0, <1>2 DEF PCs
  <2>2. pc' \in [World -> PCs]
    BY <1>1, <2>1
  <2>3. IsRecordOf(environment', World)
    BY <1>1 DEF IsRecordOf
  <2> QED BY <1>0, <1>1, <2>2, <2>3 DEF Tables
<1>4. \A q \in World : q \notin T => Still(q)
  BY <1>1, <1>2 DEF Still
<1>5. ASSUME NEW D, NEW m, Course(D, m), Ranks(D, m), NEW q \in World, q \in T
      PROVE  RankInv(q, D, m)'
  <2>1. RankInv(q, D, m) /\ pc[q] \in {"made", "barrier"}
    BY <1>1, <1>5 DEF Ranks
  <2>2. step[q] = 1 /\ heard[q] = 0 /\ received[q] = FALSE
    BY <1>0, <2>1, WaitingRank DEF Tables, Talking
  <2>3. Runs(q) /\ ~bIsMaster[q] /\ ~Forks(q)
    <3>1. Runs(q)
      BY <2>1 DEF RankInv, Kind
    <3> QED BY <3>1 DEF Runs, Forks
  <2>4. Runs(q)' /\ ~bIsMaster'[q] /\ ~Forks(q)'
    BY <1>1, <2>3, SameRoles DEF SameComms
  <2>5. CASE asked.died
    <3>1. pc'[q] = "died"
      BY <1>2, <1>5, <2>5
    <3> QED BY <3>1, RankDead
  <2>6. CASE ~asked.died
    <3>1. pc'[q] = "send" /\ environment'[q] = asked
      BY <1>2, <1>5, <2>6
    <3>2. m \in Nat \ {0} /\ nFields(asked) \in Nat /\ nFields(asked) >= 9 /\ D[1] = asked
      BY <1>5, FieldsAsked
    <3>3. step'[q] = 1 /\ received'[q] = FALSE /\ asked' = asked
      BY <1>1, <2>2
    <3>4. FollowsRun(q, D, m)'
      BY <2>6, <3>1, <3>2, <3>3 DEF FollowsRun
    <3>5. Waits(q)' /\ Kind(q)' /\ Follows(q, D, m)' /\ Hears(q)'
      BY <2>4, <3>1 DEF Waits, Talking, Kind, Follows, Hears
    <3>6. Starves(q)'
      BY <2>4 DEF Starves, Starved
    <3> QED BY <3>4, <3>5, <3>6 DEF RankInv
  <2> QED BY <2>5, <2>6
<1>6. \A q \in World : q \in T => /\ pc[q] \notin Early \cup {"recv", "relay"}
                                  /\ pc'[q] \notin Early \cup {"dup", "relay"}
                                  /\ pc'[q] = "recv" => heard[q] = 0
  BY <1>1, <1>2 DEF Early
<1>7. UNCHANGED <<asked, step, heard, received>>
  BY <1>1
<1> QED BY <1>0, <1>1, <1>3, <1>4, <1>5, <1>6, <1>7, SetupStep

\* The steps in which a rank gives up.
LEMMA DescribedRefused ==
  ASSUME GroupsInv, Arrangement, Alive, Described, NEW r \in World, WorkersDie(r) \/ RelayRefused(r)
  PROVE  Arrangement' /\ Described'
<1>1. /\ shape \in Shapes /\ pc[r] \notin Early /\ pc' = [pc EXCEPT ![r] = "died"]
      /\ SameComms /\ UNCHANGED <<asked, syncVars>>
  BY DEF GroupsInv, WorkersDie, RelayRefused, SameComms, comms, unchangedBySync, Early
<1> QED BY <1>1, OneDies

Starting == {"learners", "workers", "dup", "env", "fork", "recv", "died"}

\* A rank while the world is split, and once it is arranged.
LEMMA AtStart ==
  ASSUME NEW D, NEW m, Course(D, m), UNCHANGED asked, NEW r,
         pc'[r] \in Starting,
         step'[r] = 1, heard'[r] = 0, received'[r] = FALSE, environment'[r] = Environment,
         Kind(r)', pc'[r] = "recv" => ~Forks(r)'
  PROVE  RankInv(r, D, m)'
<1> USE DEF Starting
<1>1. CASE pc'[r] = "died"
  BY <1>1, RankDead
<1>2. CASE pc'[r] = "recv"
  <2>1. ~Runs(r)'
    BY <1>2 DEF Kind
  <2> QED BY <1>2, <2>1, Arrives
<1>3. CASE pc'[r] \notin {"died", "recv"}
  <2>1. pc'[r] \notin Talking \cup {"died"} /\ pc'[r] \notin {"bind", "accept"}
    BY <1>3 DEF Talking
  <2> QED BY <2>1, GoesOn
<1> QED BY <1>1, <1>2, <1>3

LEMMA AllWait ==
  ASSUME Tables, Described, NEW S \in SUBSET World, \A r \in S : pc[r] \notin Talking \cup {"died"}
  PROVE  \A r \in S : step[r] = 1 /\ heard[r] = 0 /\ received[r] = FALSE
                      /\ environment[r] = Environment
<1> SUFFICES ASSUME NEW r \in S
             PROVE  step[r] = 1 /\ heard[r] = 0 /\ received[r] = FALSE
                    /\ environment[r] = Environment
  OBVIOUS
<1>1. PICK D, m : Course(D, m) /\ Ranks(D, m)
  BY DEF Described
<1> QED BY <1>1, WaitingRank DEF Ranks, Tables

LEMMA ArrangedTo ==
  ASSUME NEW r, Arranged(r) = "fork" \/ Arranged(r) = "recv" \/ Arranged(r) = "env",
         shape.nWorkers = 0 \/ shape \in Shapes
  PROVE  /\ Arranged(r) = "fork" <=> Arranged(r) # "env" /\ nForkedProcesses2spawn(r) > 0
         /\ Arranged(r) = "env" => ~(nForkedProcesses2spawn(r) > 0)
         /\ Arranged(r) = "recv" => shape.nWorkers = 0 \/ bIsMaster[r]
<1>1. shape \in Shapes => shape.workerProcessesPerEnv \in Nat /\ shape.nWorkers \in Nat
  BY ShapesAssumption
<1> QED BY <1>1 DEF Arranged, nForkedProcesses2spawn

LEMMA DescribedFigured ==
  ASSUME GroupsInv, Arrangement, Alive, Described, FigureOut
  PROVE  Arrangement' /\ Described'
<1>0. shape \in Shapes /\ Tables
  BY DEF GroupsInv, Arrangement
<1>1. /\ \A r \in World : pc[r] = "figure"
      /\ pc' = [r \in World |-> IF Refused THEN "died"
                               ELSE IF shape.nWorkers > 0 THEN "learners"
                               ELSE IF nEnvironments < shape.nMasters THEN "dup"
                               ELSE Arranged(r)]
      /\ bIsMaster' = [r \in World |-> shape.nWorkers = 0]
      /\ learners_train_comm' = [r \in World |-> IF shape.nWorkers = 0 THEN World ELSE {}]
      /\ UNCHANGED <<shape, master_workers_comm, workerless_masters_comm, asked, syncVars>>
  BY DEF FigureOut, Together
<1>2. World' = World /\ \A r : nForkedProcesses2spawn(r)' =
                               IF shape.nWorkers = 0 THEN nForkedProcesses2spawn(r)
                               ELSE nForkedProcesses2spawn(r)'
  BY <1>1 DEF World, nForkedProcesses2spawn, nEnvironments, notRoundedSplitting, CeilDiv,
              forkableApplication
<1>3. \A s \in World : master_workers_comm[s] = {} /\ workerless_masters_comm[s] = {}
  BY <1>0, <1>1, ShapeTypes DEF Arrangement, GroupsFit, MastersFit, Early
<1>4. \A r \in World : /\ bIsMaster'[r] <=> shape.nWorkers = 0
                       /\ learners_train_comm'[r] = IF shape.nWorkers = 0 THEN World ELSE {}
  BY <1>1
<1>5. \/ \A r \in World : pc'[r] = "died"
      \/ shape.nWorkers > 0 /\ \A r \in World : pc'[r] = "learners"
      \/ shape.nWorkers = 0 /\ nEnvironments < shape.nMasters /\ \A r \in World : pc'[r] = "dup"
      \/ shape.nWorkers = 0 /\ \A r \in World : pc'[r] = Arranged(r)
  <2>1. shape.nWorkers \in Nat
    BY <1>0, ShapeTypes
  <2> QED BY <1>1, <2>1
<1>6. \A r \in World : pc'[r] \in {"died", "learners", "dup", "env", "fork", "recv"}
  BY <1>5, ArrangedIs
<1>7. Tables'
  <2>1. pc' \in [World -> PCs]
    <3>1. \A r \in World : pc'[r] \in PCs
      BY <1>6 DEF PCs
    <3> QED BY <1>1, <3>1
  <2>2. bIsMaster' \in [World -> BOOLEAN]
    BY <1>1
  <2> QED BY <1>0, <1>1, <1>2, <2>1, <2>2 DEF Tables, syncVars
<1>8. GroupsFit'
  <2>1. \A r \in World : ~(shape.nWorkers > 0 /\ pc'[r] \notin Early \cup {"died"})
    BY <1>5 DEF Early
  <2> QED BY <1>1, <1>2, <1>3, <2>1 DEF GroupsFit
<1>9. MastersFit'
  <2>1. \A r \in World : workerless_masters_comm'[r] = {}
    BY <1>1, <1>3
  <2>2. Masters' = {r \in World : bIsMaster'[r]}
    BY <1>2 DEF Masters
  <2>3. ASSUME NEW r \in World, pc'[r] = "dup" PROVE Cardinality(Masters') >= 2
    <3>1. shape.nWorkers = 0 /\ nEnvironments < shape.nMasters
      BY <1>5, <2>3, ArrangedIs
    <3>2. Masters' = World
      BY <1>4, <2>2, <3>1
    <3>3. nEnvironments \in Nat \ {0} /\ shape.nMasters \in Nat
      BY <1>0, <3>1, ShapesAssumption DEF nEnvironments
    <3>4. Cardinality(World) = shape.nMasters
      <4>1. /\ 0 \in Int /\ shape.nMasters - 1 \in Int /\ ~(0 > shape.nMasters - 1)
            /\ (shape.nMasters - 1) - 0 + 1 = shape.nMasters
        BY <3>1, <3>3
      <4>2. World = 0 .. shape.nMasters - 1
        BY <3>1, <3>3 DEF World
      <4> QED BY <4>1, <4>2, FS_Interval
    <3> QED BY <3>1, <3>2, <3>3, <3>4
  <2>4. ASSUME NEW r \in Masters', pc'[r] \in {"workers", "dup"}
        PROVE  learners_train_comm'[r] = Masters'
    <3>1. shape.nWorkers = 0 /\ r \in World
      BY <1>4, <2>2, <2>4
    <3>2. Masters' = World
      BY <1>4, <2>2, <3>1
    <3> QED BY <1>4, <3>1, <3>2
  <2>5. \A r \in Masters' : r \in World
    BY <2>2
  <2> QED BY <1>2, <2>1, <2>3, <2>4, <2>5 DEF MastersFit
<1>10. AllEarly'
  BY <1>2, <1>5, ArrangedIs DEF AllEarly, Early
<1>11. PICK D, m : Course(D, m) /\ Ranks(D, m)
  BY DEF Described
<1>12. ASSUME NEW r \in World PROVE RankInv(r, D, m)'
  <2>0. Course(D, m) /\ UNCHANGED asked
    BY <1>1, <1>11
  <2>1. step[r] = 1 /\ heard[r] = 0 /\ received[r] = FALSE /\ environment[r] = Environment
    BY <1>0, <1>1, AllWait DEF Talking
  <2>2. step'[r] = 1 /\ heard'[r] = 0 /\ received'[r] = FALSE /\ environment'[r] = Environment
    BY <1>1, <2>1 DEF syncVars
  <2>3. CASE pc'[r] \in {"died", "learners"}
    <3>1. Kind(r)'
      BY <2>3 DEF Kind
    <3>2. pc'[r] \in Starting /\ (pc'[r] = "recv" => ~Forks(r)')
      BY <2>3 DEF Starting
    <3> QED BY <2>0, <2>2, <3>1, <3>2, AtStart
  <2>4. CASE pc'[r] \notin {"died", "learners"}
    <3>1. shape.nWorkers = 0 /\ pc'[r] \in {"dup", Arranged(r)}
      BY <1>5, <2>4
    <3>2. nForkedProcesses2spawn(r)' = nForkedProcesses2spawn(r)
      BY <1>2, <3>1
    <3>3. bIsMaster'[r] /\ pc'[r] # "env"
      BY <1>4, <3>1, ArrangedIs, ShapeTypes, <1>0
    <3>4. pc'[r] = "fork" => nForkedProcesses2spawn(r) > 0
      BY <3>1 DEF Arranged
    <3>5. pc'[r] = "recv" => ~(nForkedProcesses2spawn(r) > 0)
      BY <3>1 DEF Arranged
    <3>6. pc'[r] \in {"dup", "fork", "recv"}
      BY <1>6, <2>4, <3>3
    <3>7. Kind(r)' /\ (pc'[r] = "recv" => ~Forks(r)')
      BY <3>2, <3>3, <3>4, <3>5, <3>6 DEF Kind, Runs, Forks
    <3>8. pc'[r] \in Starting
      BY <3>6 DEF Starting
    <3> QED BY <2>0, <2>2, <3>7, <3>8, AtStart
  <2> QED BY <2>3, <2>4
<1>13. ASSUME NEW r \in World PROVE InStep(r)' /\ InStepMasters(r)'
  BY <1>1, <1>3 DEF InStep, InStepMasters, Workers
<1>14. Described'
  <2>1. Course(D, m)'
    BY <1>1, <1>11, CourseKept
  <2>2. Ranks(D, m)'
    BY <1>2, <1>12, <1>13 DEF Ranks
  <2> QED BY <2>1, <2>2 DEF Described
<1> QED BY <1>7, <1>8, <1>9, <1>10, <1>14 DEF Arrangement

LEMMA DescribedLearners ==
  ASSUME GroupsInv, Arrangement, Alive, Described, SplitLearners
  PROVE  Arrangement' /\ Described'
<1> DEFINE master == [r \in World |-> rankStripedMPISplitting(r) = 0]
<1>0. shape \in Shapes /\ Tables
  BY DEF GroupsInv, Arrangement
<1>1. /\ \A r \in World : pc[r] = "learners"
      /\ pc' = [r \in World |-> "workers"]
      /\ bIsMaster' = master /\ learners_train_comm' = SplitBy(master)
      /\ UNCHANGED <<shape, master_workers_comm, workerless_masters_comm>>
      /\ UNCHANGED asked /\ UNCHANGED <<step, heard, received, environment, client>>
  BY DEF SplitLearners, Together, syncVars
<1>2. World' = World
  BY <1>1 DEF World
<1>3. \A s \in World : master_workers_comm[s] = {} /\ workerless_masters_comm[s] = {}
  BY <1>0, <1>1, ShapeTypes DEF Arrangement, GroupsFit, MastersFit, Early
<1>4. master \in [World -> BOOLEAN]
  OBVIOUS
<1>5. \A r \in World : SplitBy(master)[r] = {s \in World : master[s] = master[r]}
  BY DEF SplitBy
<1> HIDE DEF master
<1>6. \A r \in World : pc'[r] = "workers"
  BY <1>1
<1>7. Tables'
  <2>1. pc' \in [World -> PCs]
    BY <1>1 DEF PCs
  <2> QED BY <1>0, <1>1, <1>2, <1>4, <2>1 DEF Tables
<1>8. GroupsFit'
  BY <1>1, <1>2, <1>3, <1>6 DEF GroupsFit, Early
<1>9. MastersFit'
  <2>1. \A r \in World : workerless_masters_comm'[r] = {}
    BY <1>1, <1>3
  <2>2. Masters' = {r \in World : master[r]}
    BY <1>1, <1>2 DEF Masters
  <2>3. ASSUME NEW r \in Masters' PROVE learners_train_comm'[r] = Masters'
    <3>1. r \in World /\ master[r] = TRUE
      BY <1>4, <2>2, <2>3
    <3>2. \A s \in World : (master[s] = master[r]) <=> master[s]
      BY <1>4, <3>1
    <3> QED BY <1>1, <1>5, <2>2, <3>1, <3>2
  <2>4. \A r \in Masters' : r \in World
    BY <2>2
  <2> QED BY <1>2, <1>6, <2>1, <2>3, <2>4 DEF MastersFit
<1>10. AllEarly'
  BY <1>2, <1>6 DEF AllEarly, Early
<1>11. PICK D, m : Course(D, m) /\ Ranks(D, m)
  BY DEF Described
<1>12. ASSUME NEW r \in World PROVE RankInv(r, D, m)'
  <2>1. step[r] = 1 /\ heard[r] = 0 /\ received[r] = FALSE /\ environment[r] = Environment
    BY <1>0, <1>1, AllWait DEF Talking
  <2>2. step'[r] = 1 /\ heard'[r] = 0 /\ received'[r] = FALSE /\ environment'[r] = Environment
    BY <1>1, <2>1
  <2>3. Kind(r)' /\ pc'[r] \in Starting /\ pc'[r] # "recv"
    BY <1>6 DEF Kind, Starting
  <2> QED BY <1>1, <1>11, <2>2, <2>3, AtStart
<1>13. ASSUME NEW r \in World PROVE InStep(r)' /\ InStepMasters(r)'
  BY <1>1, <1>3 DEF InStep, InStepMasters, Workers
<1>14. Described'
  <2>1. Course(D, m)'
    BY <1>1, <1>11, CourseKept
  <2>2. Ranks(D, m)'
    BY <1>2, <1>12, <1>13 DEF Ranks
  <2> QED BY <2>1, <2>2 DEF Described
<1> QED BY <1>7, <1>8, <1>9, <1>10, <1>14 DEF Arrangement

LEMMA DescribedGroups ==
  ASSUME GroupsInv, Arrangement, Alive, Described, SplitWorkers
  PROVE  Arrangement' /\ Described'
<1> DEFINE color == [r \in World |-> indxStripedMPISplitting(r)]
<1>0. shape \in Shapes /\ Tables
  BY DEF GroupsInv, Arrangement
<1>1. /\ \A r \in World : pc[r] = "workers"
      /\ pc' = [r \in World |-> IF bIsMaster[r] /\ shape.nWorkers < shape.nMasters
                               THEN "dup" ELSE Arranged(r)]
      /\ master_workers_comm' = SplitBy(color)
      /\ learners_train_comm' =
           [r \in World |-> IF bIsMaster[r] THEN learners_train_comm[r] ELSE {}]
      /\ UNCHANGED <<shape, bIsMaster, workerless_masters_comm>>
      /\ UNCHANGED asked /\ UNCHANGED <<step, heard, received, environment, client>>
  BY DEF SplitWorkers, Together, syncVars
<1>2. /\ World' = World /\ Masters' = Masters
      /\ \A r : nForkedProcesses2spawn(r)' = nForkedProcesses2spawn(r)
  BY <1>1 DEF World, Masters, nForkedProcesses2spawn, nEnvironments, notRoundedSplitting, CeilDiv,
              forkableApplication
<1>3. /\ Divided /\ shape.nWorkers \in Nat /\ shape.nWorkers > 0
      /\ \A s \in World : workerless_masters_comm[s] = {}
      /\ \A r \in Masters : learners_train_comm[r] = Masters
  <2>1. Divided /\ shape.nWorkers > 0
    BY <1>0, <1>1, ShapeTypes DEF GroupsInv
  <2>2. \A s \in World : workerless_masters_comm[s] = {}
    BY <1>0, <1>1, ShapeTypes DEF Arrangement, MastersFit, Early
  <2>3. \A r \in Masters : learners_train_comm[r] = Masters
    BY <1>1 DEF Arrangement, MastersFit, Masters
  <2> QED BY <1>0, <2>1, <2>2, <2>3, ShapeTypes
<1>4. \A r \in World : pc'[r] = IF bIsMaster[r] /\ shape.nWorkers < shape.nMasters
                                THEN "dup" ELSE Arranged(r)
  BY <1>1
<1>5. \A r \in World : pc'[r] \in {"dup", "env", "fork", "recv"}
  BY <1>4, ArrangedIs
<1>6. Grouped'
  <2>1. GroupsInv'
    BY SplitWorkersGroups
  <2>2. 0 \in World' /\ pc'[0] \notin Early \cup {"died"} /\ shape'.nWorkers > 0
    BY <1>0, <1>1, <1>2, <1>3, <1>5, ShapeTypes DEF Early
  <2> QED BY <2>1, <2>2 DEF GroupsInv
<1>7. /\ \A r \in World : bIsMaster'[r] <=> RankIn(master_workers_comm'[r], r) = 0
      /\ Cardinality(Masters) = shape.nMasters
  BY <1>1, <1>2, <1>6 DEF Grouped, Masters, RankIn
<1>8. \A r \in World : /\ r \in master_workers_comm'[r] /\ master_workers_comm'[r] \subseteq World
                       /\ \A s \in master_workers_comm'[r] :
                            master_workers_comm'[s] = master_workers_comm'[r]
  BY <1>1 DEF SplitBy
<1> HIDE DEF color
<1>9. Tables'
  <2>1. pc' \in [World -> PCs]
    <3>1. \A r \in World : pc'[r] \in PCs
      BY <1>5 DEF PCs
    <3> QED BY <1>1, <3>1
  <2> QED BY <1>0, <1>1, <1>2, <2>1 DEF Tables
<1>10. GroupsFit'
  <2>1. \A r \in World : pc'[r] \notin Early /\ master_workers_comm'[r] # {}
    BY <1>5, <1>8 DEF Early
  <2> QED BY <1>1, <1>2, <1>3, <1>7, <1>8, <2>1 DEF GroupsFit
<1>11. MastersFit'
  <2>1. \A r \in World : workerless_masters_comm'[r] = {}
    BY <1>1, <1>3
  <2>2. ASSUME NEW r \in World, pc'[r] = "dup" PROVE Cardinality(Masters) >= 2
    <3>1. shape.nWorkers < shape.nMasters
      BY <1>4, <2>2, ArrangedIs
    <3> QED BY <1>3, <1>7, <3>1 DEF Divided
  <2>3. \A r \in Masters : r \in World /\ learners_train_comm'[r] = Masters
    BY <1>1, <1>3 DEF Masters
  <2> QED BY <1>2, <2>1, <2>2, <2>3 DEF MastersFit
<1>12. AllEarly'
  BY <1>2, <1>5 DEF AllEarly, Early
<1>13. PICK D, m : Course(D, m) /\ Ranks(D, m)
  BY DEF Described
<1>14. ASSUME NEW r \in World
       PROVE  step[r] = 1 /\ heard[r] = 0 /\ received[r] = FALSE /\ environment[r] = Environment
  BY <1>0, <1>1, AllWait DEF Talking
<1>15. ASSUME NEW r \in World PROVE RankInv(r, D, m)'
  <2>1. step'[r] = 1 /\ heard'[r] = 0 /\ received'[r] = FALSE /\ environment'[r] = Environment
    BY <1>1, <1>14
  <2>2. pc'[r] = "dup" => bIsMaster[r]
    BY <1>4, ArrangedIs
  <2>3. pc'[r] # "dup" => pc'[r] = Arranged(r)
    BY <1>4
  <2>4. /\ Arranged(r) = "fork" => nForkedProcesses2spawn(r) > 0
        /\ Arranged(r) = "env" => ~(nForkedProcesses2spawn(r) > 0)
        /\ Arranged(r) = "recv" => bIsMaster[r] /\ ~(nForkedProcesses2spawn(r) > 0)
    BY <1>0, <1>3, ArrangedIs, ArrangedTo
  <2>5. (bIsMaster'[r] <=> bIsMaster[r]) /\ nForkedProcesses2spawn(r)' = nForkedProcesses2spawn(r)
    BY <1>1, <1>2
  <2>6. Kind(r)' /\ (pc'[r] = "recv" => ~Forks(r)')
    BY <1>5, <2>2, <2>3, <2>4, <2>5 DEF Kind, Runs, Forks
  <2>7. pc'[r] \in Starting
    BY <1>5 DEF Starting
  <2> QED BY <1>1, <1>13, <2>1, <2>6, <2>7, AtStart
<1>16. ASSUME NEW r \in World, bIsMaster[r] PROVE InStep(r)' /\ InStepMasters(r)'
  <2>1. ASSUME NEW w \in Workers(r)' PROVE OneAhead(w, r, HeardFrom(r, w))'
    <3>1. w \in master_workers_comm'[r] /\ ~bIsMaster'[w]
      BY <2>1 DEF Workers
    <3>2. w \in World /\ master_workers_comm'[w] = master_workers_comm'[r]
      BY <1>8, <3>1
    <3>3. RankIn(master_workers_comm'[r], w) # 0
      BY <1>7, <3>1, <3>2
    <3>4. RankIn(master_workers_comm'[r], w) \in Nat
      BY <1>0, <1>8, <3>1, RanksInOrder
    <3>5. step'[w] = 1 /\ step'[r] = 1 /\ heard'[r] = 0
      BY <1>1, <1>14, <3>2
    <3> QED BY <1>5, <3>3, <3>4, <3>5 DEF OneAhead, HeardFrom
  <2>2. workerless_masters_comm'[r] = {}
    BY <1>1, <1>3
  <2> QED BY <2>1, <2>2 DEF InStep, InStepMasters
<1>17. Described'
  <2>1. Course(D, m)'
    BY <1>1, <1>13, CourseKept
  <2>2. Ranks(D, m)'
    BY <1>1, <1>2, <1>15, <1>16 DEF Ranks
  <2> QED BY <2>1, <2>2 DEF Described
<1> QED BY <1>9, <1>10, <1>11, <1>12, <1>17 DEF Arrangement

\* Ranks that are no master do not use the communicator of the masters.
LEMMA WorkerStill ==
  ASSUME shape \in Shapes,
         NEW D, NEW m, NEW r \in World, RankInv(r, D, m), Still(r), ~bIsMaster[r],
         UNCHANGED <<shape, bIsMaster, master_workers_comm, asked>>
  PROVE  RankInv(r, D, m)'
<1>1. nForkedProcesses2spawn(r)' = nForkedProcesses2spawn(r)
  BY DEF nForkedProcesses2spawn, nEnvironments, notRoundedSplitting, CeilDiv,
         forkableApplication
<1>2. /\ Forks(r)' <=> Forks(r)
      /\ Runs(r)' <=> Runs(r)
      /\ ~Starved(r) /\ ~Starved(r)' /\ ~bIsMaster'[r]
  BY <1>1 DEF Forks, Runs, Starved
<1>3. Kind(r)'
  BY <1>2 DEF RankInv, Kind, Still
<1>4. Waits(r)'
  BY DEF RankInv, Waits, Still, Talking
<1>5. Known(r)' = Known(r) /\ nFields(asked)' = nFields(asked)
  BY DEF Known, Still
<1>6. FollowsRun(r, D, m)' /\ Follows(r, D, m)'
  BY <1>2, <1>5 DEF RankInv, FollowsRun, Follows, Still
<1>7. Starves(r)'
  BY <1>2 DEF Starves
<1>8. Hears(r)'
  <2>1. pc[r] = "recv" => Forks(r)
    BY <1>2, ForkedIs DEF RankInv, Kind, Runs, Forks
  <2>2. pc[r] # "relay"
    BY DEF RankInv, Kind
  <2> QED BY <1>2, <2>1, <2>2 DEF RankInv, Hears, Still
<1> QED BY <1>3, <1>4, <1>6, <1>7, <1>8 DEF RankInv

LEMMA DescribedMasters ==
  ASSUME GroupsInv, Arrangement, Alive, Described, DupWorkerless
  PROVE  Arrangement' /\ Described'
<1>0. shape \in Shapes /\ Tables /\ pc \in [World -> PCs]
  BY DEF GroupsInv, Arrangement
<1>1. /\ Masters # {} /\ \A r \in Masters : r \in World /\ bIsMaster[r] /\ pc[r] = "dup"
      /\ pc' = [r \in World |-> IF r \in Masters THEN Arranged(r) ELSE pc[r]]
      /\ workerless_masters_comm' = [r \in World |-> learners_train_comm[r]]
      /\ UNCHANGED <<shape, bIsMaster, learners_train_comm, master_workers_comm>>
      /\ UNCHANGED asked /\ UNCHANGED <<step, heard, received, environment, client>>
  BY DEF DupWorkerless, Together, Masters, syncVars
<1>2. /\ World' = World /\ Masters' = Masters
      /\ \A r : Workers(r)' = Workers(r)
      /\ \A r : nForkedProcesses2spawn(r)' = nForkedProcesses2spawn(r)
  BY <1>1 DEF World, Masters, Workers, nForkedProcesses2spawn, nEnvironments, notRoundedSplitting,
              CeilDiv, forkableApplication
<1>3. /\ \A r \in Masters : pc'[r] = Arranged(r) /\ pc'[r] \in {"env", "fork", "recv"}
      /\ \A r \in World : r \notin Masters => pc'[r] = pc[r]
  BY <1>1, ArrangedIs
<1>4. /\ Cardinality(Masters) >= 2
      /\ \A r \in Masters : workerless_masters_comm'[r] = Masters
  BY <1>1 DEF Arrangement, MastersFit
<1>5. PICK D, m : Course(D, m) /\ Ranks(D, m)
  BY DEF Described
<1>6. \A r \in World : pc'[r] \notin Early \cup {"dup"}
  <2> SUFFICES ASSUME NEW r \in World PROVE pc'[r] \notin Early \cup {"dup"}
    OBVIOUS
  <2>1. CASE r \in Masters
    BY <1>3, <2>1 DEF Early
  <2>2. CASE r \notin Masters
    <3>1. pc[r] # "dup"
      BY <1>5, <2>2 DEF Ranks, RankInv, Kind, Masters
    <3>2. pc[r] \notin Early
      <4>1. PICK s \in Masters : s \in World /\ pc[s] = "dup"
        BY <1>1
      <4> QED BY <4>1 DEF Arrangement, AllEarly, Early
    <3> QED BY <1>3, <2>2, <3>1, <3>2
  <2> QED BY <2>1, <2>2
<1>7. Tables'
  <2>1. pc' \in [World -> PCs]
    <3>1. \A r \in World : pc'[r] \in PCs
      BY <1>0, <1>3 DEF PCs
    <3> QED BY <1>1, <3>1
  <2> QED BY <1>0, <1>1, <1>2, <2>1 DEF Tables
<1>8. GroupsFit'
  <2>1. \A r \in World : pc'[r] \notin Early
    BY <1>6
  <2>2. \A r \in World : shape.nWorkers > 0 /\ pc'[r] # "died" => master_workers_comm[r] # {}
    <3>1. \A r \in World : pc[r] \notin Early
      BY <1>1, <1>6, <1>3 DEF Early
    <3> QED BY <3>1 DEF Arrangement, GroupsFit, Alive
  <2> QED BY <1>1, <1>2, <2>1, <2>2 DEF Arrangement, GroupsFit
<1>9. MastersFit'
  <2>1. \A r \in Masters : r \in World
    BY <1>1
  <2>2. \A r \in World : pc'[r] # "dup" /\ pc'[r] # "workers"
    BY <1>6 DEF Early
  <2> QED BY <1>2, <1>4, <1>6, <2>1, <2>2 DEF MastersFit
<1>10. AllEarly'
  BY <1>2, <1>6 DEF AllEarly
<1>11. ASSUME NEW r \in Masters
       PROVE  /\ step'[r] = 1 /\ heard'[r] = 0 /\ received'[r] = FALSE
              /\ environment'[r] = Environment /\ step[r] = 1
  <2>1. step[r] = 1 /\ heard[r] = 0 /\ received[r] = FALSE /\ environment[r] = Environment
    <3>1. r \in World /\ pc[r] \notin Talking \cup {"died"}
      BY <1>1 DEF Talking
    <3>2. RankInv(r, D, m)
      BY <1>5, <3>1 DEF Ranks
    <3> QED BY <1>0, <3>1, <3>2, WaitingRank DEF Tables
  <2> QED BY <1>1, <2>1
<1>12. ASSUME NEW r \in World PROVE RankInv(r, D, m)'
  <2>1. CASE r \in Masters
    <3>1. pc'[r] = Arranged(r) /\ pc'[r] \in {"env", "fork", "recv"}
      BY <1>3, <2>1
    <3>2. /\ Arranged(r) = "fork" => nForkedProcesses2spawn(r) > 0
          /\ Arranged(r) = "env" => ~(nForkedProcesses2spawn(r) > 0)
          /\ Arranged(r) = "recv" => ~(nForkedProcesses2spawn(r) > 0)
      BY <1>0, ArrangedIs, ArrangedTo
    <3>3. bIsMaster'[r] /\ nForkedProcesses2spawn(r)' = nForkedProcesses2spawn(r)
      BY <1>1, <1>2, <2>1
    <3>4. Kind(r)' /\ (pc'[r] = "recv" => ~Forks(r)')
      BY <3>1, <3>2, <3>3 DEF Kind, Runs, Forks
    <3>5. pc'[r] \in Starting
      BY <3>1 DEF Starting
    <3> QED BY <1>1, <1>5, <1>11, <2>1, <3>4, <3>5, AtStart
  <2>2. CASE r \notin Masters
    <3>1. ~bIsMaster[r] /\ Still(r) /\ RankInv(r, D, m)
      BY <1>1, <1>3, <1>5, <2>2 DEF Masters, Still, Ranks
    <3> QED BY <1>0, <1>1, <3>1, WorkerStill
  <2> QED BY <2>1, <2>2
<1>13. ASSUME NEW r \in World, bIsMaster[r] PROVE InStep(r)' /\ InStepMasters(r)'
  <2>0. r \in Masters /\ pc[r] = "dup" /\ pc'[r] \in {"env", "fork", "recv"} /\ heard'[r] = 0
    BY <1>1, <1>3, <1>11, <1>13 DEF Masters
  <2>1. ASSUME NEW w \in Workers(r) PROVE OneAhead(w, r, HeardFrom(r, w))'
    <3>1. /\ w \in World /\ RankIn(master_workers_comm[r], w) \in Nat \ {0} /\ ~bIsMaster[w]
      BY <1>0, <1>13, WorkersAre DEF Workers
    <3>2. ~HeardFrom(r, w) /\ ~HeardFrom(r, w)'
      <4>1. master_workers_comm'[r] = master_workers_comm[r]
        BY <1>1
      <4> QED BY <2>0, <3>1, <4>1 DEF HeardFrom
    <3>3. OneAhead(w, r, FALSE)
      <4>1. OneAhead(w, r, HeardFrom(r, w))
        BY <1>5, <1>13 DEF Ranks, InStep
      <4> QED BY <3>2, <4>1 DEF OneAhead
    <3>4. pc[w] # "died" /\ pc[r] # "died"
      BY <3>1 DEF Alive
    <3>5. step[w] = step[r] + 0
      BY <3>3, <3>4 DEF OneAhead
    <3> QED BY <1>1, <3>2, <3>5 DEF OneAhead
  <2>2. InStep(r)'
    BY <1>2, <2>1 DEF InStep
  <2>3. ASSUME NEW s \in Masters PROVE OneAhead(s, r, Told(r, s))'
    <3>1. step'[s] = 1 /\ step'[r] = 1 /\ pc'[r] # "relay"
      BY <1>11, <2>0, <2>3
    <3> QED BY <3>1 DEF OneAhead, Told
  <2>4. InStepMasters(r)'
    BY <1>4, <2>0, <2>3 DEF InStepMasters
  <2> QED BY <2>2, <2>4
<1>14. Described'
  <2>1. Course(D, m)'
    BY <1>1, <1>5, CourseKept
  <2>2. Ranks(D, m)'
    BY <1>1, <1>2, <1>12, <1>13 DEF Ranks
  <2> QED BY <2>1, <2>2 DEF Described
<1> QED BY <1>7, <1>8, <1>9, <1>10, <1>14 DEF Arrangement

------------------------------------------------------------------------------
(* The exchange of a field                                                  *)

\* A rank leaves the exchange of a field, that it has in e.
LeavesWith(q, e) ==
  /\ environment'[q] = Advanced(e, step[q]) /\ step'[q] = step[q] + 1
  /\ heard'[q] = 0 /\ received'[q] = FALSE /\ client'[q] = client[q]
  /\ pc'[q] = IF environment'[q].died THEN "died"
              ELSE IF step[q] = nFields(environment'[q]) THEN "running"
              ELSE Begin(q)

LEMMA LeaveIs ==
  ASSUME Tables, NEW done, NEW e, NEW h \in [World -> Nat], NEW got \in [World -> BOOLEAN],
         Leave(done, e, h, got), IsRecordOf(e, World)
  PROVE  /\ \A q \in World : q \in done => LeavesWith(q, e[q])
         /\ \A q \in World : q \notin done =>
              /\ pc'[q] = pc[q] /\ step'[q] = step[q] /\ heard'[q] = h[q]
              /\ received'[q] = got[q] /\ environment'[q] = e[q] /\ client'[q] = client[q]
         /\ step' \in [World -> Nat \ {0}] /\ heard' \in [World -> Nat]
         /\ received' \in [World -> BOOLEAN] /\ pc' \in [World -> PCs]
         /\ IsRecordOf(environment', World) /\ IsRecordOf(client', World)
<1>1. PICK left \in {[r \in done |-> Advanced(e[r], step[r])]} :
        /\ environment' = [r \in World |-> IF r \in done THEN left[r] ELSE e[r]]
        /\ step' = [r \in World |-> IF r \in done THEN step[r] + 1 ELSE step[r]]
        /\ heard' = [r \in World |-> IF r \in done THEN 0 ELSE h[r]]
        /\ received' = [r \in World |-> r \notin done /\ got[r]]
        /\ pc' = [r \in World |-> IF r \notin done THEN pc[r]
                                  ELSE IF left[r].died THEN "died"
                                  ELSE IF step[r] = nFields(left[r]) THEN "running"
                                  ELSE Begin(r)]
        /\ UNCHANGED client
  BY DEF Leave
<1>2. \A q \in done : left[q] = Advanced(e[q], step[q])
  BY <1>1
<1>3. ASSUME NEW q \in World, q \in done PROVE LeavesWith(q, e[q])
  BY <1>1, <1>2, <1>3 DEF LeavesWith
<1>4. ASSUME NEW q \in World, q \notin done
      PROVE  /\ pc'[q] = pc[q] /\ step'[q] = step[q] /\ heard'[q] = h[q]
             /\ received'[q] = got[q] /\ environment'[q] = e[q] /\ client'[q] = client[q]
  <2>1. got[q] \in BOOLEAN
    OBVIOUS
  <2>2. received'[q] = (q \notin done /\ got[q])
    BY <1>1
  <2>3. received'[q] = got[q]
    BY <1>4, <2>1, <2>2
  <2> QED BY <1>1, <1>4, <2>3
<1>5. step' \in [World -> Nat \ {0}] /\ heard' \in [World -> Nat]
  BY <1>1 DEF Tables
<1>6. received' \in [World -> BOOLEAN]
  BY <1>1
<1>7. pc' \in [World -> PCs]
  <2>1. \A q \in World : Begin(q) \in PCs /\ pc[q] \in PCs /\ "died" \in PCs /\ "running" \in PCs
    BY DEF Begin, PCs, Tables
  <2> QED BY <1>1, <2>1
<1>8. IsRecordOf(environment', World) /\ IsRecordOf(client', World)
  BY <1>1 DEF IsRecordOf, Tables
<1> QED BY <1>3, <1>4, <1>5, <1>6, <1>7, <1>8

\* The last field is the same for all that agree on the second.
LEMMA LastField ==
  ASSUME NEW D, NEW m, Course(D, m), NEW k \in Nat \ {0}, k + 1 <= m, k <= nFields(asked),
         NEW e, Filled(e, k), ~e.died, Same(e, D[k], k)
  PROVE  /\ Filled(Advanced(e, k), k + 1) /\ k <= nFields(e)
         /\ k = nFields(Advanced(e, k)) <=> k = nFields(asked)
<1>1. k \in 1 .. m /\ k \in 1 .. m - 1
  BY DEF Course
<1>2. nFields(D[k]) = nFields(asked) /\ Filled(D[k], k)
  BY <1>1 DEF Course
<1>3. nFields(e) \in Nat /\ nFields(e) >= 9 /\ nFields(asked) \in Nat /\ nFields(asked) >= 9
  BY <1>2, InDescription DEF Filled
<1>4. k >= 2 => nFields(e) = nFields(asked)
  BY <1>2, SameDescriptors
<1>5. k <= nFields(e)
  BY <1>3, <1>4
<1>6. Filled(Advanced(e, k), k + 1) /\ nFields(Advanced(e, k)) = nFields(e)
  BY <1>5, AdvancedFilled
<1> QED BY <1>3, <1>4, <1>5, <1>6

\* The course of an application, in a rank that runs it.
LEMMA LeavesRun ==
  ASSUME shape \in Shapes, SameComms, UNCHANGED asked,
         NEW D, NEW m, Course(D, m), NEW q \in World, NEW k \in Nat \ {0}, k = step[q],
         Runs(q), ~D[k].died, LeavesWith(q, D[k]), k + 1 <= m, k <= nFields(asked)
  PROVE  RankInv(q, D, m)'
<1>1. k \in 1 .. m /\ k \in 1 .. m - 1
  BY DEF Course
<1>2. Filled(D[k], k) /\ D[k + 1] = Advanced(D[k], k)
  BY <1>1 DEF Course
<1>3. /\ environment'[q] = D[k + 1] /\ step'[q] = k + 1 /\ received'[q] = FALSE
      /\ pc'[q] = IF environment'[q].died THEN "died"
                  ELSE IF k = nFields(environment'[q]) THEN "running" ELSE Begin(q)
  BY <1>2 DEF LeavesWith
<1>4. Runs(q)' /\ ~bIsMaster'[q] /\ ~Forks(q)' /\ Begin(q) = "send" /\ ~Starved(q)'
  <2>1. ~bIsMaster[q] /\ nForkedProcesses2spawn(q) = 0 /\ ~Forks(q)
    BY DEF Runs, Forks
  <2> QED BY <2>1, SameRoles DEF SameComms, Begin, Starved
<1>5. k = nFields(D[k + 1]) <=> k = nFields(asked)
  BY <1>2, SameRefl, LastField
<1>6. CASE environment'[q].died
  BY <1>3, <1>6, RankDead
<1>7. CASE ~environment'[q].died
  <2>1. pc'[q] = IF k = nFields(asked) THEN "running" ELSE "send"
    BY <1>3, <1>4, <1>5, <1>7
  <2>2. nFields(asked) \in Nat /\ nFields(asked)' = nFields(asked)
    BY FieldsAsked
  <2>3. FollowsRun(q, D, m)'
    BY <1>3, <1>7, <2>1, <2>2 DEF FollowsRun
  <2>4. Waits(q)' /\ Kind(q)' /\ Follows(q, D, m)' /\ Starves(q)' /\ Hears(q)'
    BY <1>4, <2>1 DEF Waits, Talking, Kind, Follows, Starves, Hears
  <2> QED BY <2>3, <2>4 DEF RankInv
<1> QED BY <1>6, <1>7

\* And in a rank that has got the field.
LEMMA Leaves ==
  ASSUME shape \in Shapes, SameComms, UNCHANGED asked,
         NEW D, NEW m, Course(D, m), NEW q \in World, NEW k \in Nat \ {0}, k = step[q],
         ~Runs(q), ~Starved(q), NEW e, LeavesWith(q, e), k + 1 <= m, k <= nFields(asked),
         Filled(e, k), ~e.died, Same(e, D[k], k), ~D[k].died,
         Forks(q) => client[q] = D[k + 1]
  PROVE  RankInv(q, D, m)'
<1> DEFINE w == Advanced(e, k)
<1>1. k \in 1 .. m /\ k \in 1 .. m - 1
  BY DEF Course
<1>2. Filled(D[k], k) /\ D[k + 1] = Advanced(D[k], k) /\ nFields(D[k]) = nFields(asked)
  BY <1>1 DEF Course
<1>3. /\ environment'[q] = w /\ step'[q] = k + 1 /\ received'[q] = FALSE /\ heard'[q] = 0
      /\ client'[q] = client[q]
      /\ pc'[q] = IF w.died THEN "died" ELSE IF k = nFields(w) THEN "running" ELSE Begin(q)
  BY DEF LeavesWith
<1>4. ~Runs(q)' /\ ~Starved(q)' /\ Begin(q) = "recv" /\ (Forks(q)' <=> Forks(q))
  BY SameRoles DEF Begin, Runs
<1>5. Filled(w, k + 1) /\ (k = nFields(w) <=> k = nFields(asked)) /\ k <= nFields(e)
  BY LastField
<1>6. ~w.died => Same(w, D[k + 1], k)
  BY <1>2, <1>5, AdvancedSame
<1>l. ~w.died /\ k = nFields(asked) => ~D[k + 1].died
  BY <1>2, <1>5, LastAgrees
<1> HIDE DEF w
<1>7. CASE w.died
  BY <1>3, <1>7, RankDead
<1>8. CASE ~w.died
  <2>1. pc'[q] = IF k = nFields(asked) THEN "running" ELSE "recv"
    BY <1>3, <1>4, <1>5, <1>8
  <2>2. nFields(asked) \in Nat /\ nFields(asked)' = nFields(asked)
    BY FieldsAsked
  <2>3. Known(q)' = k
    BY <1>3 DEF Known
  <2>4. Follows(q, D, m)'
    BY <1>3, <1>4, <1>5, <1>6, <1>l, <1>8, <2>1, <2>2, <2>3 DEF Follows
  <2>5. Waits(q)' /\ Kind(q)' /\ FollowsRun(q, D, m)' /\ Starves(q)' /\ Hears(q)'
    BY <1>3, <1>4, <2>1 DEF Waits, Talking, Kind, FollowsRun, Starves, Hears
  <2> QED BY <2>4, <2>5 DEF RankInv
<1> QED BY <1>7, <1>8

\* Nothing arrives at a master that nobody sends anything: it has the description that it
\* was made with, and finds that as an error of the application at the dimensions.
Bare(e) ==
  /\ IsDescription(e) /\ ~e.died /\ e.nAgentsPerEnvironment = 1 /\ ~e.separate
  /\ Len(e.mdps) = 1 /\ e.mdps[1].dimAction = 0

LEMMA FirstDescriptor ==
  ASSUME NEW e
  PROVE  mdpOf(4) = 1 /\ Field(e, 4) = "dims"
<1>1. mdpOf(4) \in Nat \ {0} /\ PlaceOf(4) \in 1 .. 6 /\ 4 = 6 * (mdpOf(4) - 1) + 3 + PlaceOf(4)
  <2>1. 4 \in Nat /\ 4 > 3
    OBVIOUS
  <2> QED BY <2>1, Places
<1>2. mdpOf(4) = 1 /\ PlaceOf(4) = 1
  BY <1>1
<1>3. Field(e, 4) = FieldAt(e.mdps[mdpOf(4)], PlaceOf(4))
  <2>1. 4 \in Nat \ {0} /\ 4 > 3
    OBVIOUS
  <2> QED BY <2>1, FieldIs
<1> QED BY <1>2, <1>3, FieldsAt

LEMMA BareFields ==
  ASSUME NEW e, Bare(e)
  PROVE  nDescriptors(e) = 1 /\ nFields(e) = 9
<1>1. nDescriptors(e) = 1
  BY DEF Bare, nDescriptors
<1> QED BY <1>1, NumbersOfFields

LEMMA BareGoesOn ==
  ASSUME NEW e, Bare(e), NEW k \in 1 .. 3
  PROVE  Bare(Advanced(e, k)) /\ k # nFields(Advanced(e, k))
<1>e. EnvironmentFields = {"nAgentsPerEnvironment", "separate", "distributed", "tracked", "mdps", "died"}
      /\ DOMAIN Environment = EnvironmentFields
  BY EnvironmentHas DEF EnvironmentFields
<1> DEFINE s == Settled(e, k)
<1>1. Bare(s)
  <2>1. CASE k < 3
    BY <2>1, SettledIs DEF Bare
  <2>2. CASE k = 3
    <3> DEFINE l == Resized(e.mdps, 1, e.mdps[1])
    <3>1. nDescriptors(e) = 1 /\ IsDescription(e) /\ ~(Len(e.mdps) > 1)
      BY BareFields DEF Bare
    <3>2. s = [e EXCEPT !.mdps = l]
      BY <2>2, <3>1, SettledIs DEF initDescriptors
    <3>3. Len(l) = 1 /\ l[1] = e.mdps[1]
      <4>1. 1 \in Nat /\ 1 \in 1 .. 1 /\ 1 <= Len(e.mdps)
        BY DEF Bare
      <4> QED BY <4>1, ResizedToOne
    <3>4. ~s.died /\ IsDescription(s)
      <4>1. s = initDescriptors(e)
        BY <2>2, <3>1, SettledIs
      <4>2. IsDescription(initDescriptors(e))
        BY InitDescriptorsFacts DEF Bare
      <4>3. s.died = e.died
        BY <1>e, <3>1, <3>2 DEF IsDescription, IsRecordOf
      <4> QED BY <4>1, <4>2, <4>3 DEF Bare
    <3> HIDE DEF l
    <3>5. s.mdps = l /\ s.nAgentsPerEnvironment = e.nAgentsPerEnvironment /\ s.separate = e.separate
      BY <1>e, <3>1, <3>2 DEF IsDescription, IsRecordOf
    <3> HIDE DEF s
    <3> QED BY <3>3, <3>4, <3>5 DEF Bare
  <2> QED BY <2>1, <2>2
<1> HIDE DEF s
<1>2. nFields(s) = 9 /\ nDescriptors(s) = 1
  BY <1>1, BareFields
<1>3. Advanced(e, k) = Prepared(s, k + 1)
  BY <1>1, <1>2 DEF Advanced, s, Bare
<1>4. Bare(Prepared(s, k + 1))
  <2> DEFINE w == Prepared(s, k + 1)
  <2>1. CASE k = 1
    <3>1. Field(s, 2) = "separate" /\ 2 <= Len(EnvFields)
      BY FieldIs, NumbersOfFields
    <3>2. Prepared(s, 2) = s
      BY <3>1 DEF Prepared
    <3>3. w = s
      <4>1. k + 1 = 2
        BY <2>1
      <4> QED BY <3>2, <4>1
    <3> QED BY <1>1, <3>3
  <2>2. CASE k = 2
    <3> DEFINE t == Resized(s.tracked, s.nAgentsPerEnvironment, TRUE)
    <3>1. Field(s, 3) = "tracked"
      BY FieldIs
    <3>2. w = [s EXCEPT !.tracked = t]
      BY <2>2, <3>1 DEF Prepared
    <3> HIDE DEF w, t
    <3>3. /\ IsRecordOf(w, EnvironmentFields) /\ w.mdps = s.mdps /\ w.died = s.died
          /\ w.nAgentsPerEnvironment = s.nAgentsPerEnvironment /\ w.separate = s.separate
      BY <1>e, <1>1, <3>2 DEF Bare, IsDescription, IsRecordOf
    <3>4. IsDescription(w)
      BY <1>1, <3>3, WithParts DEF Bare, IsDescription
    <3> QED BY <1>1, <3>3, <3>4 DEF Bare, w
  <2>3. CASE k = 3
    <3> DEFINE a == s.mdps[1]
    <3>1. Field(s, 4) = "dims" /\ mdpOf(4) = 1 /\ ~(4 <= Len(EnvFields))
      BY FirstDescriptor, NumbersOfFields
    <3>2. PreparedMDP(a, "dims") = a
      BY DEF PreparedMDP
    <3>3. w = [s EXCEPT !.mdps[1] = a]
      BY <2>3, <3>1, <3>2 DEF Prepared
    <3>4. IsDescription(s) /\ 1 \in 1 .. Len(s.mdps) /\ IsMDP(a)
      BY <1>1, InDescription DEF Bare
    <3>5. Replaces(w, s, 1, a)
      <4>1. Replaces([s EXCEPT !.mdps[1] = a], s, 1, a)
        BY <3>4, MDPReplaced
      <4> HIDE DEF w, a
      <4> QED BY <3>3, <4>1
    <3> HIDE DEF w
    <3>6. /\ IsDescription(w) /\ Len(w.mdps) = Len(s.mdps)
          /\ w.nAgentsPerEnvironment = s.nAgentsPerEnvironment /\ w.separate = s.separate
          /\ w.died = s.died
      BY <3>4, <3>5, WithMDP
    <3>7. w.mdps[1] = s.mdps[1]
      BY <3>5 DEF Replaces
    <3> QED BY <1>1, <3>6, <3>7 DEF Bare, w
  <2> QED BY <2>1, <2>2, <2>3
<1>5. nFields(Advanced(e, k)) = 9
  BY <1>3, <1>4, BareFields
<1> QED BY <1>3, <1>4, <1>5

LEMMA BareFails ==
  ASSUME NEW e, Bare(e)
  PROVE  Advanced(e, 4).died
<1>e. EnvironmentFields = {"nAgentsPerEnvironment", "separate", "distributed", "tracked", "mdps", "died"}
      /\ DOMAIN Environment = EnvironmentFields
  BY EnvironmentHas DEF EnvironmentFields
<1>1. Field(e, 4) = "dims" /\ mdpOf(4) = 1
  BY FirstDescriptor
<1>2. Fails(e, 4)
  BY <1>1 DEF Bare, Fails, Wrong
<1>3. Settled(e, 4) = [e EXCEPT !.died = TRUE]
  <2>1. 4 \in Nat \ {0} /\ 4 > 3
    OBVIOUS
  <2> QED BY <1>2, <2>1, SettledIs DEF Bare
<1>4. Settled(e, 4).died
  BY <1>e, <1>3 DEF Bare, IsDescription, IsRecordOf
<1> QED BY <1>4 DEF Advanced

LEMMA LeavesStarved ==
  ASSUME shape \in Shapes, SameComms, UNCHANGED asked,
         NEW D, NEW m, Course(D, m), NEW q \in World, NEW k \in Nat \ {0}, k = step[q], k <= 4,
         Starved(q), NEW e, Bare(e), Filled(e, k), LeavesWith(q, e)
  PROVE  RankInv(q, D, m)'
<1>1. /\ environment'[q] = Advanced(e, k) /\ step'[q] = k + 1
      /\ received'[q] = FALSE /\ heard'[q] = 0
      /\ pc'[q] = IF environment'[q].died THEN "died"
                  ELSE IF k = nFields(environment'[q]) THEN "running" ELSE Begin(q)
  BY DEF LeavesWith
<1>2. CASE k = 4
  BY <1>1, <1>2, BareFails, RankDead
<1>3. CASE k < 4
  <2>1. k \in 1 .. 3
    BY <1>3
  <2>2. Bare(environment'[q]) /\ k # nFields(environment'[q])
    BY <1>1, <2>1, BareGoesOn
  <2>3. Filled(environment'[q], k + 1)
    <3>1. k <= nFields(e) /\ ~e.died
      BY <2>1, BareFields DEF Bare
    <3> QED BY <1>1, <3>1, AdvancedFilled
  <2>4. bIsMaster[q] /\ Begin(q) = "recv" /\ ~Forks(q) /\ ~Runs(q)
    BY DEF Starved, Begin, Runs
  <2>5. pc'[q] = "recv" /\ Starved(q)' /\ ~Forks(q)' /\ ~Runs(q)'
    BY <1>1, <2>2, <2>4, SameRoles DEF Bare
  <2>6. Starves(q)'
    BY <1>1, <2>1, <2>2, <2>3, <2>5 DEF Starves, Bare
  <2>7. Waits(q)' /\ Kind(q)' /\ FollowsRun(q, D, m)' /\ Follows(q, D, m)' /\ Hears(q)'
    BY <1>1, <2>5 DEF Waits, Talking, Kind, FollowsRun, Follows, Hears
  <2> QED BY <2>6, <2>7 DEF RankInv
<1> QED BY <1>2, <1>3

\* A step of the exchange changes no group.
LEMMA Exchanged ==
  ASSUME Arrangement, SameComms, UNCHANGED asked, Tables',
         \A r \in World : pc'[r] # pc[r] =>
           pc[r] \notin Early \cup {"died"} /\ pc'[r] \notin Early \cup {"dup"},
         NEW D, NEW m, Course(D, m), \A r \in World : RankInv(r, D, m)',
         \A r \in World : bIsMaster[r] => InStep(r)' /\ InStepMasters(r)'
  PROVE  Arrangement' /\ Described'
<1>1. Arrangement'
  BY ArrangementKept
<1>2. World' = World /\ bIsMaster' = bIsMaster
  BY SameRoles DEF SameComms
<1>3. Course(D, m)' /\ Ranks(D, m)'
  BY <1>2, CourseKept DEF Ranks
<1> QED BY <1>1, <1>3 DEF Described

\* Who is the first of the masters has no other of that number.
LEMMA FirstMaster ==
  ASSUME Arrangement, shape \in Shapes, NEW r \in World, bIsMaster[r],
         RankIn(workerless_masters_comm[r], r) = 0,
         NEW s \in workerless_masters_comm[r] \ {r}
  PROVE  RankIn(workerless_masters_comm[r], s) \in Nat \ {0}
<1> DEFINE C == workerless_masters_comm[r]
<1>1. C = Masters /\ C \subseteq World /\ r \in C /\ s \in C
  BY OtherMasters DEF Masters
<1> HIDE DEF C
<1>2. RankIn(C, s) \in Nat /\ (RankIn(C, r) = RankIn(C, s) => r = s)
  BY <1>1, RanksInOrder
<1> QED BY <1>2 DEF C

\* A rank that is ready to relay has another to tell.
LEMMA SomeoneToTell ==
  ASSUME Arrangement, shape \in Shapes, NEW r \in World, bIsMaster[r],
         workerless_masters_comm[r] # {}
  PROVE  0 + 2 <= Cardinality(workerless_masters_comm[r])
BY DEF Arrangement, MastersFit, Masters

\* The client of a socket has the field, as all masters and workers get it.
LEMMA DescribedHost ==
  ASSUME GroupsInv, Arrangement, Alive, Described, NEW r \in World, HostRecv(r)
  PROVE  Arrangement' /\ Described'
<1>0. shape \in Shapes /\ Tables /\ pc \in [World -> PCs]
  BY DEF GroupsInv, Arrangement
<1>1. pc[r] = "recv" /\ Forks(r) /\ SameComms /\ UNCHANGED <<asked, step, heard>>
  BY DEF HostRecv, unchangedBySync, SameComms, comms, Forks
<1>2. CASE client[r].died
  <2>1. pc' = [pc EXCEPT ![r] = "died"] /\ UNCHANGED <<asked, syncVars>>
    BY <1>1, <1>2 DEF HostRecv, syncVars
  <2>2. pc[r] \notin Early
    BY <1>1 DEF Early
  <2> QED BY <1>0, <1>1, <2>1, <2>2, OneDies
<1>3. CASE ~client[r].died
  <2> DEFINE k == step[r]
             e == environment[r]
             w == Stored(e, k, Value(client[r], k))
             to == IF bIsMaster[r] THEN "relay" ELSE "send"
  <2>1. /\ environment' = [environment EXCEPT ![r] = w]
        /\ client' = [client EXCEPT ![r] = Advanced(client[r], k)]
        /\ received' = [received EXCEPT ![r] = TRUE]
        /\ pc' = [pc EXCEPT ![r] = to]
    BY <1>3 DEF HostRecv
  <2>2. /\ environment'[r] = w /\ client'[r] = Advanced(client[r], k) /\ received'[r] = TRUE
        /\ pc'[r] = to
        /\ \A q \in World : q # r => /\ environment'[q] = environment[q] /\ client'[q] = client[q]
                                     /\ received'[q] = received[q] /\ pc'[q] = pc[q]
    BY <1>0, <2>1 DEF Tables, IsRecordOf
  <2> HIDE DEF w
  <2>3. Tables'
    <3>1. World' = World
      BY <1>1, SameRoles
    <3>2. pc' \in [World -> PCs]
      BY <1>0, <2>1 DEF PCs
    <3>3. IsRecordOf(environment', World) /\ IsRecordOf(client', World)
      BY <1>0, <2>1 DEF Tables, IsRecordOf
    <3>4. received' \in [World -> BOOLEAN]
      BY <1>0, <2>1 DEF Tables
    <3> QED BY <1>0, <1>1, <3>1, <3>2, <3>3, <3>4 DEF Tables, SameComms
  <2>4. PICK D, m : Course(D, m) /\ Ranks(D, m)
    BY DEF Described
  <2>5. ~Runs(r) /\ ~Starved(r)
    BY <1>1 DEF Forks, Runs, Starved
  <2>6. /\ heard[r] = 0 /\ received[r] = FALSE /\ k \in Nat \ {0}
        /\ Known(r) = k - 1
    BY <1>0, <1>1, <2>4 DEF Ranks, RankInv, Hears, Known, Tables
  <2>7. /\ k <= m /\ k <= nFields(asked) /\ Filled(e, k) /\ ~e.died /\ Same(e, D[k], k - 1)
        /\ client[r] = D[k]
    <3>1. Follows(r, D, m) /\ pc[r] \in Talking /\ pc[r] # "running"
      BY <1>1, <2>4 DEF Ranks, RankInv, Talking
    <3>2. /\ Filled(e, k) /\ ~e.died /\ Known(r) + 1 <= m /\ Same(e, D[k], Known(r))
          /\ client[r] = D[Known(r) + 1] /\ k <= nFields(asked)
      BY <1>1, <2>5, <3>1 DEF Follows
    <3>3. (k - 1) + 1 = k
      BY <2>6
    <3> QED BY <2>6, <3>2, <3>3
  <2>8. k \in 1 .. m
    BY <2>4, <2>6, <2>7 DEF Course
  <2>9. PICK D2, m2 : Course(D2, m2) /\ Extends(D2, m2, D, m) /\ k + 1 <= m2
    BY <1>3, <2>4, <2>7, <2>8, CourseExtends
  <2> HIDE DEF k, e
  <2>10. /\ D2[k] = client[r] /\ D2[k] = D[k] /\ k \in 1 .. m2 - 1
         /\ D2[k + 1] = Advanced(D2[k], k) /\ Filled(D2[k], k) /\ nFields(D2[k]) = nFields(asked)
    <3>1. m2 \in Nat /\ k \in 1 .. m2 /\ k \in 1 .. m2 - 1 /\ D2[k] = D[k]
      BY <2>6, <2>8, <2>9 DEF Course, Extends
    <3> QED BY <2>7, <2>9, <3>1 DEF Course
  <2>11. Filled(w, k) /\ ~w.died /\ Same(w, D2[k], k)
    <3>1. k <= nFields(D2[k])
      BY <2>7, <2>10
    <3> QED BY <1>3, <2>6, <2>7, <2>10, <3>1, StoredSame DEF w
  <2>12. /\ ~Runs(r)' /\ ~Starved(r)' /\ Forks(r)'
    BY <1>1, <2>5, SameRoles
  <2>13. nFields(asked)' = nFields(asked) /\ step'[r] = k /\ Known(r)' = k
    BY <1>1, <2>2 DEF Known, k
  <2>14. RankInv(r, D2, m2)'
    <3>1. Kind(r)' /\ pc'[r] \in {"relay", "send"}
      BY <1>1, <2>2, <2>12 DEF Kind, SameComms
    <3>2. Follows(r, D2, m2)'
      BY <1>3, <2>2, <2>7, <2>9, <2>10, <2>11, <2>13, <3>1 DEF Follows
    <3>3. Waits(r)' /\ FollowsRun(r, D2, m2)' /\ Starves(r)'
      BY <2>12, <3>1 DEF Waits, Talking, FollowsRun, Starves
    <3>4. Hears(r)'
      <4>1. heard'[r] = 0 /\ workerless_masters_comm' = workerless_masters_comm
        BY <1>1, <2>6 DEF SameComms
      <4>2. pc'[r] = "relay" => bIsMaster[r]
        BY <2>2
      <4>3. bIsMaster[r] /\ workerless_masters_comm[r] # {} =>
              0 + 2 <= Cardinality(workerless_masters_comm[r])
        BY <1>0, SomeoneToTell
      <4> QED BY <2>2, <2>12, <3>1, <4>1, <4>2, <4>3 DEF Hears
    <3> QED BY <3>1, <3>2, <3>3, <3>4 DEF RankInv
  <2>15. ASSUME NEW q \in World PROVE RankInv(q, D2, m2)'
    <3>1. CASE q = r
      BY <2>14, <3>1
    <3>2. CASE q # r
      <4>1. RankInv(q, D2, m2)
        BY <1>0, <2>4, <2>9, RankMore DEF Ranks
      <4>2. Still(q)
        BY <1>1, <2>2, <3>2 DEF Still
      <4> QED BY <1>1, <4>1, <4>2, RankStill
    <3> QED BY <3>1, <3>2
  <2>16. ASSUME NEW q \in World, bIsMaster[q] PROVE InStep(q)' /\ InStepMasters(q)'
    <3>0. InStep(q) /\ InStepMasters(q)
      BY <2>4, <2>16 DEF Ranks
    <3>1. \A s \in Workers(q) : s \in World
      BY <1>0, <2>16, WorkersAre
    <3>2. \A s \in workerless_masters_comm[q] : s \in World
      BY <1>0, <2>16, OtherMasters
    <3>3. CASE q # r
      <4>1. \A s : /\ HeardFrom(q, s)' <=> HeardFrom(q, s)
                   /\ Told(q, s)' <=> Told(q, s)
        BY <1>1, <2>2, <3>3 DEF HeardFrom, Told, SameComms
      <4> QED BY <1>1, <3>0, <3>1, <3>2, <4>1, InStepKept, InStepMastersKept DEF Alive
    <3>4. CASE q = r
      <4>1. shape.nWorkers = 0 \/ ~bIsMaster[r]
        BY <1>1, ShapeTypes, <1>0 DEF Forks, nForkedProcesses2spawn
      <4>2. Workers(q) = {}
        BY <1>0, <2>16, <3>4, <4>1, WorkersAre
      <4>3. InStep(q)'
        BY <1>1, <4>2, SameRoles DEF InStep
      <4>4. RankIn(workerless_masters_comm[q], q) = 0 =>
              \A s \in workerless_masters_comm[q] \ {q} : ~Told(q, s) /\ ~Told(q, s)'
        <5>1. pc[q] # "relay" /\ heard'[q] = 0
          BY <1>1, <2>6, <3>4
        <5>2. RankIn(workerless_masters_comm[q], q) = 0 =>
                \A s \in workerless_masters_comm[q] \ {q} :
                  RankIn(workerless_masters_comm[q], s) \in Nat \ {0}
          BY <1>0, <2>16, FirstMaster
        <5> QED BY <1>1, <5>1, <5>2 DEF Told, SameComms
      <4>5. InStepMasters(q)'
        <5>1. \A s \in workerless_masters_comm[q] : pc[s] # "died" /\ pc[q] # "died"
                                                    /\ step'[s] = step[s] /\ step'[q] = step[q]
          BY <1>1, <3>2 DEF Alive
        <5>2. workerless_masters_comm'[q] = workerless_masters_comm[q]
          BY <1>1 DEF SameComms
        <5>3. ASSUME RankIn(workerless_masters_comm[q], q) = 0,
                     NEW s \in workerless_masters_comm[q] \ {q}
              PROVE  OneAhead(s, q, Told(q, s))'
          BY <3>0, <4>4, <5>1, <5>3 DEF InStepMasters, OneAhead
        <5> QED BY <5>2, <5>3 DEF InStepMasters
      <4> QED BY <4>3, <4>5
    <3> QED BY <3>3, <3>4
  <2>17. \A q \in World : pc'[q] # pc[q] =>
           pc[q] \notin Early \cup {"died"} /\ pc'[q] \notin Early \cup {"dup"}
    BY <1>1, <2>2 DEF Early
  <2> QED BY <1>1, <2>3, <2>9, <2>15, <2>16, <2>17, Exchanged
<1> QED BY <1>2, <1>3

\* A field of d, which agrees with x, makes e agree with x.
LEMMA GotSame ==
  ASSUME NEW k \in Nat \ {0}, NEW e, Filled(e, k), ~e.died, NEW d, Filled(d, k), ~d.died,
         NEW x, Filled(x, k), ~x.died, k <= nFields(x), Same(e, x, k - 1), Same(d, x, k)
  PROVE  LET w == Stored(e, k, Value(d, k)) IN
         /\ Field(e, k) = Field(d, k)
         /\ Filled(w, k) /\ ~w.died /\ Same(w, x, k)
<1> DEFINE w == Stored(e, k, Value(d, k))
<1>1. /\ Reaches(e, k) /\ Reaches(d, k) /\ Reaches(x, k)
      /\ Reaches(e, k - 1) /\ Reaches(d, k - 1) /\ Reaches(x, k - 1)
  <2>1. k > 3 => nFields(e) = nFields(x) /\ nFields(d) = nFields(x)
    <3>1. k \in Int /\ k - 1 \in Int /\ (k > 3 => k - 1 >= 2 /\ k >= 2)
      OBVIOUS
    <3>2. k > 3 => nFields(e) = nFields(x)
      BY <3>1, SameDescriptors
    <3>3. k > 3 => nFields(d) = nFields(x)
      BY <3>1, SameDescriptors
    <3> QED BY <3>2, <3>3
  <2>2. /\ IsDescription(e) /\ IsDescription(d) /\ IsDescription(x)
        /\ k > 3 => Len(e.mdps) = nDescriptors(e) /\ Len(d.mdps) = nDescriptors(d)
                    /\ Len(x.mdps) = nDescriptors(x)
    BY DEF Filled
  <2>3. /\ nFields(x) \in Nat /\ nFields(e) \in Nat /\ nFields(d) \in Nat
    BY <2>2, InDescription
  <2> QED BY <2>1, <2>2, <2>3 DEF Reaches
<1>2. k \in Int /\ k - 1 \in Int /\ k - 1 <= k
  OBVIOUS
<1>3. Same(d, x, k - 1)
  BY <1>2, SameLess
<1>4. Same(x, d, k - 1)
  BY <1>1, <1>2, <1>3, SameSymmetric
<1>5. Same(e, d, k - 1)
  BY <1>1, <1>2, <1>4, SameTransitive
<1>6. k <= nFields(d)
  <2>1. CASE k >= 2
    BY <1>2, <2>1, SameDescriptors
  <2>2. CASE k = 1
    <3>1. nFields(d) \in Nat /\ nFields(d) >= 9
      BY InDescription DEF Filled
    <3> QED BY <2>2, <3>1
  <2> QED BY <2>1, <2>2
<1>7. Field(e, k) = Field(d, k) /\ Filled(w, k) /\ ~w.died /\ Same(w, d, k)
  BY <1>5, <1>6, StoredSame
<1> HIDE DEF w
<1>8. Reaches(w, k)
  <2>1. k > 3 => nFields(w) = nFields(d)
    <3>1. k > 3 => k >= 2
      OBVIOUS
    <3> QED BY <1>2, <1>7, <3>1, SameDescriptors
  <2> QED BY <1>6, <1>7, <2>1 DEF Filled, Reaches
<1>9. Same(w, x, k)
  BY <1>1, <1>2, <1>7, <1>8, SameTransitive
<1> QED BY <1>7, <1>9 DEF w

\* A worker that has the field to send.
LEMMA Sends ==
  ASSUME shape \in Shapes, Tables, NEW D, NEW m, Course(D, m), NEW w \in World, RankInv(w, D, m),
         ~bIsMaster[w], pc[w] = "send", NEW k, k = step[w]
  PROVE  /\ k \in Nat \ {0} /\ k \in 1 .. m /\ k <= nFields(asked)
         /\ Filled(environment[w], k) /\ ~environment[w].died /\ Same(environment[w], D[k], k)
         /\ ~D[k].died /\ Filled(D[k], k) /\ nFields(D[k]) = nFields(asked) /\ ~Starved(w)
         /\ Runs(w) => environment[w] = D[k]
         /\ ~Runs(w) => Forks(w) /\ k + 1 <= m /\ client[w] = D[k + 1]
<1>1. k \in Nat \ {0} /\ m \in Nat \ {0} /\ ~Starved(w) /\ pc[w] \in Talking /\ pc[w] # "running"
  BY DEF Tables, Course, Starved, Talking
<1>2. CASE Runs(w)
  <2>1. k <= m /\ environment[w] = D[k] /\ ~environment[w].died /\ k <= nFields(asked)
    BY <1>1, <1>2 DEF RankInv, FollowsRun
  <2>2. k \in 1 .. m
    BY <1>1, <2>1
  <2>3. Filled(D[k], k) /\ nFields(D[k]) = nFields(asked)
    BY <2>2 DEF Course
  <2> QED BY <1>1, <1>2, <2>1, <2>2, <2>3, SameRefl
<1>3. CASE ~Runs(w)
  <2>1. Forks(w)
    <3>1. nForkedProcesses2spawn(w) \in Nat
      BY ForkedIs
    <3> QED BY <1>3, <3>1 DEF Runs, Forks
  <2>2. received[w] /\ Known(w) = k
    BY <2>1 DEF RankInv, Hears, Known
  <2>3. /\ Filled(environment[w], k) /\ ~environment[w].died /\ k + 1 <= m
        /\ Same(environment[w], D[k], k) /\ ~D[k].died /\ client[w] = D[k + 1]
        /\ k <= nFields(asked)
    BY <1>1, <1>3, <2>1, <2>2 DEF RankInv, Follows
  <2>4. k \in 1 .. m
    BY <1>1, <2>3
  <2>5. Filled(D[k], k) /\ nFields(D[k]) = nFields(asked)
    BY <2>4 DEF Course
  <2> QED BY <1>1, <1>3, <2>1, <2>3, <2>4, <2>5
<1> QED BY <1>2, <1>3

\* A master takes the field from the next of its workers, which goes on.
LEMMA DescribedHears ==
  ASSUME GroupsInv, Arrangement, Alive, Described, NEW r \in World, MasterRecv(r)
  PROVE  Arrangement' /\ Described'
<1>0. shape \in Shapes /\ Tables /\ pc \in [World -> PCs]
  BY DEF GroupsInv, Arrangement
<1>1. pc[r] = "recv" /\ bIsMaster[r] /\ ~Forks(r) /\ SameComms /\ UNCHANGED asked
  BY DEF MasterRecv, unchangedBySync, SameComms, comms, Forks
<1>2. PICK w \in master_workers_comm[r] :
        /\ RankIn(master_workers_comm[r], w) = heard[r] + 1 /\ pc[w] = "send"
        /\ IF Get(r, w).died \/ (heard[r] > 0 /\ Get(r, w) # environment[r])
           THEN pc' = [pc EXCEPT ![r] = "died"] /\ UNCHANGED syncVars
           ELSE Leave({w}, [environment EXCEPT ![r] = Get(r, w)],
                      [heard EXCEPT ![r] = @ + 1], [received EXCEPT ![r] = TRUE])
  BY DEF MasterRecv
<1> DEFINE mine == Get(r, w)
           h == heard[r]
           k == step[r]
<1>3. CASE mine.died \/ (h > 0 /\ mine # environment[r])
  <2>1. pc' = [pc EXCEPT ![r] = "died"] /\ UNCHANGED <<asked, syncVars>>
    BY <1>1, <1>2, <1>3
  <2>2. pc[r] \notin Early
    BY <1>1 DEF Early
  <2> QED BY <1>0, <1>1, <2>1, <2>2, OneDies
<1>4. CASE ~(mine.died \/ (h > 0 /\ mine # environment[r]))
  <2> DEFINE e1 == [environment EXCEPT ![r] = mine]
             h1 == [heard EXCEPT ![r] = h + 1]
             g1 == [received EXCEPT ![r] = TRUE]
  <2>1. Leave({w}, e1, h1, g1)
    BY <1>2, <1>4
  <2>2. /\ e1[r] = mine /\ h1[r] = h + 1 /\ g1[r] = TRUE
        /\ \A q \in World : q # r => e1[q] = environment[q] /\ h1[q] = heard[q] /\ g1[q] = received[q]
        /\ IsRecordOf(e1, World) /\ h1 \in [World -> Nat] /\ g1 \in [World -> BOOLEAN]
    BY <1>0 DEF Tables, IsRecordOf
  <2> HIDE DEF e1, h1, g1, mine, h
  <2>3. h \in Nat /\ k \in Nat \ {0} /\ received[r] \in BOOLEAN
    BY <1>0 DEF Tables, h
  <2>4. /\ w \in Workers(r) /\ w \in World /\ ~bIsMaster[w] /\ w # r /\ HasWorkers(r)
        /\ master_workers_comm[r] # {} /\ master_workers_comm[r] \subseteq World
    <3>1. w # r
      BY <1>1, <1>2 
    <3>2. w \in Workers(r) /\ w \in World /\ ~bIsMaster[w]
      BY <1>0, <1>1, <1>2, <3>1, WorkerIn DEF Arrangement
    <3>3. HasWorkers(r)
      BY <1>0, <1>1, <3>2, WorkersAre
    <3>4. master_workers_comm[r] # {} /\ master_workers_comm[r] \subseteq World
      BY <1>2 DEF Arrangement, GroupsFit
    <3> QED BY <3>1, <3>2, <3>3, <3>4
  <2>5. PICK D, m : Course(D, m) /\ Ranks(D, m)
    BY DEF Described
  <2>6. step[w] = k
    <3>1. ~HeardFrom(r, w)
      BY <1>1, <1>2, <2>3 DEF HeardFrom, h
    <3>2. OneAhead(w, r, HeardFrom(r, w)) /\ pc[r] # "died" /\ pc[w] # "died"
      BY <1>1, <2>4, <2>5 DEF Ranks, InStep, Alive
    <3> QED BY <2>3, <3>1, <3>2 DEF OneAhead
  <2>7. ~Runs(r) /\ ~Starved(r)
    BY <1>1, <2>4 DEF Runs, Starved
  <2>8. /\ Filled(environment[r], k) /\ ~environment[r].died /\ k <= nFields(asked)
        /\ Same(environment[r], D[k], Known(r)) /\ Known(r) + 1 <= m
        /\ received[r] <=> h > 0
    BY <1>1, <2>5, <2>7 DEF Ranks, RankInv, Follows, Hears, Talking, h
  <2>9. /\ k \in 1 .. m
        /\ Filled(environment[w], k) /\ ~environment[w].died /\ Same(environment[w], D[k], k)
        /\ ~D[k].died /\ Filled(D[k], k) /\ nFields(D[k]) = nFields(asked) /\ ~Starved(w)
        /\ Runs(w) => environment[w] = D[k]
        /\ ~Runs(w) => Forks(w) /\ k + 1 <= m /\ client[w] = D[k + 1]
    BY <1>0, <1>2, <2>4, <2>5, <2>6, Sends DEF Ranks
  <2> HIDE DEF k
  <2>10. Filled(mine, k) /\ ~mine.died /\ Same(mine, D[k], k)
    <3>1. CASE h = 0
      <4>1. Known(r) = k - 1
        BY <2>3, <2>8, <3>1 DEF Known, k
      <4> DEFINE s == Stored(environment[r], k, Value(environment[w], k))
      <4>2. /\ Field(environment[r], k) = Field(environment[w], k)
            /\ Filled(s, k) /\ ~s.died /\ Same(s, D[k], k)
        BY <2>3, <2>8, <2>9, <4>1, GotSame
      <4>3. mine = s
        BY <2>6, <4>2 DEF Get, mine, k
      <4> HIDE DEF s
      <4> QED BY <4>2, <4>3
    <3>2. CASE h # 0
      <4>1. h > 0 /\ mine = environment[r] /\ received[r]
        BY <1>4, <2>3, <2>8, <3>2
      <4>2. Known(r) = k
        BY <4>1 DEF Known, k
      <4> QED BY <2>8, <4>1, <4>2
    <3> QED BY <3>1, <3>2
  <2>11. PICK D2, m2 : Course(D2, m2) /\ Extends(D2, m2, D, m) /\ k + 1 <= m2
    BY <2>5, <2>8, <2>9, CourseExtends
  <2>12. D2[k] = D[k] /\ (k + 1 <= m => D2[k + 1] = D[k + 1])
    <3>1. m \in Nat /\ (k + 1 <= m => k + 1 \in 1 .. m)
      BY <2>3, <2>5 DEF Course
    <3> QED BY <2>9, <2>11, <3>1 DEF Extends
  <2>13. /\ LeavesWith(w, environment[w])
         /\ \A q \in World : q # w =>
              /\ pc'[q] = pc[q] /\ step'[q] = step[q] /\ heard'[q] = h1[q]
              /\ received'[q] = g1[q] /\ environment'[q] = e1[q] /\ client'[q] = client[q]
         /\ step' \in [World -> Nat \ {0}] /\ heard' \in [World -> Nat]
         /\ received' \in [World -> BOOLEAN] /\ pc' \in [World -> PCs]
         /\ IsRecordOf(environment', World) /\ IsRecordOf(client', World)
    <3>1. w \in {w} /\ \A q : q # w => q \notin {w}
      OBVIOUS
    <3>2. /\ \A q \in World : q \in {w} => LeavesWith(q, e1[q])
          /\ \A q \in World : q \notin {w} =>
               /\ pc'[q] = pc[q] /\ step'[q] = step[q] /\ heard'[q] = h1[q]
               /\ received'[q] = g1[q] /\ environment'[q] = e1[q] /\ client'[q] = client[q]
          /\ step' \in [World -> Nat \ {0}] /\ heard' \in [World -> Nat]
          /\ received' \in [World -> BOOLEAN] /\ pc' \in [World -> PCs]
          /\ IsRecordOf(environment', World) /\ IsRecordOf(client', World)
      BY <1>0, <2>1, <2>2, LeaveIs
    <3>3. LeavesWith(w, e1[w]) /\ e1[w] = environment[w]
      BY <2>2, <2>4, <3>1, <3>2
    <3> QED BY <3>1, <3>2, <3>3
  <2>14. /\ pc'[r] = "recv" /\ step'[r] = k /\ heard'[r] = h + 1 /\ received'[r] = TRUE
         /\ environment'[r] = mine
    BY <1>1, <2>2, <2>4, <2>13 DEF k
  <2>15. Tables'
    BY <1>0, <1>1, <2>13, SameRoles DEF Tables, SameComms
  <2>16. RankInv(w, D2, m2)'
    <3>1. CASE Runs(w)
      BY <1>0, <1>1, <2>3, <2>4, <2>6, <2>8, <2>9, <2>11, <2>12, <2>13, <3>1, LeavesRun
    <3>2. CASE ~Runs(w)
      BY <1>0, <1>1, <2>3, <2>4, <2>6, <2>8, <2>9, <2>11, <2>12, <2>13, <3>2, Leaves
    <3> QED BY <3>1, <3>2
  <2>17. RankInv(r, D2, m2)'
    <3>1. ~Runs(r)' /\ ~Starved(r)' /\ ~Forks(r)' /\ HasWorkers(r)'
      BY <1>1, <2>4, <2>7, SameRoles
    <3>2. Known(r)' = k /\ nFields(asked)' = nFields(asked)
      BY <1>1, <2>14 DEF Known
    <3>3. Follows(r, D2, m2)'
      BY <2>8, <2>9, <2>10, <2>11, <2>12, <2>14, <3>1, <3>2 DEF Follows
    <3>4. Hears(r)'
      BY <2>3, <2>14, <3>1 DEF Hears
    <3>5. Waits(r)' /\ Kind(r)' /\ FollowsRun(r, D2, m2)' /\ Starves(r)'
      BY <1>1, <2>14, <3>1 DEF Waits, Talking, Kind, FollowsRun, Starves, SameComms
    <3> QED BY <3>3, <3>4, <3>5 DEF RankInv
  <2>18. ASSUME NEW q \in World PROVE RankInv(q, D2, m2)'
    <3>1. CASE q # r /\ q # w
      <4>1. RankInv(q, D2, m2)
        BY <1>0, <2>5, <2>11, RankMore DEF Ranks
      <4>2. Still(q)
        BY <2>2, <2>13, <3>1 DEF Still
      <4> QED BY <1>1, <4>1, <4>2, RankStill
    <3> QED BY <2>16, <2>17, <3>1
  <2>19. ASSUME NEW q \in World, bIsMaster[q] PROVE InStep(q)' /\ InStepMasters(q)'
    <3>0. InStep(q) /\ InStepMasters(q)
      BY <2>5, <2>19 DEF Ranks
    <3>1. \A s \in Workers(q) : s \in World /\ ~bIsMaster[s]
      BY <1>0, <2>19, WorkersAre DEF Workers
    <3>2. \A s \in workerless_masters_comm[q] : s \in World /\ bIsMaster[s]
      BY <1>0, <2>19, OtherMasters
    <3>3. q # w /\ pc'[q] = pc[q] /\ step'[q] = step[q] /\ (q # r => heard'[q] = heard[q])
      BY <2>2, <2>4, <2>13, <2>19
    <3>4. InStepMasters(q)'
      <4>1. \A s : Told(q, s)' <=> Told(q, s)
        BY <1>1, <3>3 DEF Told, SameComms
      <4> QED BY <1>1, <2>4, <2>13, <3>0, <3>2, <3>3, <4>1, InStepMastersKept DEF Alive
    <3>5. InStep(q)'
      <4>1. CASE q # r
        <5>1. \A s \in Workers(q) : s # w
          BY <1>0, <1>1, <2>4, <2>19, <4>1, WorkersOfOne
        <5>2. \A s : HeardFrom(q, s)' <=> HeardFrom(q, s)
          BY <1>1, <3>3, <4>1 DEF HeardFrom, SameComms
        <5> QED BY <1>1, <2>13, <3>0, <3>1, <3>3, <5>1, <5>2, InStepKept DEF Alive
      <4>2. CASE q = r
        <5>1. ASSUME NEW s \in Workers(r) PROVE OneAhead(s, r, HeardFrom(r, s))'
          <6>0. master_workers_comm'[r] = master_workers_comm[r]
            BY <1>1 DEF SameComms
          <6>1. CASE s = w
            <7>1. HeardFrom(r, s)'
              <8>1. RankIn(master_workers_comm[r], w) = h + 1 /\ h + 1 <= h + 1
                BY <1>2, <2>3 DEF h
              <8> QED BY <2>14, <6>0, <6>1, <8>1 DEF HeardFrom
            <7>2. step'[s] = k + 1
              BY <2>6, <2>13, <6>1 DEF LeavesWith
            <7> QED BY <2>14, <7>1, <7>2 DEF OneAhead
          <6>2. CASE s # w
            <7>1. s \in master_workers_comm[r] /\ s \in World
              BY <3>1, <4>2 DEF Workers
            <7>2. RankIn(master_workers_comm[r], s) # h + 1 /\ RankIn(master_workers_comm[r], s) \in Nat
              BY <1>0, <1>2, <2>4, <6>2, <7>1, RanksInOrder DEF h
            <7>3. HeardFrom(r, s)' <=> HeardFrom(r, s)
              BY <1>1, <2>3, <2>14, <6>0, <7>2 DEF HeardFrom, h
            <7>4. OneAhead(s, r, HeardFrom(r, s)) /\ pc[s] # "died" /\ pc[r] # "died"
              BY <3>0, <4>2, <7>1 DEF InStep, Alive
            <7>5. step'[s] = step[s] /\ step'[r] = step[r]
              BY <2>4, <2>13, <6>2, <7>1
            <7> QED BY <7>3, <7>4, <7>5 DEF OneAhead
          <6> QED BY <6>1, <6>2
        <5> QED BY <1>1, <4>2, <5>1, SameRoles DEF InStep
      <4> QED BY <4>1, <4>2
    <3> QED BY <3>4, <3>5
  <2>20. \A q \in World : pc'[q] # pc[q] =>
           pc[q] \notin Early \cup {"died"} /\ pc'[q] \notin Early \cup {"dup"}
    <3> SUFFICES ASSUME NEW q \in World, pc'[q] # pc[q]
                 PROVE  pc[q] \notin Early \cup {"died"} /\ pc'[q] \notin Early \cup {"dup"}
      OBVIOUS
    <3>1. q = w
      BY <2>13
    <3>2. pc'[w] \in {"died", "running", "send", "recv"}
      BY <2>13 DEF LeavesWith, Begin
    <3> QED BY <1>2, <3>1, <3>2 DEF Early
  <2> QED BY <1>1, <2>11, <2>15, <2>18, <2>19, <2>20, Exchanged
<1> QED BY <1>3, <1>4

\* A master that has heard all its workers has the field, if it has workers.
LEMMA DescribedHeard ==
  ASSUME GroupsInv, Arrangement, Alive, Described, NEW r \in World, MasterHeard(r)
  PROVE  Arrangement' /\ Described'
<1>0. shape \in Shapes /\ Tables /\ pc \in [World -> PCs] /\ shape.nWorkers \in Nat
  BY ShapeTypes DEF GroupsInv, Arrangement
<1>1. /\ pc[r] = "recv" /\ bIsMaster[r] /\ ~Forks(r) /\ SameComms
      /\ UNCHANGED <<asked, client, environment, step, received>>
      /\ pc' = [pc EXCEPT ![r] = "relay"] /\ heard' = [heard EXCEPT ![r] = 0]
      /\ shape.nWorkers > 0 => heard[r] = nOwnedEnvironments(r)
  BY DEF MasterHeard, unchangedBySync, SameComms, comms, Forks, LastHeard
<1>2. /\ pc'[r] = "relay" /\ heard'[r] = 0
      /\ \A q \in World : q # r => pc'[q] = pc[q] /\ heard'[q] = heard[q]
  BY <1>0, <1>1 DEF Tables
<1>3. Tables'
  <2>1. pc' \in [World -> PCs] /\ heard' \in [World -> Nat]
    BY <1>0, <1>1 DEF Tables, PCs
  <2> QED BY <1>0, <1>1, <2>1, SameRoles DEF Tables, SameComms
<1>4. PICK D, m : Course(D, m) /\ Ranks(D, m)
  BY DEF Described
<1>5. /\ ~Runs(r) /\ ~Runs(r)' /\ ~Forks(r)' /\ (Starved(r)' <=> Starved(r))
      /\ (HasWorkers(r)' <=> HasWorkers(r)) /\ Known(r)' = Known(r)
      /\ nFields(asked)' = nFields(asked)
  BY <1>1, SameRoles DEF Runs, Known
<1>6. received[r] <=> HasWorkers(r)
  <2>1. (received[r] <=> heard[r] > 0) /\ (received[r] => HasWorkers(r))
    BY <1>1, <1>4 DEF Ranks, RankInv, Hears
  <2>2. HasWorkers(r) => heard[r] > 0
    BY <1>1 DEF HasWorkers
  <2> QED BY <2>1, <2>2
<1>7. RankInv(r, D, m)'
  <2>1. RankInv(r, D, m)
    BY <1>4 DEF Ranks
  <2>2. Follows(r, D, m)'
    BY <1>1, <1>2, <1>5, <2>1 DEF RankInv, Follows, Talking
  <2>3. Starves(r)'
    BY <1>1, <1>2, <1>5, <2>1 DEF RankInv, Starves, Talking
  <2>4. Hears(r)'
    <3>1. workerless_masters_comm'[r] = workerless_masters_comm[r]
      BY <1>1 DEF SameComms
    <3>2. workerless_masters_comm[r] # {} => 0 + 2 <= Cardinality(workerless_masters_comm[r])
      BY <1>0, <1>1, SomeoneToTell
    <3> QED BY <1>1, <1>2, <1>5, <1>6, <3>1, <3>2 DEF Hears
  <2>5. Waits(r)' /\ Kind(r)' /\ FollowsRun(r, D, m)'
    BY <1>1, <1>2, <1>5 DEF Waits, Talking, Kind, FollowsRun, SameComms
  <2> QED BY <2>2, <2>3, <2>4, <2>5 DEF RankInv
<1>8. ASSUME NEW q \in World PROVE RankInv(q, D, m)'
  <2>1. CASE q # r
    <3>1. Still(q) /\ RankInv(q, D, m)
      BY <1>1, <1>2, <1>4, <2>1 DEF Still, Ranks
    <3> QED BY <1>1, <3>1, RankStill
  <2> QED BY <1>7, <2>1
<1>9. ASSUME NEW q \in World, bIsMaster[q] PROVE InStep(q)' /\ InStepMasters(q)'
  <2>0. InStep(q) /\ InStepMasters(q)
    BY <1>4, <1>9 DEF Ranks
  <2>1. \A s \in Workers(q) : s \in World
    BY <1>0, <1>9, WorkersAre
  <2>2. \A s \in workerless_masters_comm[q] : s \in World
    BY <1>0, <1>9, OtherMasters
  <2>3. \A s \in World : pc'[s] # "died" /\ pc[s] # "died" /\ step'[s] = step[s]
    BY <1>1, <1>2 DEF Alive
  <2>4. CASE q # r
    <3>1. \A s : /\ HeardFrom(q, s)' <=> HeardFrom(q, s)
                 /\ Told(q, s)' <=> Told(q, s)
      BY <1>1, <1>2, <2>4 DEF HeardFrom, Told, SameComms
    <3> QED BY <1>1, <2>0, <2>1, <2>2, <2>3, <3>1, InStepKept, InStepMastersKept
  <2>5. CASE q = r
    <3>1. ASSUME NEW s \in Workers(q) PROVE HeardFrom(q, s) /\ HeardFrom(q, s)'
      <4> DEFINE C == master_workers_comm[q]
      <4>1. s \in C /\ C \subseteq World /\ shape.nWorkers > 0
        <5>1. s \in C
          BY <3>1 DEF Workers
        <5> QED BY <1>0, <1>9, <5>1, WorkersAre DEF Arrangement, GroupsFit
      <4>2. heard[q] = Cardinality(C) - 1
        BY <1>1, <2>5, <4>1 DEF nOwnedEnvironments
      <4> HIDE DEF C
      <4>3. RankIn(C, s) \in Nat /\ RankIn(C, s) < Cardinality(C) /\ Cardinality(C) \in Nat
        BY <1>0, <4>1, RanksInOrder, FiniteWorld
      <4>4. RankIn(C, s) <= heard[q]
        BY <4>2, <4>3
      <4> QED BY <1>1, <1>2, <2>5, <4>4 DEF HeardFrom, C
    <3>2. InStep(q)'
      BY <1>1, <2>0, <2>1, <2>3, <3>1, InStepKept
    <3>3. RankIn(workerless_masters_comm[q], q) = 0 =>
            \A s \in workerless_masters_comm[q] \ {q} : ~Told(q, s) /\ ~Told(q, s)'
      <4>1. RankIn(workerless_masters_comm[q], q) = 0 =>
              \A s \in workerless_masters_comm[q] \ {q} :
                RankIn(workerless_masters_comm[q], s) \in Nat \ {0}
        BY <1>0, <1>9, FirstMaster
      <4> QED BY <1>1, <1>2, <2>5, <4>1 DEF Told, SameComms
    <3>4. workerless_masters_comm'[q] = workerless_masters_comm[q]
      BY <1>1 DEF SameComms
    <3>5. ASSUME RankIn(workerless_masters_comm[q], q) = 0,
                 NEW s \in workerless_masters_comm[q] \ {q}
          PROVE  OneAhead(s, q, Told(q, s))'
      BY <2>0, <2>2, <2>3, <3>3, <3>5 DEF InStepMasters, OneAhead
    <3> QED BY <3>2, <3>4, <3>5 DEF InStepMasters
  <2> QED BY <2>4, <2>5
<1>10. \A q \in World : pc'[q] # pc[q] =>
         pc[q] \notin Early \cup {"died"} /\ pc'[q] \notin Early \cup {"dup"}
  BY <1>1, <1>2 DEF Early
<1> QED BY <1>1, <1>3, <1>4, <1>8, <1>9, <1>10, Exchanged

\* A master that leaves can be told again.
LEMMA MasterLeft ==
  ASSUME NEW q \in World, bIsMaster[q], NEW e, LeavesWith(q, e)
  PROVE  pc'[q] \in {"died", "running", "recv"} /\ heard'[q] = 0 /\ step'[q] = step[q] + 1
BY DEF LeavesWith, Begin

\* The first of the masters tells the next of the others, which goes on.
LEMMA DescribedTells ==
  ASSUME GroupsInv, Arrangement, Alive, Described, NEW r \in World, RelaySend(r)
  PROVE  Arrangement' /\ Described'
<1> DEFINE C == workerless_masters_comm[r]
           h == heard[r]
           k == step[r]
<1>s. PICK s : s = RankOf(C, h + 1)
  OBVIOUS
<1> DEFINE got == Get(s, r)
           done == IF LastTold(r) THEN {r, s} ELSE {s}
           e1 == [environment EXCEPT ![s] = got]
           h1 == [heard EXCEPT ![r] = h + 1]
<1>0. shape \in Shapes /\ Tables /\ pc \in [World -> PCs]
  BY DEF GroupsInv, Arrangement
<1>1. /\ pc[r] = "relay" /\ C # {} /\ ~relayRefused(r) /\ RankIn(C, r) = 0
      /\ pc[s] = "relay" /\ ~relayRefused(s) /\ Leave(done, e1, h1, received)
      /\ SameComms /\ UNCHANGED asked
  BY <1>s DEF RelaySend, unchangedBySync, SameComms, comms
<1>2. PICK D, m : Course(D, m) /\ Ranks(D, m)
  BY DEF Described
<1>3. bIsMaster[r] /\ RankInv(r, D, m)
  BY <1>1, <1>2 DEF Ranks, RankInv, Kind
<1>4. /\ C = Masters /\ C \subseteq World /\ r \in C
      /\ \A q \in C : q \in World /\ bIsMaster[q] /\ workerless_masters_comm[q] = C
  BY <1>0, <1>1, <1>3, OtherMasters DEF Masters
<1>5. h \in Nat /\ k \in Nat \ {0} /\ received \in [World -> BOOLEAN]
  BY <1>0 DEF Tables
<1>6. h + 2 <= Cardinality(C) /\ Cardinality(C) \in Nat
  BY <1>0, <1>1, <1>3, <1>4, FiniteWorld DEF RankInv, Hears
<1> HIDE DEF C, h
<1>7. s \in C /\ RankIn(C, s) = h + 1
  <2>1. h + 1 \in Nat /\ h + 1 < Cardinality(C)
    BY <1>5, <1>6
  <2> QED BY <1>s, <1>0, <1>4, <2>1, RankOfIs
<1>8. s # r /\ s \in World /\ bIsMaster[s] /\ workerless_masters_comm[s] = C
  BY <1>1, <1>4, <1>5, <1>7
<1>9. received[r] = TRUE /\ received[s] = FALSE
  BY <1>1, <1>5, <1>7, <1>8 DEF relayRefused, C
<1>10. ~Starved(r) /\ ~Starved(s) /\ ~Runs(r) /\ ~Runs(s)
  BY <1>1, <1>3, <1>8 DEF Starved, Runs, C
<1>11. ~Forks(s) /\ Workers(s) = {}
  <2>1. RankInv(s, D, m)
    BY <1>2, <1>8 DEF Ranks
  <2>2. ~Forks(s) /\ ~HasWorkers(s)
    BY <1>1, <1>9, <2>1 DEF RankInv, Hears
  <2> QED BY <1>0, <1>8, <2>2, WorkersAre
<1>12. step[s] = k
  <2>1. ~Told(r, s)
    BY <1>5, <1>7 DEF Told, C, h
  <2>2. OneAhead(s, r, Told(r, s)) /\ pc[r] # "died" /\ pc[s] # "died"
    BY <1>1, <1>2, <1>3, <1>7, <1>8 DEF Ranks, InStepMasters, C
  <2> QED BY <1>5, <2>1, <2>2 DEF OneAhead
<1>13. /\ Filled(environment[r], k) /\ ~environment[r].died /\ Same(environment[r], D[k], k)
       /\ k + 1 <= m /\ k <= nFields(asked) /\ ~D[k].died /\ (Forks(r) => client[r] = D[k + 1])
  <2>1. Known(r) = k
    BY <1>9 DEF Known
  <2> QED BY <1>1, <1>3, <1>9, <1>10, <2>1 DEF RankInv, Follows, Talking
<1>14. Filled(environment[s], k) /\ ~environment[s].died /\ Same(environment[s], D[k], k - 1)
  <2>1. Known(s) = k - 1
    BY <1>9, <1>12 DEF Known
  <2> QED BY <1>1, <1>2, <1>8, <1>10, <1>12, <2>1 DEF Ranks, RankInv, Follows, Talking
<1> HIDE DEF k
<1>15. Filled(got, k) /\ ~got.died /\ Same(got, D[k], k)
  <2> DEFINE w == Stored(environment[s], k, Value(environment[r], k))
  <2>1. k \in 1 .. m
    BY <1>2, <1>5, <1>13 DEF Course
  <2>2. Filled(D[k], k) /\ k <= nFields(D[k])
    BY <1>2, <1>13, <2>1 DEF Course
  <2>3. Field(environment[s], k) = Field(environment[r], k) /\ Filled(w, k) /\ ~w.died /\ Same(w, D[k], k)
    BY <1>5, <1>13, <1>14, <2>2, GotSame
  <2>4. got = w
    BY <1>12, <2>3 DEF Get, k
  <2> HIDE DEF w, got
  <2> QED BY <2>3, <2>4
<1> HIDE DEF got
<1>16. /\ e1[s] = got /\ h1[r] = h + 1
       /\ \A q \in World : /\ q # s => e1[q] = environment[q]
                           /\ q # r => h1[q] = heard[q]
       /\ IsRecordOf(e1, World) /\ h1 \in [World -> Nat]
  BY <1>0, <1>5, <1>8 DEF Tables, IsRecordOf
<1>17. /\ s \in done /\ (r \in done <=> h + 2 = Cardinality(C))
       /\ \A q \in done : q = r \/ q = s
  BY <1>8 DEF LastTold, C, h
<1> HIDE DEF e1, h1, done
<1>18. /\ \A q \in World : q \in done => LeavesWith(q, e1[q])
       /\ \A q \in World : q \notin done =>
            /\ pc'[q] = pc[q] /\ step'[q] = step[q] /\ heard'[q] = h1[q]
            /\ received'[q] = received[q] /\ environment'[q] = e1[q] /\ client'[q] = client[q]
       /\ step' \in [World -> Nat \ {0}] /\ heard' \in [World -> Nat]
       /\ received' \in [World -> BOOLEAN] /\ pc' \in [World -> PCs]
       /\ IsRecordOf(environment', World) /\ IsRecordOf(client', World)
  BY <1>0, <1>1, <1>5, <1>16, LeaveIs
<1>19. \A q \in World : q # r /\ q # s => Still(q)
  BY <1>16, <1>17, <1>18 DEF Still
<1>20. Tables'
  BY <1>0, <1>1, <1>18, SameRoles DEF Tables, SameComms
<1>21. RankInv(s, D, m)'
  <2>1. LeavesWith(s, got)
    BY <1>8, <1>16, <1>17, <1>18
  <2>2. /\ shape \in Shapes /\ SameComms /\ UNCHANGED asked /\ Course(D, m)
        /\ s \in World /\ k \in Nat \ {0} /\ k = step[s] /\ ~Runs(s) /\ ~Starved(s)
        /\ k + 1 <= m /\ k <= nFields(asked) /\ Filled(got, k) /\ ~got.died
        /\ Same(got, D[k], k) /\ ~D[k].died /\ ~Forks(s)
    BY <1>0, <1>1, <1>2, <1>5, <1>8, <1>10, <1>11, <1>12, <1>13, <1>15
  <2> QED BY <2>1, <2>2, Leaves
<1>22. r \in done => LeavesWith(r, environment[r])
  BY <1>8, <1>16, <1>18
<1>23. r \notin done => /\ pc'[r] = pc[r] /\ step'[r] = step[r] /\ heard'[r] = h + 1
                        /\ received'[r] = received[r] /\ environment'[r] = environment[r]
                        /\ client'[r] = client[r] /\ h + 3 <= Cardinality(C)
  BY <1>5, <1>6, <1>8, <1>16, <1>17, <1>18
<1>24. RankInv(r, D, m)'
  <2>1. CASE r \in done
    BY <1>0, <1>1, <1>2, <1>5, <1>10, <1>13, <1>22, <2>1, Leaves DEF k
  <2>2. CASE r \notin done
    <3>1. ~Runs(r)' /\ ~Starved(r)' /\ (Forks(r)' <=> Forks(r)) /\ (HasWorkers(r)' <=> HasWorkers(r))
      BY <1>1, <1>10, SameRoles
    <3>2. Known(r)' = Known(r) /\ nFields(asked)' = nFields(asked)
      BY <1>1, <1>23, <2>2 DEF Known
    <3>3. Follows(r, D, m)'
      BY <1>1, <1>3, <1>10, <1>23, <2>2, <3>1, <3>2 DEF RankInv, Follows
    <3>4. Hears(r)'
      <4>1. workerless_masters_comm'[r] = C
        BY <1>1 DEF SameComms, C
      <4>2. (h + 1) + 2 <= Cardinality(C)
        BY <1>5, <1>6, <1>23, <2>2
      <4> QED BY <1>1, <1>3, <1>23, <2>2, <3>1, <4>1, <4>2 DEF RankInv, Hears
    <3>5. Waits(r)' /\ Kind(r)' /\ FollowsRun(r, D, m)' /\ Starves(r)'
      BY <1>1, <1>3, <1>23, <2>2, <3>1 DEF Waits, Talking, Kind, FollowsRun, Starves, SameComms
    <3> QED BY <3>3, <3>4, <3>5 DEF RankInv
  <2> QED BY <2>1, <2>2
<1>25. ASSUME NEW q \in World PROVE RankInv(q, D, m)'
  <2>1. CASE q # r /\ q # s
    <3>1. Still(q) /\ RankInv(q, D, m)
      BY <1>2, <1>19, <2>1 DEF Ranks
    <3> QED BY <1>1, <3>1, RankStill
  <2>2. CASE q = r
    BY <1>24, <2>2
  <2>3. CASE q = s
    BY <1>21, <2>3
  <2> QED BY <2>1, <2>2, <2>3
<1>26. \A q \in World : q \in done /\ pc'[q] # "died" =>
         pc'[q] \in {"running", "recv"} /\ heard'[q] = 0 /\ step'[q] = step[q] + 1
  BY <1>3, <1>8, <1>17, <1>18, MasterLeft
<1>27. ASSUME NEW q \in World, bIsMaster[q] PROVE InStep(q)'
  <2>0. InStep(q)
    BY <1>2, <1>27 DEF Ranks
  <2>1. \A x \in Workers(q) : x \in World /\ x # r /\ x # s
                              /\ RankIn(master_workers_comm[q], x) \in Nat \ {0}
    BY <1>0, <1>3, <1>8, <1>27, WorkersAre DEF Workers
  <2>2. \A x \in Workers(q) : pc'[x] = pc[x] /\ step'[x] = step[x] /\ pc[x] # "died"
    BY <1>19, <2>1 DEF Still, Alive
  <2>3. CASE q = s
    BY <1>1, <1>11, <2>3, SameRoles DEF InStep
  <2>4. CASE q # s /\ q \notin done
    <3>1. pc'[q] = pc[q] /\ step'[q] = step[q] /\ (q # r => heard'[q] = heard[q])
      BY <1>16, <1>18, <2>4
    <3>2. \A x : HeardFrom(q, x)' <=> HeardFrom(q, x)
      BY <1>1, <3>1 DEF HeardFrom, SameComms
    <3> QED BY <1>1, <2>0, <2>2, <3>1, <3>2, InStepKept DEF Alive
  <2>5. CASE q = r /\ r \in done
    <3>1. ASSUME NEW x \in Workers(r) PROVE OneAhead(x, r, HeardFrom(r, x))'
      <4>1. HeardFrom(r, x)
        BY <1>1 DEF HeardFrom
      <4>2. step[x] = k + 1
        BY <1>5, <2>0, <2>2, <2>5, <3>1, <4>1 DEF InStep, OneAhead, Alive, k
      <4>3. CASE pc'[r] # "died"
        <5>1. pc'[r] \in {"running", "recv"} /\ heard'[r] = 0 /\ step'[r] = k + 1
          BY <1>26, <2>5, <4>3 DEF k
        <5>2. ~HeardFrom(r, x)'
          <6>1. master_workers_comm'[r] = master_workers_comm[r]
            BY <1>1 DEF SameComms
          <6>2. RankIn(master_workers_comm[r], x) \in Nat \ {0}
            BY <2>1, <2>5, <3>1
          <6>3. ~(RankIn(master_workers_comm[r], x) <= 0)
            BY <6>2
          <6> QED BY <5>1, <6>1, <6>3 DEF HeardFrom
        <5>3. step'[x] = k + 1
          BY <2>2, <2>5, <3>1, <4>2
        <5> QED BY <1>5, <5>1, <5>2, <5>3 DEF OneAhead
      <4>4. CASE pc'[r] = "died"
        BY <4>4 DEF OneAhead
      <4> QED BY <4>3, <4>4
    <3> QED BY <1>1, <2>5, <3>1, SameRoles DEF InStep
  <2> QED BY <1>17, <2>3, <2>4, <2>5
<1>28. ASSUME NEW q \in World, bIsMaster[q] PROVE InStepMasters(q)'
  <2>0. workerless_masters_comm'[q] = C /\ workerless_masters_comm[r] = C
        /\ workerless_masters_comm' = workerless_masters_comm
    <3>1. q \in C
      BY <1>4, <1>28 DEF Masters
    <3> QED BY <1>1, <1>4, <3>1 DEF SameComms, C
  <2>1. CASE q # r
    <3>1. q \in C /\ RankIn(C, q) # 0
      BY <1>0, <1>1, <1>4, <1>28, <2>1, RanksInOrder DEF Masters
    <3> QED BY <2>0, <3>1 DEF InStepMasters
  <2>2. CASE q = r
    <3>1. ASSUME NEW x \in C \ {r} PROVE OneAhead(x, r, Told(r, x))'
      <4>1. x \in World /\ RankIn(C, x) \in Nat /\ RankIn(C, x) < Cardinality(C)
            /\ (x # s => RankIn(C, x) # h + 1)
        BY <1>0, <1>4, <1>7, <3>1, RanksInOrder
      <4>2. OneAhead(x, r, Told(r, x)) /\ pc[r] # "died" /\ pc[x] # "died"
        BY <1>1, <1>2, <1>3, <2>0, <3>1, <4>1 DEF Ranks, InStepMasters, Alive
      <4>3. x # s => pc'[x] = pc[x] /\ step'[x] = step[x]
        BY <1>19, <3>1, <4>1 DEF Still
      <4>4. CASE pc'[r] = "died" \/ pc'[x] = "died"
        BY <4>4 DEF OneAhead
      <4>5. CASE r \in done /\ pc'[r] # "died" /\ pc'[x] # "died"
        <5>1. step'[r] = k + 1 /\ ~Told(r, x)'
          BY <1>26, <4>5 DEF k, Told
        <5>2. step'[x] = k + 1
          <6>1. CASE x = s
            BY <1>12, <1>17, <1>26, <4>1, <4>5, <6>1
          <6>2. CASE x # s
            <7>1. RankIn(C, x) <= h
              BY <1>5, <1>6, <1>17, <4>1, <4>5, <6>2
            <7>2. Told(r, x)
              BY <1>1, <2>0, <7>1 DEF Told, h
            <7> QED BY <1>5, <4>2, <4>3, <6>2, <7>2 DEF OneAhead, k
          <6> QED BY <6>1, <6>2
        <5> QED BY <1>5, <5>1, <5>2 DEF OneAhead
      <4>6. CASE r \notin done /\ pc'[r] # "died" /\ pc'[x] # "died"
        <5>1. pc'[r] = "relay" /\ step'[r] = k /\ heard'[r] = h + 1
          BY <1>1, <1>23, <4>6 DEF k
        <5>2. Told(r, x)' <=> RankIn(C, x) <= h + 1
          BY <2>0, <5>1 DEF Told
        <5>3. CASE x = s
          <6>1. Told(r, x)'
            BY <1>5, <1>7, <5>2, <5>3
          <6>2. step'[x] = k + 1
            BY <1>12, <1>17, <1>26, <4>1, <4>6, <5>3
          <6> QED BY <1>5, <5>1, <6>1, <6>2 DEF OneAhead
        <5>4. CASE x # s
          <6>1. Told(r, x) <=> RankIn(C, x) <= h
            BY <1>1, <2>0 DEF Told, h
          <6>2. Told(r, x)' <=> Told(r, x)
            BY <1>5, <4>1, <5>2, <5>4, <6>1
          <6> QED BY <4>2, <4>3, <5>1, <5>4, <6>2 DEF OneAhead, k
        <5> QED BY <5>3, <5>4
      <4> QED BY <4>4, <4>5, <4>6
    <3> QED BY <2>0, <2>2, <3>1 DEF InStepMasters
  <2> QED BY <2>1, <2>2
<1>29. \A q \in World : pc'[q] # pc[q] =>
         pc[q] \notin Early \cup {"died"} /\ pc'[q] \notin Early \cup {"dup"}
  <2> SUFFICES ASSUME NEW q \in World, pc'[q] # pc[q]
               PROVE  pc[q] \notin Early \cup {"died"} /\ pc'[q] \notin Early \cup {"dup"}
    OBVIOUS
  <2>1. q \in done
    BY <1>18
  <2>2. pc[q] = "relay"
    BY <1>1, <1>17, <2>1
  <2>3. pc'[q] \in {"died", "running", "recv"}
    BY <1>26, <2>1
  <2> QED BY <2>2, <2>3 DEF Early
<1> QED BY <1>1, <1>2, <1>20, <1>25, <1>27, <1>28, <1>29, Exchanged

\* A master with all that it needs goes on.
LEMMA DescribedGoes ==
  ASSUME GroupsInv, Arrangement, Alive, Described, NEW r \in World, RelayNone(r)
  PROVE  Arrangement' /\ Described'
<1> DEFINE k == step[r]
<1>0. shape \in Shapes /\ Tables /\ pc \in [World -> PCs]
  BY DEF GroupsInv, Arrangement
<1>1. /\ pc[r] = "relay" /\ workerless_masters_comm[r] = {}
      /\ Leave({r}, environment, heard, received) /\ SameComms /\ UNCHANGED asked
  BY DEF RelayNone, unchangedBySync, SameComms, comms
<1>2. PICK D, m : Course(D, m) /\ Ranks(D, m)
  BY DEF Described
<1>3. bIsMaster[r] /\ RankInv(r, D, m) /\ k \in Nat \ {0}
  BY <1>0, <1>1, <1>2 DEF Ranks, RankInv, Kind, Tables
<1>4. /\ LeavesWith(r, environment[r])
      /\ \A q \in World : q # r => Still(q)
      /\ step' \in [World -> Nat \ {0}] /\ heard' \in [World -> Nat]
      /\ received' \in [World -> BOOLEAN] /\ pc' \in [World -> PCs]
      /\ IsRecordOf(environment', World) /\ IsRecordOf(client', World)
  <2>1. r \in {r} /\ \A q : q # r => q \notin {r}
    OBVIOUS
  <2>2. heard \in [World -> Nat] /\ received \in [World -> BOOLEAN] /\ IsRecordOf(environment, World)
    BY <1>0 DEF Tables
  <2>3. /\ \A q \in World : q \in {r} => LeavesWith(q, environment[q])
        /\ \A q \in World : q \notin {r} =>
             /\ pc'[q] = pc[q] /\ step'[q] = step[q] /\ heard'[q] = heard[q]
             /\ received'[q] = received[q] /\ environment'[q] = environment[q]
             /\ client'[q] = client[q]
        /\ step' \in [World -> Nat \ {0}] /\ heard' \in [World -> Nat]
        /\ received' \in [World -> BOOLEAN] /\ pc' \in [World -> PCs]
        /\ IsRecordOf(environment', World) /\ IsRecordOf(client', World)
    BY <1>0, <1>1, <2>2, LeaveIs
  <2> QED BY <2>1, <2>3 DEF Still
<1>5. Tables'
  BY <1>0, <1>1, <1>4, SameRoles DEF Tables, SameComms
<1>6. RankInv(r, D, m)'
  <2>1. CASE Starved(r)
    <3>1. /\ k <= 4 /\ Filled(environment[r], k) /\ ~environment[r].died
          /\ environment[r].nAgentsPerEnvironment = 1 /\ ~environment[r].separate
          /\ Len(environment[r].mdps) = 1 /\ environment[r].mdps[1].dimAction = 0
      BY <1>1, <1>3, <2>1 DEF RankInv, Starves, Talking
    <3>2. Bare(environment[r])
      BY <3>1 DEF Bare, Filled
    <3> QED BY <1>0, <1>1, <1>2, <1>3, <1>4, <2>1, <3>1, <3>2, LeavesStarved
  <2>2. CASE ~Starved(r)
    <3>1. received[r] /\ ~Runs(r)
      BY <1>1, <1>3, <2>2 DEF RankInv, Hears, Starved, Runs
    <3>2. Known(r) = k
      BY <3>1 DEF Known
    <3>3. /\ Filled(environment[r], k) /\ ~environment[r].died /\ Same(environment[r], D[k], k)
          /\ k + 1 <= m /\ k <= nFields(asked) /\ ~D[k].died /\ (Forks(r) => client[r] = D[k + 1])
      BY <1>1, <1>3, <2>2, <3>1, <3>2 DEF RankInv, Follows, Talking
    <3> QED BY <1>0, <1>1, <1>2, <1>3, <1>4, <2>2, <3>1, <3>3, Leaves
  <2> QED BY <2>1, <2>2
<1>7. ASSUME NEW q \in World PROVE RankInv(q, D, m)'
  <2>1. CASE q # r
    <3>1. Still(q) /\ RankInv(q, D, m)
      BY <1>2, <1>4, <2>1 DEF Ranks
    <3> QED BY <1>1, <3>1, RankStill
  <2>2. CASE q = r
    BY <1>6, <2>2
  <2> QED BY <2>1, <2>2
<1>8. ASSUME NEW q \in World, bIsMaster[q] PROVE InStep(q)' /\ InStepMasters(q)'
  <2>0. InStep(q) /\ InStepMasters(q)
    BY <1>2, <1>8 DEF Ranks
  <2>1. \A x \in Workers(q) : x \in World /\ x # r
                              /\ RankIn(master_workers_comm[q], x) \in Nat \ {0}
    BY <1>0, <1>3, <1>8, WorkersAre DEF Workers
  <2>2. \A x \in Workers(q) : pc'[x] = pc[x] /\ step'[x] = step[x] /\ pc[x] # "died"
    BY <1>4, <2>1 DEF Still, Alive
  <2>3. InStepMasters(q)'
    <3>1. workerless_masters_comm'[q] = {}
      BY <1>1, <1>3, <1>8 DEF Arrangement, MastersFit, Masters, SameComms
    <3> QED BY <3>1 DEF InStepMasters
  <2>4. CASE q # r
    <3>1. pc'[q] = pc[q] /\ step'[q] = step[q] /\ heard'[q] = heard[q]
      BY <1>4, <2>4 DEF Still
    <3>2. \A x : HeardFrom(q, x)' <=> HeardFrom(q, x)
      BY <1>1, <3>1 DEF HeardFrom, SameComms
    <3> QED BY <1>1, <2>0, <2>2, <2>3, <3>1, <3>2, InStepKept DEF Alive
  <2>5. CASE q = r
    <3>1. ASSUME NEW x \in Workers(r) PROVE OneAhead(x, r, HeardFrom(r, x))'
      <4>1. HeardFrom(r, x)
        BY <1>1 DEF HeardFrom
      <4>2. step'[x] = k + 1
        BY <1>3, <2>0, <2>2, <2>5, <3>1, <4>1 DEF InStep, OneAhead, Alive
      <4>3. CASE pc'[r] # "died"
        <5>1. pc'[r] \in {"running", "recv"} /\ heard'[r] = 0 /\ step'[r] = k + 1
          BY <1>3, <1>4, <4>3, MasterLeft
        <5>2. master_workers_comm'[r] = master_workers_comm[r]
          BY <1>1 DEF SameComms
        <5>3. RankIn(master_workers_comm[r], x) \in Nat \ {0}
          BY <2>1, <2>5, <3>1
        <5>4. ~(RankIn(master_workers_comm[r], x) <= 0)
          BY <5>3
        <5>5. ~HeardFrom(r, x)'
          BY <5>1, <5>2, <5>4 DEF HeardFrom
        <5> QED BY <1>3, <4>2, <5>1, <5>5 DEF OneAhead
      <4>4. CASE pc'[r] = "died"
        BY <4>4 DEF OneAhead
      <4> QED BY <4>3, <4>4
    <3>2. InStep(r)'
      BY <1>1, <3>1, SameRoles DEF InStep
    <3> QED BY <2>3, <2>5, <3>2
  <2> QED BY <2>4, <2>5
<1>9. \A q \in World : pc'[q] # pc[q] =>
         pc[q] \notin Early \cup {"died"} /\ pc'[q] \notin Early \cup {"dup"}
  <2> SUFFICES ASSUME NEW q \in World, pc'[q] # pc[q]
               PROVE  pc[q] \notin Early \cup {"died"} /\ pc'[q] \notin Early \cup {"dup"}
    OBVIOUS
  <2>1. q = r
    BY <1>4 DEF Still
  <2>2. pc'[r] \in {"died", "running", "recv"}
    BY <1>3, <1>4, MasterLeft
  <2> QED BY <1>1, <2>1, <2>2 DEF Early
<1> QED BY <1>1, <1>2, <1>5, <1>7, <1>8, <1>9, Exchanged

------------------------------------------------------------------------------
(* What the masters end with                                                *)

\* The ranks start with nothing, and the application with one descriptor.
LEMMA FirstAsked ==
  ASSUME setupInit
  PROVE  IsDescription(asked)
<1> DEFINE a == Environment.mdps[1]
           b == [a EXCEPT !.dimState = 1, !.dimAction = 1]
<1>1. IsDescription(Environment) /\ Len(Environment.mdps) = 1
  BY EnvironmentIs
<1>2. 1 \in 1 .. Len(Environment.mdps) /\ IsMDP(a)
  BY <1>1, InDescription
<1>3. asked = [Environment EXCEPT !.mdps[1] = b]
  BY DEF setupInit
<1>4. IsMDP(b)
  <2>1. DOMAIN MDPdescriptor = {"dimState", "dimAction", "options", "flags", "observed", "scales", "bounds"}
    BY DEF MDPdescriptor
  <2> HIDE DEF a
  <2> QED BY <1>2, <2>1 DEF IsMDP, IsRecordOf
<1> HIDE DEF b
<1>5. Replaces(asked, Environment, 1, b)
  BY <1>1, <1>2, <1>3, MDPReplaced
<1> QED BY <1>1, <1>2, <1>4, <1>5, WithMDP

LEMMA InitDescribed == setupInit => DescribedInv
<1> SUFFICES ASSUME setupInit PROVE DescribedInv
  OBVIOUS
<1>0. GroupsInv
  BY InitGroups
<1>1. /\ \A r \in World : /\ pc[r] = "figure" /\ bIsMaster[r] = FALSE /\ step[r] = 1
                          /\ received[r] = FALSE /\ heard[r] = 0 /\ environment[r] = Environment
                          /\ master_workers_comm[r] = {} /\ workerless_masters_comm[r] = {}
      /\ shape \in Shapes
  BY DEF setupInit
<1>2. Masters = {}
  BY <1>1 DEF Masters
<1>3. Tables
  BY DEF setupInit, Tables, PCs, IsRecordOf
<1>4. GroupsFit /\ MastersFit /\ AllEarly
  BY <1>1, <1>2 DEF GroupsFit, MastersFit, AllEarly, Early
<1>5. PICK D : D[1] = asked
  <2>1. [k \in 1 .. 1 |-> asked][1] = asked
    OBVIOUS
  <2> QED BY <2>1
<1>6. Course(D, 1)
  <2>0. IsDescription(asked)
    BY FirstAsked
  <2>1. Filled(asked, 1)
    BY <2>0 DEF Filled
  <2>2. 1 \in Nat \ {0} /\ 1 <= nFields(asked) + 1 /\ 1 .. 1 - 1 = {}
    BY <2>0, InDescription
  <2>3. \A k \in 1 .. 1 : k = 1
    OBVIOUS
  <2>4. \A k \in 1 .. 1 : Filled(D[k], k) /\ nFields(D[k]) = nFields(asked)
    BY <1>5, <2>1, <2>3
  <2>5. \A k \in 1 .. 1 - 1 : D[k + 1] = Advanced(D[k], k)
    BY <2>2
  <2> QED BY <1>5, <2>2, <2>4, <2>5 DEF Course
<1>7. Ranks(D, 1)
  BY <1>1 DEF Ranks, RankInv, Waits, Kind, FollowsRun, Follows, Starves, Hears, Talking
<1> QED BY <1>0, <1>3, <1>4, <1>6, <1>7 DEF DescribedInv, Described, Arrangement

LEMMA DescribedStays ==
  ASSUME DescribedInv, UNCHANGED setupVars
  PROVE  Arrangement' /\ Described'
<1>1. /\ SameComms /\ UNCHANGED <<asked, pc, step, heard, received, environment, client>>
      /\ Arrangement
  BY DEF DescribedInv, setupVars, comms, syncVars, SameComms
<1>2. Tables'
  BY <1>1, SameRoles DEF Arrangement, Tables, SameComms
<1>3. PICK D, m : Course(D, m) /\ Ranks(D, m)
  BY DEF DescribedInv, Described
<1>4. ASSUME NEW q \in World PROVE RankInv(q, D, m)'
  BY <1>1, <1>3, RankStill DEF Still, Ranks
<1>5. ASSUME NEW q \in World, bIsMaster[q] PROVE InStep(q)' /\ InStepMasters(q)'
  <2>1. InStep(q) /\ InStepMasters(q)
    BY <1>3, <1>5 DEF Ranks
  <2>2. \A s : /\ OneAhead(s, q, HeardFrom(q, s))' <=> OneAhead(s, q, HeardFrom(q, s))
               /\ OneAhead(s, q, Told(q, s))' <=> OneAhead(s, q, Told(q, s))
    BY <1>1 DEF OneAhead, HeardFrom, Told, SameComms
  <2>3. Workers(q)' = Workers(q) /\ workerless_masters_comm' = workerless_masters_comm
    BY <1>1, SameRoles DEF SameComms
  <2> QED BY <2>1, <2>2, <2>3 DEF InStep, InStepMasters
<1> QED BY <1>1, <1>2, <1>3, <1>4, <1>5, Exchanged

LEMMA NextDescribed ==
  ASSUME DescribedInv, [setupNext]_setupVars
  PROVE  DescribedInv'
<1>0. GroupsInv /\ GroupsInv' /\ Arrangement /\ Described
  BY NextGroups DEF DescribedInv
<1>1. CASE UNCHANGED setupVars
  BY <1>0, <1>1, DescribedStays DEF DescribedInv
<1>2. CASE Alive /\ Describe
  BY <1>0, <1>2, DescribedCalls DEF DescribedInv
<1>3. CASE Alive /\ Arrange
  BY <1>0, <1>3, DescribedFigured, DescribedLearners, DescribedGroups, DescribedMasters
     DEF DescribedInv, Arrange
<1>4. CASE Alive /\ \E r \in World : RankStep(r)
  <2>1. PICK r \in World : RankStep(r)
    BY <1>4
  <2>2. CASE \/ WorkersDie(r) \/ SplitEnvironments(r) \/ LookForDir(r) \/ MakeDir(r) \/ EnterDir(r)
             \/ RelayRefused(r)
    BY <1>0, <1>4, <2>2, DescribedRefused, DescribedTeams, DescribedDirs, DescribedApplication
       DEF DescribedInv
  <2>3. CASE Fork(r) \/ Bind(r) \/ SOCKET_clientConnect(r) \/ SOCKET_serverConnect(r)
    BY <1>0, <1>4, <2>3, DescribedForks, DescribedConnects DEF DescribedInv
  <2>4. CASE HostRecv(r) \/ MasterRecv(r) \/ MasterHeard(r) \/ RelaySend(r) \/ RelayNone(r)
    BY <1>0, <1>4, <2>4, DescribedHost, DescribedHears, DescribedHeard, DescribedTells, DescribedGoes
       DEF DescribedInv
  <2> QED BY <2>1, <2>2, <2>3, <2>4 DEF RankStep
<1> QED BY <1>1, <1>2, <1>3, <1>4 DEF setupNext, Alive

LEMMA CallingIs ==
  ASSUME DescribedInv, NEW r \in World, bIsMaster[r], pc[r] = "running"
  PROVE  nCallingEnvironments(r) \in Nat
<1>0. shape \in Shapes /\ shape.nWorkers \in Nat
  BY ShapeTypes DEF DescribedInv, GroupsInv
<1>1. CASE shape.nWorkers > 0
  <2> DEFINE C == master_workers_comm[r]
  <2>1. r \in C /\ C \subseteq World
    BY <1>1 DEF DescribedInv, Arrangement, GroupsFit, Early
  <2> HIDE DEF C
  <2>2. Cardinality(C) \in Nat /\ RankIn(C, r) \in Nat /\ RankIn(C, r) < Cardinality(C)
    BY <1>0, <2>1, FiniteWorld, RanksInOrder
  <2>3. Cardinality(C) - 1 \in Nat
    BY <2>2
  <2> QED BY <1>1, <2>3 DEF nCallingEnvironments, nOwnedEnvironments, C
<1>2. CASE ~(shape.nWorkers > 0)
  BY <1>0, <1>2, ForkedIs DEF nCallingEnvironments
<1> QED BY <1>1, <1>2

LEMMA DescribedImplies == DescribedInv => MastersDescribed
<1> SUFFICES ASSUME DescribedInv, NEW r \in World, NEW w \in Hosts,
                    pc[r] = "running", bIsMaster[r], pc[w] = "running"
             PROVE  LET mine == agentsOf(environment[r], nCallingEnvironments(r))
                        theirs == agentsOf(ofApplication(w), 1)
                    IN /\ Cardinality(DOMAIN mine) = nCallingEnvironments(r) * Cardinality(DOMAIN theirs)
                       /\ \A i \in DOMAIN mine :
                            /\ Space(mine[i].MDP) = Space(theirs[mine[i].localID].MDP)
                            /\ mine[i].trackEpisodes = theirs[mine[i].localID].trackEpisodes
  BY DEF MastersDescribed
<1> DEFINE N == nFields(asked)
           c == nCallingEnvironments(r)
           e == environment[r]
<1>0. shape \in Shapes /\ Tables
  BY DEF DescribedInv, GroupsInv, Arrangement
<1>1. PICK D, m : Course(D, m) /\ Ranks(D, m)
  BY DEF DescribedInv, Described
<1>2. N \in Nat /\ N >= 9 /\ m \in Nat
  BY <1>1, FieldsAsked
<1> HIDE DEF N
<1>3. ~Runs(r) /\ ~Starved(r) /\ pc[r] \in Talking
  BY <1>1 DEF Ranks, RankInv, Starves, Runs, Talking
<1>4. step[r] = N + 1 /\ ~received[r] /\ Known(r) = N
  <2>1. step[r] = N + 1 /\ ~received[r]
    BY <1>1, <1>3 DEF Ranks, RankInv, Follows, N
  <2> QED BY <1>2, <2>1 DEF Known
<1>5. Filled(e, N + 1) /\ N + 1 <= m /\ Same(e, D[N + 1], N)
  BY <1>1, <1>3, <1>4 DEF Ranks, RankInv, Follows
<1>6. N + 1 \in 1 .. m
  BY <1>2, <1>5
<1>7. Filled(D[N + 1], N + 1) /\ nFields(D[N + 1]) = N
  BY <1>1, <1>6 DEF Course, N
<1>8. ofApplication(w) = D[N + 1]
  <2>0. w \in World /\ (~bIsMaster[w] \/ nForkedProcesses2spawn(w) > 0)
        /\ nForkedProcesses2spawn(w) \in Nat /\ pc[w] \in Talking /\ RankInv(w, D, m)
    <3>1. w \in World /\ (~bIsMaster[w] \/ nForkedProcesses2spawn(w) > 0) /\ pc[w] \in Talking
      BY DEF Hosts, Talking
    <3> QED BY <1>0, <1>1, <3>1, ForkedIs DEF Ranks
  <2>1. CASE nForkedProcesses2spawn(w) > 0
    <3>1. ~Runs(w) /\ ~Starved(w) /\ Forks(w)
      BY <2>1 DEF Runs, Starved, Forks
    <3>2. step[w] = N + 1 /\ ~received[w]
      BY <2>0, <3>1 DEF RankInv, Follows, N
    <3>3. Known(w) = N
      BY <1>2, <3>2 DEF Known
    <3>4. client[w] = D[N + 1]
      BY <2>0, <3>1, <3>3 DEF RankInv, Follows
    <3> QED BY <2>1, <3>4 DEF ofApplication
  <2>2. CASE ~(nForkedProcesses2spawn(w) > 0)
    <3>1. Runs(w)
      BY <2>0, <2>2 DEF Runs
    <3>2. step[w] = N + 1 /\ environment[w] = D[step[w]]
      BY <2>0, <3>1 DEF RankInv, FollowsRun, N
    <3> QED BY <2>2, <3>2 DEF ofApplication
  <2> QED BY <2>1, <2>2
<1>9. c \in Nat
  BY CallingIs
<1> HIDE DEF c, e
<1> DEFINE d == D[N + 1]
<1>10. IsDescription(e) /\ IsDescription(d) /\ Len(e.mdps) = nDescriptors(e)
       /\ Len(d.mdps) = nDescriptors(d) /\ Same(e, d, nFields(d))
  <2>1. N + 1 > 4
    BY <1>2
  <2> QED BY <1>5, <1>7, <2>1 DEF Filled
<1> HIDE DEF d
<1>11. LET mine == agentsOf(e, c)
           theirs == agentsOf(d, 1)
       IN /\ Cardinality(DOMAIN mine) = c * Cardinality(DOMAIN theirs)
          /\ \A i \in DOMAIN mine :
               /\ Space(mine[i].MDP) = Space(theirs[mine[i].localID].MDP)
               /\ mine[i].trackEpisodes = theirs[mine[i].localID].trackEpisodes
  BY <1>9, <1>10, SameAgents
<1>12. ofApplication(w) = d
  BY <1>8 DEF d
<1> QED BY <1>11, <1>12 DEF c, e

\* What each rank has of the description, in the exchange and before (forkApplication,
\* synchronizeEnvironments), is what the application had at that field.
THEOREM DescribedInductive == setupSpec => []DescribedInv
<1> QED BY InitDescribed, NextDescribed, PTL DEF setupSpec

\* A master that gets to run has the problem that the application described, whoever
\* passed it on: the fields come in the order in which they are sent, and each rank is
\* at the field of the one that it hears (synchronizeEnvironments).
THEOREM MastersDescribedHolds == setupSpec => []MastersDescribed
<1> QED BY DescribedInductive, DescribedImplies, PTL

------------------------------------------------------------------------------
(* The spaces that a master gets to run with                                *)

\* The members of a descriptor that the agents' steps depend on have their types, ...
SpaceTyped(mdp) ==
  /\ mdp.dimState \in Nat /\ mdp.dimAction \in Nat
  /\ mdp.options \in Seq(Nat) /\ mdp.observed \in Seq(BOOLEAN)

SpacesTyped(e) ==
  /\ e.tracked \in Seq(BOOLEAN)
  /\ \A i \in 1 .. Len(e.mdps) : SpaceTyped(e.mdps[i])

\* ... and the first n fields of it are as they must be.
Accepted(mdp, n) ==
  /\ n >= 1 => mdp.dimAction # 0
  /\ n >= 4 => Len(mdp.observed) = mdp.dimState
  /\ n >= 6 /\ bDiscreteActions(mdp) =>
       /\ Len(mdp.options) = mdp.dimAction
       /\ \A j \in DOMAIN mdp.options : mdp.options[j] >= 2

\* A description of which the first k fields have been passed on.
Sound(e, k) ==
  /\ SpacesTyped(e)
  /\ k >= 2 => Len(e.tracked) = e.nAgentsPerEnvironment
  /\ \A i \in Nat \ {0} : 6 * (i - 1) + 3 < k => Accepted(e.mdps[i], k - 3 - 6 * (i - 1))

\* What does not change the dimensions, the options and the observed states of a
\* descriptor changes nothing of this.
LEMMA SpaceKept ==
  ASSUME NEW a, NEW c, c.dimState = a.dimState, c.dimAction = a.dimAction,
         c.options = a.options, c.observed = a.observed, SpaceTyped(a)
  PROVE  SpaceTyped(c) /\ \A n : Accepted(a, n) => Accepted(c, n)
BY DEF SpaceTyped, Accepted, bDiscreteActions

LEMMA AcceptedLess ==
  ASSUME NEW a, NEW n \in Int, NEW l \in Int, l <= n, Accepted(a, n)
  PROVE  Accepted(a, l)
BY DEF Accepted

\* The default of what is observed is all of the state.
LEMMA PreparedSpace ==
  ASSUME NEW a, IsMDP(a), SpaceTyped(a), NEW p \in 1 .. 6, Accepted(a, p - 1)
  PROVE  LET c == PreparedMDP(a, FieldAt(a, p)) IN
         SpaceTyped(c) /\ Accepted(c, p - 1)
<1> DEFINE f == FieldAt(a, p)
           c == PreparedMDP(a, f)
           MF == DOMAIN MDPdescriptor
<1>m. MF = {"dimState", "dimAction", "options", "flags", "observed", "scales", "bounds"}
  BY DEF MDPdescriptor
<1>0. a = [x \in MF |-> a[x]]
  BY DEF IsMDP, IsRecordOf
<1>1. CASE f = "observed" /\ a.observed = <<>>
  <2> DEFINE v == [i \in 1 .. a.dimState |-> TRUE]
  <2>1. p = 4
    <3>1. p \in {1, 2, 3, 4, 5, 6}
      OBVIOUS
    <3> QED BY <1>1, <3>1, FieldsAt
  <2>2. c = [a EXCEPT !.observed = v]
    BY <1>1 DEF PreparedMDP
  <2> HIDE DEF f, c, MF
  <2>3. v \in Seq(BOOLEAN)
    <3>1. v \in [1 .. a.dimState -> BOOLEAN] /\ a.dimState \in Nat
      BY DEF SpaceTyped
    <3> HIDE DEF v
    <3> QED BY <3>1, IsASeq
  <2>4. /\ c.dimState = a.dimState /\ c.dimAction = a.dimAction /\ c.options = a.options
        /\ c.observed = v
    BY <1>m, <1>0, <2>2
  <2> HIDE DEF v
  <2>5. SpaceTyped(c)
    BY <2>3, <2>4 DEF SpaceTyped
  <2>6. Accepted(c, p - 1)
    BY <2>1, <2>4 DEF Accepted
  <2> QED BY <2>5, <2>6 DEF c, f
<1>2. CASE ~(f = "observed" /\ a.observed = <<>>)
  <2> DEFINE t == [i \in 1 .. dimStateObserved(a) |-> Default]
             z == state2observed(a, a.scales)
             b == [i \in 1 .. a.dimAction |-> <<-1, 1>>]
  <2>0. \/ c = a \/ c = [a EXCEPT !.scales = t] \/ c = [a EXCEPT !.scales = z]
        \/ c = [a EXCEPT !.bounds = b]
    <3> HIDE DEF f
    <3>1. CASE f = "observed"
      BY <1>2, <3>1 DEF PreparedMDP
    <3>2. CASE f = "scales"
      BY <3>2 DEF PreparedMDP
    <3>3. CASE f = "bounds"
      BY <3>3 DEF PreparedMDP
    <3>4. CASE f \notin {"observed", "scales", "bounds"}
      BY <3>4 DEF PreparedMDP
    <3> QED BY <3>1, <3>2, <3>3, <3>4
  <2> HIDE DEF t, z, b, c, f
  <2>1. \/ c = a
        \/ \E x : c = [a EXCEPT !.scales = x]
        \/ \E x : c = [a EXCEPT !.bounds = x]
    BY <2>0
  <2> HIDE DEF f, c, MF
  <2>2. /\ c.dimState = a.dimState /\ c.dimAction = a.dimAction /\ c.options = a.options
        /\ c.observed = a.observed
    BY <1>m, <1>0, <2>1
  <2>3. SpaceTyped(c) /\ Accepted(c, p - 1)
    BY <2>2, SpaceKept
  <2> QED BY <2>3 DEF c, f
<1> QED BY <1>1, <1>2

\* A descriptor of which one field more has been found right.
LEMMA AcceptedMore ==
  ASSUME NEW a, SpaceTyped(a), NEW p \in 1 .. 6, Accepted(a, p - 1), ~Wrong(a, FieldAt(a, p))
  PROVE  Accepted(a, p)
<1>1. CASE p = 1
  <2>1. a.dimAction # 0
    BY <1>1, FieldsAt DEF Wrong
  <2> QED BY <1>1, <2>1 DEF Accepted
<1>2. CASE p = 4
  <2>1. FieldAt(a, p) = "observed"
    BY <1>2, FieldsAt
  <2>2. Len(a.observed) = a.dimState
    BY <2>1 DEF Wrong
  <2> QED BY <1>2, <2>2 DEF Accepted
<1>3. CASE p = 6 /\ bDiscreteActions(a)
  <2>1. FieldAt(a, p) = "options"
    BY <1>3, FieldsAt
  <2>2. ~(Len(a.options) # a.dimAction \/ \E i \in DOMAIN a.options : a.options[i] < 2)
    BY <2>1 DEF Wrong
  <2>3. \A i \in DOMAIN a.options : a.options[i] \in Nat
    BY DEF SpaceTyped
  <2>4. \A i \in DOMAIN a.options : a.options[i] >= 2
    BY <2>2, <2>3
  <2> QED BY <1>3, <2>2, <2>4 DEF Accepted
<1>4. CASE p \in {2, 3, 5} \/ (p = 6 /\ ~bDiscreteActions(a))
  BY <1>4 DEF Accepted
<1> QED BY <1>1, <1>2, <1>3, <1>4

\* One descriptor is replaced by one that is right as far as it has to be.
LEMMA SoundReplaced ==
  ASSUME NEW e, NEW k \in Int, Reaches(e, k), Sound(e, k), NEW m \in 1 .. Len(e.mdps),
         NEW mdp, SpaceTyped(mdp), NEW w, Replaces(w, e, m, mdp),
         6 * (m - 1) + 3 < k => Accepted(mdp, k - 3 - 6 * (m - 1))
  PROVE  Sound(w, k)
<1>1. EnvironmentFields = {"nAgentsPerEnvironment", "separate", "distributed", "tracked", "mdps", "died"}
  BY DEF EnvironmentFields
<1>2. /\ w.nAgentsPerEnvironment = e.nAgentsPerEnvironment /\ w.tracked = e.tracked
      /\ IsRecordOf(w.mdps, 1 .. Len(e.mdps)) /\ w.mdps[m] = mdp
      /\ \A i \in 1 .. Len(e.mdps) : i # m => w.mdps[i] = e.mdps[i]
  BY <1>1 DEF Replaces
<1>3. Len(w.mdps) = Len(e.mdps)
  <2>1. Len(e.mdps) \in Nat
    BY InDescription DEF Reaches
  <2> QED BY <1>2, <2>1, ListIs
<1>4. SpacesTyped(w)
  BY <1>2, <1>3 DEF SpacesTyped, Sound
<1>5. k >= 2 => Len(w.tracked) = w.nAgentsPerEnvironment
  BY <1>2 DEF Sound
<1>6. ASSUME NEW i \in Nat \ {0}, 6 * (i - 1) + 3 < k
      PROVE  Accepted(w.mdps[i], k - 3 - 6 * (i - 1))
  <2>1. i \in 1 .. Len(e.mdps)
    BY <1>6, DescriptorAt
  <2>2. Accepted(e.mdps[i], k - 3 - 6 * (i - 1))
    BY <1>6 DEF Sound
  <2> QED BY <1>2, <1>6, <2>1, <2>2
<1> QED BY <1>4, <1>5, <1>6 DEF Sound

\* A field more of a description has been found right.
LEMMA SoundMore ==
  ASSUME NEW e, NEW k \in Nat, k > 3, Sound(e, k - 1), Accepted(e.mdps[mdpOf(k)], PlaceOf(k))
  PROVE  Sound(e, k)
<1> DEFINE m == mdpOf(k)
           p == PlaceOf(k)
<1>1. m \in Nat \ {0} /\ p \in 1 .. 6 /\ k = 6 * (m - 1) + 3 + p /\ Accepted(e.mdps[m], p)
  BY Places
<1> HIDE DEF m, p
<1>2. ASSUME NEW i \in Nat \ {0}, 6 * (i - 1) + 3 < k
      PROVE  Accepted(e.mdps[i], k - 3 - 6 * (i - 1))
  <2>1. CASE i = m
    <3>1. k - 3 - 6 * (i - 1) = p
      BY <1>1, <2>1
    <3> QED BY <1>1, <2>1, <3>1
  <2>2. CASE i # m
    <3> DEFINE n == (k - 1) - 3 - 6 * (i - 1)
    <3>1. 6 * (i - 1) + 3 < k - 1 /\ n >= 6 /\ n \in Int /\ k - 3 - 6 * (i - 1) = n + 1
      BY <1>1, <1>2, <2>2
    <3>2. Accepted(e.mdps[i], n)
      BY <3>1 DEF Sound
    <3> HIDE DEF n
    <3>3. Accepted(e.mdps[i], n + 1)
      BY <3>1, <3>2 DEF Accepted
    <3> QED BY <3>1, <3>3
  <2> QED BY <2>1, <2>2
<1>3. SpacesTyped(e) /\ Len(e.tracked) = e.nAgentsPerEnvironment
  BY DEF Sound
<1> QED BY <1>2, <1>3 DEF Sound

\* A field that is settled without an error is right.
LEMMA SettledSound ==
  ASSUME NEW k \in Nat \ {0}, NEW e, Filled(e, k), ~e.died, k <= nFields(e), Sound(e, k - 1),
         ~Settled(e, k).died
  PROVE  k # 2 => Sound(Settled(e, k), k)
<1> DEFINE s == Settled(e, k)
           m == mdpOf(k)
           p == PlaceOf(k)
           a == e.mdps[m]
<1>0. IsDescription(e) /\ (k > 3 => Len(e.mdps) = nDescriptors(e))
  BY DEF Filled
<1>1. CASE k = 1
  <2>1. s = e
    BY <1>0, <1>1, SettledIs
  <2>2. Sound(e, k)
    BY <1>1 DEF Sound
  <2> QED BY <2>1, <2>2
<1>2. CASE k = 3
  <2>1. s = initDescriptors(e)
    BY <1>0, <1>2, SettledIs
  <2>e. /\ IsRecordOf(e, EnvironmentFields)
        /\ EnvironmentFields = {"nAgentsPerEnvironment", "separate", "distributed", "tracked", "mdps", "died"}
    BY <1>0, EnvironmentHas DEF IsDescription, EnvironmentFields
  <2> HIDE DEF s
  <2> DEFINE n == nDescriptors(e)
             v == Resized(e.mdps, n, e.mdps[1])
  <2>2. s = [e EXCEPT !.mdps = v]
    <3>1. ~s.died
      BY DEF s
    <3>2. ~(s = [e EXCEPT !.died = TRUE])
      BY <2>e, <3>1 DEF IsRecordOf
    <3> QED BY <2>1, <3>2 DEF initDescriptors
  <2>3. n \in Nat \ {0} /\ Len(e.mdps) \in Nat \ {0}
    BY <1>0, InDescription
  <2> HIDE DEF n
  <2>4. Len(v) = n /\ \A i \in 1 .. n : v[i] = IF i <= Len(e.mdps) THEN e.mdps[i] ELSE e.mdps[1]
    BY <2>3, ResizedIs
  <2> HIDE DEF v
  <2>5. s.tracked = e.tracked /\ s.nAgentsPerEnvironment = e.nAgentsPerEnvironment /\ s.mdps = v
    BY <2>e, <2>2 DEF IsRecordOf
  <2>6. SpacesTyped(e) /\ Len(e.tracked) = e.nAgentsPerEnvironment
    BY <1>2 DEF Sound
  <2>7. SpacesTyped(s)
    <3>1. \A i \in 1 .. n : SpaceTyped(v[i])
      BY <2>3, <2>4, <2>6 DEF SpacesTyped
    <3> QED BY <2>4, <2>5, <2>6, <3>1 DEF SpacesTyped
  <2>8. \A i \in Nat \ {0} : ~(6 * (i - 1) + 3 < k)
    BY <1>2
  <2> QED BY <2>5, <2>6, <2>7, <2>8 DEF Sound, s
<1>3. CASE k > 3
  <2>1. m \in 1 .. Len(e.mdps) /\ p \in 1 .. 6 /\ k = 6 * (m - 1) + 3 + p
    BY <1>0, <1>3, InPlace, Places
  <2>2. IsMDP(a) /\ SpaceTyped(a)
    BY <1>0, <2>1, InDescription DEF Sound, SpacesTyped
  <2>3. Accepted(a, p - 1)
    <3>1. CASE p = 1
      BY <3>1 DEF Accepted
    <3>2. CASE p > 1
      <4>1. m \in Nat \ {0} /\ 6 * (m - 1) + 3 < k - 1 /\ (k - 1) - 3 - 6 * (m - 1) = p - 1
        BY <2>1, <3>2, SMTT(30)
      <4>2. Accepted(e.mdps[m], (k - 1) - 3 - 6 * (m - 1))
        <5> HIDE DEF m, p
        <5> QED BY <4>1 DEF Sound
      <4> QED BY <4>1, <4>2
    <3> QED BY <2>1, <3>1, <3>2
  <2>4. Field(e, k) = FieldAt(a, p)
    BY <1>3, FieldIs
  <2>5. ~Fails(e, k)
    <3>1. CASE Fails(e, k)
      <4>1. s = [e EXCEPT !.died = TRUE]
        BY <1>0, <1>3, <3>1, SettledIs
      <4>2. s.died
        <5> HIDE DEF s
        <5>1. IsRecordOf(e, EnvironmentFields) /\ "died" \in EnvironmentFields
          BY <1>0, EnvironmentHas DEF IsDescription, EnvironmentFields
        <5> QED BY <4>1, <5>1 DEF IsRecordOf
      <4> QED BY <4>2
    <3> QED BY <3>1
  <2>6. ~Wrong(a, FieldAt(a, p))
    BY <1>3, <2>4, <2>5 DEF Fails
  <2> HIDE DEF a
  <2>7. Accepted(a, p)
    <3> HIDE DEF p
    <3> QED BY <2>1, <2>2, <2>3, <2>6, AcceptedMore
  <2>8. Sound(e, k)
    BY <1>3, <2>7, SoundMore DEF a
  <2>9. CASE Bounded(e, k)
    <3>1. s = [e EXCEPT !.mdps[m] = OrderedMDP(a)]
      BY <1>0, <1>3, <2>9, SettledIs DEF a
    <3>2. Replaces([e EXCEPT !.mdps[m] = OrderedMDP(a)], e, m, OrderedMDP(a))
      BY <1>0, <2>1, MDPReplaced
    <3>3. Replaces(s, e, m, OrderedMDP(a))
      <4> HIDE DEF s, m
      <4> QED BY <3>1, <3>2
    <3>4. SpaceTyped(OrderedMDP(a)) /\ Accepted(OrderedMDP(a), p)
      <4> DEFINE c == OrderedMDP(a)
      <4>1. \A f \in DOMAIN MDPdescriptor : f # "bounds" => c[f] = a[f]
        BY <2>2, OrderedIs
      <4>2. DOMAIN MDPdescriptor
              = {"dimState", "dimAction", "options", "flags", "observed", "scales", "bounds"}
        BY DEF MDPdescriptor
      <4> HIDE DEF c
      <4>3. /\ c.dimState = a.dimState /\ c.dimAction = a.dimAction /\ c.options = a.options
            /\ c.observed = a.observed
        BY <4>1, <4>2
      <4>4. SpaceTyped(c) /\ Accepted(c, p)
        BY <2>2, <2>7, <4>3, SpaceKept
      <4> QED BY <4>4 DEF c
    <3>5. k - 3 - 6 * (m - 1) = p
      BY <2>1, SMTT(30)
    <3>6. Reaches(e, k)
      BY <1>0, <1>3 DEF Reaches
    <3> HIDE DEF s, m, p
    <3>7. Sound(s, k)
      BY <2>1, <2>8, <3>3, <3>4, <3>5, <3>6, SoundReplaced
    <3> QED BY <3>7 DEF s
  <2>10. CASE ~Bounded(e, k)
    <3>1. s = e
      BY <1>0, <1>3, <2>5, <2>10, SettledIs
    <3> QED BY <2>8, <3>1
  <2> QED BY <2>9, <2>10
<1> QED BY <1>1, <1>2, <1>3

\* There are as many choices to track an agent as there are agents.
LEMMA AsManyTracked ==
  ASSUME NEW v, NEW n \in Nat
  PROVE  Len(Resized(v, n, TRUE)) = n
<1> DEFINE s == Resized(v, n, TRUE)
<1>1. IsRecordOf(s, 1 .. n)
  BY DEF Resized, IsRecordOf
<1> HIDE DEF s
<1>2. Len(s) = n
  BY <1>1, ListIs
<1> QED BY <1>2 DEF s

\* And so is the description as the next field is about to be passed on.
LEMMA AdvancedSound ==
  ASSUME NEW k \in Nat \ {0}, NEW e, Filled(e, k), ~e.died, k <= nFields(e), Sound(e, k - 1),
         ~Advanced(e, k).died
  PROVE  Sound(Advanced(e, k), k)
<1> DEFINE s == Settled(e, k)
           w == Advanced(e, k)
<1>0. IsDescription(e) /\ nFields(e) \in Nat /\ nFields(e) >= 9
  BY InDescription DEF Filled
<1>1. ~s.died
  BY <1>0, DiedStays
<1>2. /\ IsDescription(s) /\ nFields(s) = nFields(e)
      /\ s.tracked = e.tracked /\ s.nAgentsPerEnvironment = e.nAgentsPerEnvironment
      /\ k >= 3 => Len(s.mdps) = nDescriptors(s)
  BY <1>1, SettledFacts
<1>3. k # 2 => Sound(s, k)
  BY <1>1, SettledSound
<1>4. k = 2 => s = e
  BY <1>0, SettledIs
<1>5. CASE k = nFields(s)
  <2>1. w = s
    BY <1>5 DEF Advanced
  <2> QED BY <1>0, <1>2, <1>3, <1>5, <2>1
<1>6. CASE k # nFields(s)
  <2>1. w = Prepared(s, k + 1)
    BY <1>1, <1>6 DEF Advanced
  <2>e. /\ IsRecordOf(s, EnvironmentFields)
        /\ EnvironmentFields = {"nAgentsPerEnvironment", "separate", "distributed", "tracked", "mdps", "died"}
    BY <1>2, EnvironmentHas DEF IsDescription, EnvironmentFields
  <2> HIDE DEF s, w
  <2>2. k + 1 \in Nat \ {0} /\ k + 1 <= nFields(s)
    BY <1>0, <1>2, <1>6
  <2>3. CASE k = 1
    <3>1. w = s
      <4>1. Field(s, k + 1) # "tracked" /\ k + 1 <= Len(EnvFields)
        BY <2>2, <2>3, FieldIs, NumbersOfFields
      <4> QED BY <2>1, <4>1 DEF Prepared
    <3> QED BY <1>3, <2>3, <3>1 DEF w
  <2>4. CASE k = 2
    <3> DEFINE n == s.nAgentsPerEnvironment
               t == Resized(s.tracked, n, TRUE)
    <3>1. w = [s EXCEPT !.tracked = t]
      BY <2>1, <2>2, <2>4, FieldIs DEF Prepared
    <3>2. n \in Nat /\ s.tracked \in Seq(BOOLEAN)
      BY <1>2, <2>4, <1>4 DEF IsDescription, Sound, SpacesTyped
    <3> HIDE DEF n
    <3>3. Len(t) = n
      <4>1. n \in Nat
        BY <3>2
      <4> QED BY <4>1, AsManyTracked
    <3>4. t \in [1 .. n -> BOOLEAN]
      <4>1. \A i \in 1 .. n : (IF i <= Len(s.tracked) THEN s.tracked[i] ELSE TRUE) \in BOOLEAN
        <5> SUFFICES ASSUME NEW i \in 1 .. n, i <= Len(s.tracked) PROVE s.tracked[i] \in BOOLEAN
          OBVIOUS
        <5>1. i \in 1 .. Len(s.tracked)
          BY <3>2
        <5> QED BY <3>2, <5>1
      <4> QED BY <4>1 DEF Resized
    <3>5. t \in Seq(BOOLEAN)
      <4> HIDE DEF t
      <4> QED BY <3>2, <3>4, IsASeq
    <3> HIDE DEF t
    <3>6. w.tracked = t /\ w.mdps = s.mdps /\ w.nAgentsPerEnvironment = n
      BY <2>e, <3>1 DEF IsRecordOf, n
    <3>7. SpacesTyped(w)
      BY <1>4, <2>4, <3>5, <3>6 DEF SpacesTyped, Sound
    <3>8. \A i \in Nat \ {0} : ~(6 * (i - 1) + 3 < k)
      BY <2>4
    <3> QED BY <3>3, <3>6, <3>7, <3>8 DEF Sound, w
  <2>5. CASE k >= 3
    <3> DEFINE m == mdpOf(k + 1)
               p == PlaceOf(k + 1)
               a == s.mdps[m]
               c == PreparedMDP(a, FieldAt(a, p))
    <3>0. Sound(s, k) /\ Len(s.mdps) = nDescriptors(s)
      BY <1>2, <1>3, <2>5
    <3>1. m \in 1 .. Len(s.mdps) /\ p \in 1 .. 6 /\ k + 1 = 6 * (m - 1) + 3 + p
      BY <1>2, <2>2, <2>5, <3>0, InPlace, Places
    <3>2. IsMDP(a) /\ SpaceTyped(a)
      BY <1>2, <3>0, <3>1, InDescription DEF Sound, SpacesTyped
    <3>3. Field(s, k + 1) = FieldAt(a, p)
      BY <2>2, <2>5, FieldIs
    <3>4. FieldAt(a, p) # "tracked"
      <4>1. p \in {1, 2, 3, 4, 5, 6}
        BY <3>1
      <4>2. FieldAt(a, p) \in {"dims", "nOptions", "flags", "observed", "scales", "options", "bounds"}
        <5> HIDE DEF a, p
        <5> QED BY <4>1, FieldsAt
      <4> QED BY <4>2
    <3>5. w = [s EXCEPT !.mdps[m] = c]
      BY <2>1, <2>5, <3>3, <3>4, NumbersOfFields DEF Prepared
    <3>6. Replaces([s EXCEPT !.mdps[m] = c], s, m, c)
      BY <1>2, <3>1, MDPReplaced
    <3>7. Replaces(w, s, m, c)
      <4> HIDE DEF c, m
      <4> QED BY <3>5, <3>6
    <3>8. Accepted(a, p - 1)
      <4>1. CASE p = 1
        BY <4>1 DEF Accepted
      <4>2. CASE p > 1
        <5>1. m \in Nat \ {0} /\ 6 * (m - 1) + 3 < k /\ k - 3 - 6 * (m - 1) = p - 1
          BY <3>1, <4>2
        <5>2. Accepted(s.mdps[m], k - 3 - 6 * (m - 1))
          <6> HIDE DEF m, p
          <6> QED BY <3>0, <5>1 DEF Sound
        <5> QED BY <5>1, <5>2
      <4> QED BY <3>1, <4>1, <4>2
    <3>9. SpaceTyped(c) /\ Accepted(c, p - 1)
      <4> HIDE DEF a, p
      <4> QED BY <3>1, <3>2, <3>8, PreparedSpace
    <3>10. k - 3 - 6 * (m - 1) = p - 1 /\ Reaches(s, k)
      BY <1>2, <2>2, <2>5, <3>0, <3>1 DEF Reaches
    <3> HIDE DEF c, m, p, a
    <3>11. Sound(w, k)
      BY <3>0, <3>1, <3>7, <3>9, <3>10, SoundReplaced
    <3> QED BY <3>11 DEF w
  <2> QED BY <2>3, <2>4, <2>5
<1> QED BY <1>5, <1>6

\* The description of the application stays sound for as long as it finds no error.
LEMMA CourseSound ==
  ASSUME NEW D, NEW m, Course(D, m), SpacesTyped(asked), NEW k \in 1 .. m, ~D[k].died
  PROVE  Sound(D[k], k - 1)
<1> DEFINE N == {j \in Nat : j + 1 <= m /\ ~D[j + 1].died => Sound(D[j + 1], j)}
<1>0. m \in Nat \ {0} /\ D[1] = asked /\ nFields(asked) \in Nat /\ m <= nFields(asked) + 1
  BY FieldsAsked DEF Course
<1>1. 0 \in N
  <2>1. Sound(asked, 0)
    <3>1. \A i \in Nat \ {0} : ~(6 * (i - 1) + 3 < 0)
      OBVIOUS
    <3> QED BY <3>1 DEF Sound
  <2> QED BY <1>0, <2>1
<1>2. ASSUME NEW j \in N PROVE j + 1 \in N
  <2> SUFFICES ASSUME (j + 1) + 1 <= m, ~D[(j + 1) + 1].died PROVE Sound(D[(j + 1) + 1], j + 1)
    OBVIOUS
  <2> DEFINE l == j + 1
  <2>1. l \in Nat \ {0} /\ l \in 1 .. m /\ l \in 1 .. m - 1 /\ l <= nFields(asked) /\ j = l - 1
    BY <1>0
  <2> HIDE DEF l
  <2>2. Filled(D[l], l) /\ nFields(D[l]) = nFields(asked) /\ D[l + 1] = Advanced(D[l], l)
    BY <2>1 DEF Course
  <2>3. ~Advanced(D[l], l).died
    BY <2>2 DEF l
  <2>4. ~D[l].died
    BY <2>1, <2>2, <2>3, DiedStays DEF Filled
  <2>5. Sound(D[l], l - 1)
    <3>1. j + 1 <= m /\ ~D[j + 1].died => Sound(D[j + 1], j)
      OBVIOUS
    <3> QED BY <1>0, <2>1, <2>4, <3>1 DEF l
  <2>6. Sound(Advanced(D[l], l), l)
    BY <2>1, <2>2, <2>3, <2>4, <2>5, AdvancedSound
  <2> QED BY <2>2, <2>6 DEF l
<1>3. N \in SUBSET Nat
  OBVIOUS
<1> HIDE DEF N
<1>4. N = Nat
  BY <1>1, <1>2, <1>3, UpFromZero
<1>5. k - 1 \in N /\ (k - 1) + 1 = k
  BY <1>0, <1>4
<1> QED BY <1>0, <1>5 DEF N

\* The calls give members of the right types, whether they are accepted or not.
LEMMA CallTyped ==
  ASSUME IsDescription(asked), SpacesTyped(asked), Call
  PROVE  SpacesTyped(asked')
<1> USE DEF Ask
<1>e. /\ EnvironmentFields = {"nAgentsPerEnvironment", "separate", "distributed", "tracked", "mdps", "died"}
      /\ IsRecordOf(asked, EnvironmentFields)
  BY EnvironmentHas DEF EnvironmentFields, IsDescription
<1>m. DOMAIN MDPdescriptor = {"dimState", "dimAction", "options", "flags", "observed", "scales", "bounds"}
  BY DEF MDPdescriptor
<1>n. asked.nAgentsPerEnvironment \in Nat \ {0} /\ MaxDim \in Nat
  BY MaxDimAssumption DEF IsDescription
<1>1. ASSUME asked'.tracked = asked.tracked, asked'.mdps = asked.mdps PROVE SpacesTyped(asked')
  BY <1>1 DEF SpacesTyped
<1>2. ASSUME asked' = [asked EXCEPT !.died = TRUE] PROVE SpacesTyped(asked')
  BY <1>e, <1>1, <1>2 DEF IsRecordOf
<1>3. ASSUME NEW i \in DOMAIN asked.mdps, NEW mdp, SpaceTyped(mdp), asked' = [asked EXCEPT !.mdps[i] = mdp]
      PROVE  SpacesTyped(asked')
  <2>1. i \in 1 .. Len(asked.mdps) /\ Len(asked.mdps) \in Nat
    BY <1>3, InDescription
  <2>2. Replaces(asked', asked, i, mdp)
    BY <1>3, <2>1, MDPReplaced
  <2>3. Len(asked'.mdps) = Len(asked.mdps)
    BY <2>1, <2>2, ListIs DEF Replaces
  <2>4. asked'.tracked = asked.tracked
    BY <1>e, <2>2 DEF Replaces
  <2>5. \A j \in 1 .. Len(asked.mdps) : SpaceTyped(asked'.mdps[j])
    BY <1>3, <2>2 DEF Replaces, SpacesTyped
  <2> QED BY <2>3, <2>4, <2>5 DEF SpacesTyped
<1>4. ASSUME NEW i \in DOMAIN asked.mdps,
             \/ \E s \in 0 .. MaxDim, a \in 1 .. MaxDim : setStateActionDims(i, s, a)
             \/ \E b \in Vectors({<<0, 2>>, <<2, 0>>}) : setActionScales(i, b)
             \/ \E o \in Vectors({1, 2, 3}) : setActionOptions(i, o)
             \/ \E o \in Vectors(BOOLEAN) : setStateObservable(i, o)
             \/ \E s \in Vectors({Given, Flat}) : setStateScales(i, s)
             \/ setIsPartiallyObservable(i) \/ setPreprocessingConv2d(i)
             \/ setNumAppendedPastObservations(i) \/ agentsShareExplorationNoise(i)
      PROVE  SpacesTyped(asked')
  <2> DEFINE a == asked.mdps[i]
  <2>0. IsMDP(a) /\ SpaceTyped(a)
    BY <1>4, InDescription DEF SpacesTyped
  <2>v. ASSUME NEW S, NEW v \in Vectors(S) PROVE v \in Seq(S)
    <3>1. PICK n \in 1 .. MaxDim : v \in [1 .. n -> S]
      BY <2>v DEF Vectors
    <3>2. n \in Nat
      BY <1>n
    <3> QED BY <3>1, <3>2, IsASeq
  <2>1. asked' = [asked EXCEPT !.died = TRUE]
        \/ \E mdp : SpaceTyped(mdp) /\ asked' = [asked EXCEPT !.mdps[i] = mdp]
    <3>1. ASSUME NEW s \in 0 .. MaxDim, NEW n \in 1 .. MaxDim, setStateActionDims(i, s, n)
          PROVE  \E mdp : SpaceTyped(mdp) /\ asked' = [asked EXCEPT !.mdps[i] = mdp]
      <4>1. asked' = [asked EXCEPT !.mdps[i] = [a EXCEPT !.dimState = s, !.dimAction = n]]
        BY <3>1 DEF setStateActionDims
      <4>2. s \in Nat /\ n \in Nat
        BY <1>n
      <4>3. SpaceTyped([a EXCEPT !.dimState = s, !.dimAction = n])
        BY <1>m, <2>0, <4>2 DEF IsMDP, IsRecordOf, SpaceTyped
      <4> QED BY <4>1, <4>3
    <3>2. ASSUME NEW b, setActionScales(i, b)
          PROVE  asked' = [asked EXCEPT !.died = TRUE]
                 \/ \E mdp : SpaceTyped(mdp) /\ asked' = [asked EXCEPT !.mdps[i] = mdp]
      <4>1. asked' = [asked EXCEPT !.died = TRUE]
            \/ asked' = [asked EXCEPT !.mdps[i] = [a EXCEPT !.bounds = b]]
        BY <3>2 DEF setActionScales
      <4>2. SpaceTyped([a EXCEPT !.bounds = b])
        BY <1>m, <2>0 DEF IsMDP, IsRecordOf, SpaceTyped
      <4> QED BY <4>1, <4>2
    <3>3. ASSUME NEW o \in Vectors({1, 2, 3}), setActionOptions(i, o)
          PROVE  asked' = [asked EXCEPT !.died = TRUE]
                 \/ \E mdp : SpaceTyped(mdp) /\ asked' = [asked EXCEPT !.mdps[i] = mdp]
      <4>1. asked' = [asked EXCEPT !.died = TRUE]
            \/ asked' = [asked EXCEPT !.mdps[i] = [a EXCEPT !.options = o]]
        BY <3>3 DEF setActionOptions
      <4>2. o \in Seq({1, 2, 3})
        BY <2>v
      <4>3. o \in Seq(Nat)
        BY <4>2
      <4>4. SpaceTyped([a EXCEPT !.options = o])
        BY <1>m, <2>0, <4>3 DEF IsMDP, IsRecordOf, SpaceTyped
      <4> QED BY <4>1, <4>4
    <3>4. ASSUME NEW o \in Vectors(BOOLEAN), setStateObservable(i, o)
          PROVE  asked' = [asked EXCEPT !.died = TRUE]
                 \/ \E mdp : SpaceTyped(mdp) /\ asked' = [asked EXCEPT !.mdps[i] = mdp]
      <4>1. asked' = [asked EXCEPT !.died = TRUE]
            \/ asked' = [asked EXCEPT !.mdps[i] = [a EXCEPT !.observed = o]]
        BY <3>4 DEF setStateObservable
      <4>2. o \in Seq(BOOLEAN)
        BY <2>v
      <4>3. SpaceTyped([a EXCEPT !.observed = o])
        BY <1>m, <2>0, <4>2 DEF IsMDP, IsRecordOf, SpaceTyped
      <4> QED BY <4>1, <4>3
    <3>5. ASSUME NEW s, setStateScales(i, s)
          PROVE  asked' = [asked EXCEPT !.died = TRUE]
                 \/ \E mdp : SpaceTyped(mdp) /\ asked' = [asked EXCEPT !.mdps[i] = mdp]
      <4>1. asked' = [asked EXCEPT !.died = TRUE]
            \/ asked' = [asked EXCEPT !.mdps[i] = [a EXCEPT !.scales = s]]
        BY <3>5 DEF setStateScales
      <4>2. SpaceTyped([a EXCEPT !.scales = s])
        BY <1>m, <2>0 DEF IsMDP, IsRecordOf, SpaceTyped
      <4> QED BY <4>1, <4>2
    <3>6. ASSUME \/ setIsPartiallyObservable(i) \/ setPreprocessingConv2d(i)
                 \/ setNumAppendedPastObservations(i) \/ agentsShareExplorationNoise(i)
          PROVE  asked' = [asked EXCEPT !.died = TRUE]
                 \/ \E mdp : SpaceTyped(mdp) /\ asked' = [asked EXCEPT !.mdps[i] = mdp]
      <4>1. asked' = [asked EXCEPT !.died = TRUE]
            \/ \E f : asked' = [asked EXCEPT !.mdps[i] = [a EXCEPT !.flags = @ \cup {f}]]
        BY <3>6 DEF setIsPartiallyObservable, setPreprocessingConv2d, setNumAppendedPastObservations,
                    agentsShareExplorationNoise, setFlag
      <4>2. ASSUME NEW f PROVE SpaceTyped([a EXCEPT !.flags = @ \cup {f}])
        BY <1>m, <2>0 DEF IsMDP, IsRecordOf, SpaceTyped
      <4> QED BY <4>1, <4>2
    <3> QED BY <1>4, <3>1, <3>2, <3>3, <3>4, <3>5, <3>6
  <2> QED BY <1>2, <1>3, <1>4, <2>1
<1>5. ASSUME NEW n \in 1 .. 2, setNumAgents(n) PROVE SpacesTyped(asked')
  BY <1>e, <1>1, <1>5 DEF IsRecordOf, setNumAgents
<1>6. ASSUME envHasDistributedAgents PROVE SpacesTyped(asked')
  <2>1. asked' = [asked EXCEPT !.died = TRUE] \/ asked' = [asked EXCEPT !.distributed = TRUE]
    BY <1>6 DEF envHasDistributedAgents
  <2> QED BY <1>e, <1>1, <2>1 DEF IsRecordOf
<1>7. ASSUME agentsDefineDifferentMDP PROVE SpacesTyped(asked')
  <2> DEFINE w == [asked EXCEPT !.separate = TRUE]
             n == nDescriptors(w)
             v == Resized(w.mdps, n, w.mdps[1])
  <2>1. asked' = [asked EXCEPT !.died = TRUE] \/ asked' = initDescriptors(w)
    BY <1>7 DEF agentsDefineDifferentMDP
  <2>2. /\ IsRecordOf(w, EnvironmentFields) /\ w.mdps = asked.mdps /\ w.tracked = asked.tracked
        /\ w.separate = TRUE /\ w.nAgentsPerEnvironment = asked.nAgentsPerEnvironment
    BY <1>e DEF IsRecordOf
  <2> HIDE DEF w
  <2>3. n \in Nat \ {0} /\ Len(w.mdps) \in Nat \ {0}
    <3>1. Len(asked.mdps) \in Nat \ {0}
      BY InDescription
    <3> QED BY <1>n, <2>2, <3>1 DEF nDescriptors
  <2> HIDE DEF n
  <2>4. Len(v) = n /\ \A i \in 1 .. n : v[i] = IF i <= Len(w.mdps) THEN w.mdps[i] ELSE w.mdps[1]
    BY <2>3, ResizedIs
  <2>5. initDescriptors(w) = [w EXCEPT !.died = TRUE] \/ initDescriptors(w) = [w EXCEPT !.mdps = v]
    BY DEF initDescriptors, n
  <2> HIDE DEF v
  <2>6. CASE asked' = [w EXCEPT !.mdps = v]
    <3>1. asked'.mdps = v /\ asked'.tracked = asked.tracked
      BY <1>e, <2>2, <2>6 DEF IsRecordOf
    <3>2. \A i \in 1 .. n : SpaceTyped(v[i])
      BY <2>2, <2>3, <2>4 DEF SpacesTyped
    <3> QED BY <2>4, <3>1, <3>2 DEF SpacesTyped
  <2>7. CASE asked' = [w EXCEPT !.died = TRUE]
    BY <1>e, <1>1, <2>2, <2>7 DEF IsRecordOf
  <2> QED BY <1>2, <2>1, <2>5, <2>6, <2>7
<1>8. ASSUME NEW l, disableDataTrackingForAgents(l, l) PROVE SpacesTyped(asked')
  <2> DEFINE n == asked.nAgentsPerEnvironment
             t == Resized(asked.tracked, n, TRUE)
             v == [i \in 1 .. n |-> i \notin l .. l /\ t[i]]
  <2>1. asked' = [asked EXCEPT !.tracked = v]
    BY <1>8 DEF disableDataTrackingForAgents
  <2> HIDE DEF t
  <2>2. v \in [1 .. n -> BOOLEAN] /\ n \in Nat
    BY <1>n
  <2> HIDE DEF v, n
  <2>3. v \in Seq(BOOLEAN)
    BY <2>2, IsASeq
  <2>4. asked'.tracked = v /\ asked'.mdps = asked.mdps
    BY <1>e, <2>1 DEF IsRecordOf
  <2> QED BY <2>3, <2>4 DEF SpacesTyped
<1> QED BY <1>4, <1>5, <1>6, <1>7, <1>8 DEF Call

\* The description in the application is typed from the start.
LEMMA InitSpaces == setupInit => SpacesTyped(asked)
<1> SUFFICES ASSUME setupInit PROVE SpacesTyped(asked)
  OBVIOUS
<1> DEFINE a == Environment.mdps[1]
           b == [a EXCEPT !.dimState = 1, !.dimAction = 1]
<1>1. asked = [Environment EXCEPT !.mdps[1] = b]
  BY DEF setupInit
<1>2. IsDescription(Environment) /\ Len(Environment.mdps) = 1 /\ 1 \in 1 .. Len(Environment.mdps)
  BY EnvironmentIs
<1>3. a = MDPdescriptor /\ Environment.tracked = <<>>
  BY DEF Environment
<1>4. b.dimState = 1 /\ b.dimAction = 1 /\ b.options = <<>> /\ b.observed = <<>>
  BY <1>3 DEF MDPdescriptor
<1> HIDE DEF b
<1>5. SpaceTyped(b)
  BY <1>4 DEF SpaceTyped
<1>6. Replaces(asked, Environment, 1, b)
  BY <1>1, <1>2, MDPReplaced
<1>7. Len(asked.mdps) = 1
  BY <1>2, <1>6, ListIs DEF Replaces
<1>8. asked.mdps[1] = b /\ asked.tracked = <<>>
  BY <1>3, <1>6 DEF Replaces, EnvironmentFields
<1>9. \A i \in 1 .. 1 : SpaceTyped(asked.mdps[i])
  BY <1>5, <1>8
<1> QED BY <1>7, <1>8, <1>9 DEF SpacesTyped

LEMMA NextSpaces ==
  ASSUME DescribedInv, SpacesTyped(asked), [setupNext]_setupVars
  PROVE  SpacesTyped(asked')
<1>1. CASE UNCHANGED setupVars
  BY <1>1 DEF setupVars
<1>2. CASE Describe
  <2>1. IsDescription(asked)
    BY FieldsAsked DEF DescribedInv, Described
  <2> QED BY <1>2, <2>1, CallTyped DEF Describe
<1>3. CASE Arrange
  BY <1>3 DEF Arrange, FigureOut, SplitLearners, SplitWorkers, DupWorkerless, Together
<1>4. CASE \E r \in World : RankStep(r)
  <2>1. PICK r \in World : RankStep(r)
    BY <1>4
  <2>2. asked' = asked
    BY <2>1 DEF RankStep, WorkersDie, SplitEnvironments, Together, LookForDir, MakeDir, EnterDir, Fork,
                Bind, SOCKET_clientConnect, SOCKET_serverConnect, HostRecv, MasterRecv, MasterHeard,
                RelayRefused, RelaySend, RelayNone, unchangedBySync
  <2> QED BY <2>2
<1> QED BY <1>1, <1>2, <1>3, <1>4 DEF setupNext

\* Whatever the application asks for, what it has is typed, and the fields that it has
\* passed on are as it checks them (synchronizeEnvironments).
THEOREM SpacesInductive == setupSpec => [](DescribedInv /\ SpacesTyped(asked))
<1>1. setupInit => DescribedInv /\ SpacesTyped(asked)
  BY InitDescribed, InitSpaces
<1>2. (DescribedInv /\ SpacesTyped(asked)) /\ [setupNext]_setupVars
        => (DescribedInv /\ SpacesTyped(asked))'
  BY NextDescribed, NextSpaces
<1> QED BY <1>1, <1>2, PTL DEF setupSpec

\* Spaces that an agent can act in: labels stand for actions.
SpaceGiven(mdp) ==
  /\ mdp.dimState \in Nat /\ mdp.observed \in [1 .. mdp.dimState -> BOOLEAN]
  /\ mdp.dimAction \in Nat \ {0}
  /\ bDiscreteActions(mdp) => mdp.options \in Seq(Nat \ {0}) /\ mdp.options # <<>>

LEMMA AcceptedSpace ==
  ASSUME NEW b, SpaceTyped(b), Accepted(b, 6), NEW a, IsMDP(a), IsMDP(b), SameMDP(a, b, 6)
  PROVE  SpaceGiven(a)
<1>1. /\ a.dimState = b.dimState /\ a.dimAction = b.dimAction /\ a.observed = b.observed
      /\ Len(a.options) = Len(b.options)
      /\ bDiscreteActions(a) => a.options = b.options
  BY DEF SameMDP
<1>2. a.dimState \in Nat /\ a.dimAction \in Nat \ {0}
  BY <1>1 DEF SpaceTyped, Accepted
<1>3. a.observed \in [1 .. a.dimState -> BOOLEAN]
  <2>1. a.observed \in Seq(BOOLEAN) /\ Len(a.observed) = a.dimState
    BY <1>1 DEF SpaceTyped, Accepted
  <2> QED BY <2>1
<1>4. ASSUME bDiscreteActions(a) PROVE a.options \in Seq(Nat \ {0}) /\ a.options # <<>>
  <2>1. bDiscreteActions(b) /\ a.options = b.options
    BY <1>1, <1>4, NoOptions DEF IsMDP
  <2> DEFINE o == b.options
  <2>2. o \in Seq(Nat) /\ \A j \in DOMAIN o : o[j] >= 2
    BY <2>1 DEF SpaceTyped, Accepted
  <2> HIDE DEF o
  <2>3. \A j \in 1 .. Len(o) : o[j] \in Nat \ {0}
    BY <2>2
  <2>4. o \in Seq(Nat \ {0})
    BY <2>2, <2>3
  <2> QED BY <2>1, <2>4, <1>4 DEF o, bDiscreteActions
<1> QED BY <1>2, <1>3, <1>4 DEF SpaceGiven

\* Agents are numbered, and each has a descriptor and a choice to be tracked or not.
LEMMA AgentsHave ==
  ASSUME NEW e, IsDescription(e), Len(e.mdps) = nDescriptors(e),
         e.tracked \in Seq(BOOLEAN), Len(e.tracked) = e.nAgentsPerEnvironment,
         \A i \in 1 .. Len(e.mdps) : SpaceGiven(e.mdps[i]),
         NEW i \in DOMAIN agentsOf(e, 1)
  PROVE  LET a == agentsOf(e, 1)[i] IN
         SpaceGiven(a.MDP) /\ a.localID \in Int /\ a.trackEpisodes \in BOOLEAN
<1> DEFINE n == e.nAgentsPerEnvironment
           L == Len(e.mdps)
           a == agentsOf(e, 1)[i]
<1>1. n \in Nat \ {0} /\ L \in Nat \ {0}
  BY InDescription DEF IsDescription
<1>2. i \in 0 .. n * 1 - 1
        /\ a = [workerID |-> i \div n, localID |-> i % n, MDP |-> e.mdps[(i % L) + 1],
                trackEpisodes |-> e.tracked[(i % n) + 1]]
  BY DEF agentsOf
<1> HIDE DEF n, L, a
<1>3. i \in Nat
  BY <1>1, <1>2
<1>4. ASSUME NEW d \in Nat \ {0} PROVE i % d \in 0 .. d - 1
  BY <1>3
<1>5. (i % L) + 1 \in 1 .. L /\ (i % n) + 1 \in 1 .. n /\ i % n \in Int
  <2>1. i % L \in 0 .. L - 1 /\ i % n \in 0 .. n - 1
    BY <1>1, <1>4
  <2> QED BY <1>1, <2>1
<1>6. SpaceGiven(e.mdps[(i % L) + 1])
  BY <1>5 DEF L
<1>7. e.tracked[(i % n) + 1] \in BOOLEAN
  BY <1>5 DEF n
<1>8. a.MDP = e.mdps[(i % L) + 1] /\ a.localID = i % n /\ a.trackEpisodes = e.tracked[(i % n) + 1]
  BY <1>2
<1>9. SpaceGiven(a.MDP) /\ a.localID \in Int /\ a.trackEpisodes \in BOOLEAN
  BY <1>5, <1>6, <1>7, <1>8
<1> QED BY <1>9 DEF a

\* A master that gets to run has agents that can act.
AgentsGiven(r) ==
  \A i \in DOMAIN agentsOf(environment[r], 1) :
    LET a == agentsOf(environment[r], 1)[i] IN
    SpaceGiven(a.MDP) /\ a.localID \in Int /\ a.trackEpisodes \in BOOLEAN

LEMMA RunningSpaces ==
  ASSUME DescribedInv, SpacesTyped(asked), NEW r \in World, pc[r] = "running", bIsMaster[r]
  PROVE  AgentsGiven(r)
<1> DEFINE N == nFields(asked)
           e == environment[r]
<1>1. PICK D, m : Course(D, m) /\ Ranks(D, m)
  BY DEF DescribedInv, Described
<1>2. N \in Nat /\ N >= 9 /\ m \in Nat
  BY <1>1, FieldsAsked
<1> HIDE DEF N
<1>3. ~Runs(r) /\ ~Starved(r) /\ pc[r] \in Talking
  BY <1>1 DEF Ranks, RankInv, Starves, Runs, Talking
<1>4. step[r] = N + 1 /\ ~received[r] /\ Known(r) = N /\ ~D[N + 1].died
  <2>1. step[r] = N + 1 /\ ~received[r] /\ ~D[step[r]].died
    BY <1>1, <1>3 DEF Ranks, RankInv, Follows, N
  <2> QED BY <1>2, <2>1 DEF Known
<1>5. Filled(e, N + 1) /\ N + 1 <= m /\ Same(e, D[N + 1], N)
  BY <1>1, <1>3, <1>4 DEF Ranks, RankInv, Follows
<1>6. N + 1 \in 1 .. m
  BY <1>2, <1>5
<1> DEFINE d == D[N + 1]
<1>7. Filled(d, N + 1) /\ nFields(d) = N
  BY <1>1, <1>6 DEF Course, N
<1>8. Sound(d, N)
  <2>1. Sound(D[N + 1], (N + 1) - 1)
    BY <1>1, <1>4, <1>6, CourseSound
  <2>2. (N + 1) - 1 = N
    BY <1>2
  <2> QED BY <2>1, <2>2
<1> HIDE DEF d, e
<1>9. IsDescription(e) /\ IsDescription(d) /\ Len(e.mdps) = nDescriptors(e)
      /\ Len(d.mdps) = nDescriptors(d) /\ Same(e, d, N)
  <2>1. N + 1 > 4
    BY <1>2
  <2> QED BY <1>5, <1>7, <2>1 DEF Filled, d
<1>10. /\ e.nAgentsPerEnvironment = d.nAgentsPerEnvironment /\ e.separate = d.separate
       /\ e.tracked = d.tracked
  BY <1>2, <1>9 DEF Same
<1>11. nDescriptors(e) = nDescriptors(d) /\ N = 3 + 6 * nDescriptors(d) /\ nDescriptors(d) \in Nat \ {0}
  BY <1>7, <1>9, <1>10, InDescription DEF nDescriptors
<1>12. e.tracked \in Seq(BOOLEAN) /\ Len(e.tracked) = e.nAgentsPerEnvironment
  BY <1>2, <1>8, <1>10 DEF Sound, SpacesTyped
<1>13. ASSUME NEW i \in 1 .. Len(e.mdps) PROVE SpaceGiven(e.mdps[i])
  <2> DEFINE L == nDescriptors(d)
  <2>1. i \in Nat \ {0} /\ i <= L /\ L \in Nat \ {0} /\ N = 3 + 6 * L
    BY <1>9, <1>11, <1>13
  <2> HIDE DEF L
  <2> DEFINE n == N - 3 - 6 * (i - 1)
  <2>2. 6 * (i - 1) + 3 < N /\ n >= 6 /\ n \in Int
    BY <1>2, <2>1
  <2>3. SameMDP(e.mdps[i], d.mdps[i], n)
    BY <1>9, <2>1, <2>2 DEF Same
  <2>4. Accepted(d.mdps[i], n)
    BY <1>8, <2>1, <2>2 DEF Sound
  <2> HIDE DEF n
  <2>5. Accepted(d.mdps[i], 6)
    BY <2>2, <2>4, AcceptedLess
  <2>6. IsMDP(e.mdps[i])
    BY <1>9, <1>13, InDescription
  <2>7. i \in 1 .. Len(d.mdps)
    BY <1>9, <2>1 DEF L
  <2>8. IsMDP(d.mdps[i]) /\ SpaceTyped(d.mdps[i])
    BY <1>8, <1>9, <2>7, InDescription DEF Sound, SpacesTyped
  <2>9. SameMDP(e.mdps[i], d.mdps[i], 6)
    BY <2>2, <2>3 DEF SameMDP
  <2> QED BY <2>5, <2>6, <2>8, <2>9, AcceptedSpace
<1>14. \A i \in DOMAIN agentsOf(e, 1) :
         LET a == agentsOf(e, 1)[i] IN
         SpaceGiven(a.MDP) /\ a.localID \in Int /\ a.trackEpisodes \in BOOLEAN
  BY <1>9, <1>12, <1>13, AgentsHave
<1> QED BY <1>14 DEF AgentsGiven, e

------------------------------------------------------------------------------
(* Episodes as they were played                                            *)

LEMMA GivenLabels ==
  ASSUME NEW mdp, SpaceGiven(mdp)
  PROVE  LabelsAreActions(mdp)
<1> SUFFICES ASSUME bDiscreteActions(mdp),
                    NEW action \in {a \in [DOMAIN mdp.options -> 0 .. 2] :
                                      \A j \in DOMAIN mdp.options : a[j] < mdp.options[j]}
             PROVE  LET label == actionMessage2label(mdp.options, action) IN
                    /\ label < maxActionLabel(mdp.options)
                    /\ label2actionMessage(mdp.options, label) = action
  BY DEF LabelsAreActions
<1>1. Options(mdp.options)
  BY DEF SpaceGiven, Options
<1>2. action \in [DOMAIN mdp.options -> Nat] /\ \A j \in DOMAIN mdp.options : action[j] < mdp.options[j]
  OBVIOUS
<1> QED BY <1>1, <1>2, LabelsInvert

\* A master that runs keeps the episodes as its application played them.
LEMMA RunningEpisodes ==
  ASSUME DescribedInv, SpacesTyped(asked)
  PROVE  EpisodesAsPlayed
<1> DEFINE Kept(agents) ==
             \A i \in DOMAIN agents :
               /\ LabelsAreActions(agents[i].MDP)
               /\ \A learner \in Learners, statuses \in Lives : LifeKept(agents[i], learner, statuses)
<1>1. ASSUME NEW r \in World, pc[r] = "running" /\ bIsMaster[r]
      PROVE  Kept(agentsOf(environment[r], 1))
  <2> DEFINE agents == agentsOf(environment[r], 1)
  <2>1. AgentsGiven(r)
    BY <1>1, RunningSpaces
  <2>2. \A i \in DOMAIN agents :
          LET a == agents[i] IN
          SpaceGiven(a.MDP) /\ a.localID \in Int /\ a.trackEpisodes \in BOOLEAN
    BY <2>1 DEF AgentsGiven
  <2> HIDE DEF agents
  <2>3. ASSUME NEW i \in DOMAIN agents
        PROVE  /\ LabelsAreActions(agents[i].MDP)
               /\ \A learner \in Learners, statuses \in Lives : LifeKept(agents[i], learner, statuses)
    <3> DEFINE agent == agents[i]
    <3>1. SpaceGiven(agent.MDP) /\ agent.localID \in Int /\ agent.trackEpisodes \in BOOLEAN
      BY <2>2, <2>3
    <3> HIDE DEF agent
    <3>2. LabelsAreActions(agent.MDP)
      BY <3>1, GivenLabels
    <3>3. AgentGiven(agent)
      BY <3>1 DEF AgentGiven, Playable, HasStates, SpaceGiven
    <3>4. ASSUME NEW learner \in Learners, NEW statuses \in Lives
          PROVE  LifeKept(agent, learner, statuses)
      <4>1. PICK n : Life(statuses, n) /\ n # 0
        BY LivesAre DEF Lives
      <4> QED BY <3>3, <4>1, LivesKept, Zenon
    <3> QED BY <3>2, <3>4 DEF agent
  <2>4. Kept(agents)
    BY <2>3
  <2> QED BY <2>4 DEF agents
<1> QED BY <1>1 DEF EpisodesAsPlayed

\* Whatever the application asks for, what a master that runs keeps of the lives of its agents
\* is what the application played: labels stand for actions, the agent follows the one of
\* the application, each finished episode is packed and read back with the states,
\* actions, policies and rewards of the calls, its returns are the sums that define them, and
\* the average return the application is told is the one of its episodes.
THEOREM EpisodesAsPlayedHolds == setupSpec => []EpisodesAsPlayed
<1>1. DescribedInv /\ SpacesTyped(asked) => EpisodesAsPlayed
  BY RunningEpisodes
<1> QED BY <1>1, SpacesInductive, PTL
==============================================================================
