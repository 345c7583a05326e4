----------------------------- MODULE FiniteSums -----------------------------
(***************************************************************************)
(* Sums over finite sets, as MapThenSumSet of FiniteSetsExt defines them:  *)
(* that a sum does not depend on the order of its summands, and what the   *)
(* counting invariants of the models need of it.  Induction over finite    *)
(* sets is that over their numbers of elements: a set of sets that has the *)
(* empty set, and with a set each set of one element more, has all of them *)
(* (ByElements).                                                           *)
(***************************************************************************)
EXTENDS Integers, FiniteSetsExt, FiniteSetTheorems, WellFoundedInduction, TLAPS

\* The least element of a set of numbers, which gives induction over sets.
LEMMA Least ==
  ASSUME NEW N \in SUBSET Nat, N # {}
  PROVE  \E n \in N : \A m \in N : n <= m
<1>1. \A m, n \in Nat : <<m, n>> \in OpToRel(<, Nat) <=> m < n
  BY DEF OpToRel
<1>2. PICK R : IsWellFoundedOn(R, Nat) /\ \A m, n \in Nat : <<m, n>> \in R <=> m < n
  BY <1>1, NatLessThanWellFounded, Zenon
<1>a. IsWellFoundedOn(R, Nat) /\ N \subseteq Nat
  BY <1>2
<1>3. \E n \in N : \A m \in N : ~ (<<m, n>> \in R)
  BY <1>a, WFMin
<1>4. PICK n \in N : \A m \in N : ~ (<<m, n>> \in R)
  BY <1>3
<1>5. \A m \in N : ~ (m < n)
  BY <1>2, <1>4
<1> QED BY <1>5

LEMMA UpFromZero ==
  ASSUME NEW N \in SUBSET Nat, 0 \in N, \A n \in N : n + 1 \in N
  PROVE  N = Nat
<1> SUFFICES ASSUME Nat \ N # {} PROVE FALSE
  OBVIOUS
<1>1. PICK n \in Nat \ N : \A m \in Nat \ N : n <= m
  BY Least
<1>2. n - 1 \in N
  BY <1>1
<1> QED BY <1>1, <1>2

\* What holds of the empty set, and of a set with an element more than one that it
\* holds of, holds of every finite set: F are the sets that it holds of.
LEMMA ByElements ==
  ASSUME NEW S, IsFiniteSet(S), NEW F, {} \in F,
         \A T \in SUBSET S : \A x \in S \ T : T \in F => T \cup {x} \in F
  PROVE  S \in F
<1> DEFINE N == {n \in Nat : \A T \in SUBSET S : Cardinality(T) = n => T \in F}
<1>0. \A T \in SUBSET S : IsFiniteSet(T) /\ Cardinality(T) \in Nat
  BY FS_Subset, FS_CardinalityType
<1>1. 0 \in N
  BY <1>0, FS_EmptySet
<1>2. ASSUME NEW n \in N PROVE n + 1 \in N
  <2> SUFFICES ASSUME NEW T \in SUBSET S, Cardinality(T) = n + 1 PROVE T \in F
    OBVIOUS
  <2>1. PICK x \in T : TRUE
    BY <1>0, FS_EmptySet
  <2>2. Cardinality(T \ {x}) = n
    BY <1>0, <2>1, FS_RemoveElement
  <2>3. T \ {x} \in F
    BY <2>2
  <2>4. (T \ {x}) \cup {x} = T
    BY <2>1
  <2> QED BY <2>1, <2>3, <2>4
<1>3. N = Nat
  <2> HIDE DEF N
  <2>1. N \subseteq Nat
    BY DEF N
  <2> QED BY <1>1, <1>2, <2>1, UpFromZero
<1> QED BY <1>0, <1>3

------------------------------------------------------------------------------
(* Sums over finite sets                                                   *)

AnyOf(s) == CHOOSE x \in s : TRUE
SumOf(f, S) == MapThenSumSet(LAMBDA x : f[x], S)
Adds(iter, f, S) ==
  iter = [s \in SUBSET S |-> IF s = {} THEN 0 ELSE f[AnyOf(s)] + iter[s \ {AnyOf(s)}]]

\* What is added up does not depend on the order in which the elements are chosen.
OneByOne(iter, f, S) ==
  /\ iter \in [SUBSET S -> Int] /\ iter[{}] = 0
  /\ \A s \in SUBSET S : \A x \in s : iter[s] = f[x] + iter[s \ {x}]

LEMMA SumIsChosen ==
  ASSUME NEW f, NEW S
  PROVE  SumOf(f, S) = (CHOOSE iter : Adds(iter, f, S))[S]
BY DEF SumOf, MapThenSumSet, MapThenFoldSet, Adds, AnyOf

LEMMA AnyFacts ==
  ASSUME NEW s, s # {}
  PROVE  AnyOf(s) \in s
BY DEF AnyOf

\* Such a function exists.
LEMMA AddsExists ==
  ASSUME NEW S, IsFiniteSet(S), NEW f \in [S -> Int]
  PROVE  \E iter : Adds(iter, f, S)
<1> DEFINE Small(n) == {s \in SUBSET S : Cardinality(s) <= n}
           Part(g, n) == \A s \in Small(n) :
             g[s] = IF s = {} THEN 0 ELSE f[AnyOf(s)] + g[s \ {AnyOf(s)}]
           N == {n \in Nat : \E g : Part(g, n)}
<1>0. /\ \A s \in SUBSET S : IsFiniteSet(s) /\ Cardinality(s) \in Nat
                             /\ Cardinality(s) <= Cardinality(S)
      /\ Cardinality(S) \in Nat
  BY FS_Subset, FS_CardinalityType
<1>1. 0 \in N
  <2>1. \A s \in Small(0) : s = {}
    BY <1>0, FS_EmptySet
  <2>2. Part([s \in SUBSET S |-> 0], 0)
    BY <2>1
  <2> HIDE DEF Part
  <2> QED BY <2>2
<1>2. ASSUME NEW n \in N PROVE n + 1 \in N
  <2>1. PICK g : Part(g, n)
    OBVIOUS
  <2> DEFINE h == [s \in SUBSET S |-> IF Cardinality(s) <= n THEN g[s]
                                      ELSE f[AnyOf(s)] + g[s \ {AnyOf(s)}]]
  <2>2. ASSUME NEW s \in Small(n + 1)
        PROVE  h[s] = IF s = {} THEN 0 ELSE f[AnyOf(s)] + h[s \ {AnyOf(s)}]
    <3>1. CASE s = {}
      <4>1. s \in Small(n) /\ Cardinality(s) <= n
        BY <3>1, FS_EmptySet
      <4> QED BY <3>1, <4>1, <2>1
    <3>2. CASE s # {}
      <4> DEFINE t == s \ {AnyOf(s)}
      <4>1. Cardinality(t) = Cardinality(s) - 1 /\ t \in SUBSET S
        BY <3>2, <1>0, AnyFacts, FS_RemoveElement
      <4>2. Cardinality(t) <= n
        BY <4>1, <1>0
      <4> HIDE DEF t
      <4>3. h[t] = g[t]
        BY <4>1, <4>2
      <4>4. h[s] = f[AnyOf(s)] + g[t]
        <5>1. CASE Cardinality(s) <= n
          BY <5>1, <3>2, <2>1 DEF t
        <5>2. CASE ~(Cardinality(s) <= n)
          BY <5>2 DEF t
        <5> QED BY <5>1, <5>2
      <4> QED BY <3>2, <4>3, <4>4 DEF t
    <3> QED BY <3>1, <3>2
  <2>3. Part(h, n + 1)
    BY <2>2
  <2> HIDE DEF h, Part
  <2> QED BY <2>3
<1>3. N = Nat
  <2> HIDE DEF N
  <2>1. N \subseteq Nat
    BY DEF N
  <2> QED BY <1>1, <1>2, <2>1, UpFromZero
<1>4. PICK g : Part(g, Cardinality(S))
  BY <1>0, <1>3
<1> DEFINE h == [s \in SUBSET S |-> g[s]]
<1>5. Adds(h, f, S)
  <2>1. \A s \in SUBSET S : h[s] = IF s = {} THEN 0 ELSE f[AnyOf(s)] + h[s \ {AnyOf(s)}]
    BY <1>0, <1>4
  <2> QED BY <2>1 DEF Adds
<1> QED BY <1>5

LEMMA AddsTyped ==
  ASSUME NEW S, IsFiniteSet(S), NEW f \in [S -> Int], NEW iter, Adds(iter, f, S)
  PROVE  iter \in [SUBSET S -> Int] /\ iter[{}] = 0
<1>0. \A s \in SUBSET S : IsFiniteSet(s) /\ Cardinality(s) \in Nat
  BY FS_Subset, FS_CardinalityType
<1>1. /\ \A s \in SUBSET S : iter[s] = IF s = {} THEN 0 ELSE f[AnyOf(s)] + iter[s \ {AnyOf(s)}]
      /\ iter = [s \in SUBSET S |-> iter[s]]
  BY DEF Adds
<1> DEFINE N == {n \in Nat : \A s \in SUBSET S : Cardinality(s) = n => iter[s] \in Int}
<1>2. iter[{}] = 0
  BY <1>1
<1>3. 0 \in N
  <2>1. \A s \in SUBSET S : Cardinality(s) = 0 => s = {}
    BY <1>0, FS_EmptySet
  <2> QED BY <1>2, <2>1
<1>4. ASSUME NEW n \in N PROVE n + 1 \in N
  <2> SUFFICES ASSUME NEW s \in SUBSET S, Cardinality(s) = n + 1 PROVE iter[s] \in Int
    OBVIOUS
  <2> DEFINE a == AnyOf(s)
  <2>1. s # {} /\ a \in s
    BY <1>0, FS_EmptySet, AnyFacts
  <2>2. iter[s] = f[a] + iter[s \ {a}]
    BY <1>1, <2>1
  <2> HIDE DEF a
  <2>3. s \ {a} \in SUBSET S /\ Cardinality(s \ {a}) = n /\ f[a] \in Int
    <3>1. IsFiniteSet(s) /\ n \in Nat
      BY <1>0
    <3>2. Cardinality(s \ {a}) = Cardinality(s) - 1
      BY <2>1, <3>1, FS_RemoveElement
    <3> QED BY <2>1, <3>1, <3>2
  <2> QED BY <2>2, <2>3
<1>5. N = Nat
  <2> HIDE DEF N
  <2>1. N \subseteq Nat
    BY DEF N
  <2> QED BY <1>3, <1>4, <2>1, UpFromZero
<1> QED BY <1>0, <1>1, <1>2, <1>5

\* The order in which the elements are chosen does not matter.
LEMMA AnyOrder ==
  ASSUME NEW S, IsFiniteSet(S), NEW f \in [S -> Int], NEW iter, Adds(iter, f, S)
  PROVE  OneByOne(iter, f, S)
<1>0. \A s \in SUBSET S : IsFiniteSet(s) /\ Cardinality(s) \in Nat
  BY FS_Subset, FS_CardinalityType
<1>1. \A s \in SUBSET S : iter[s] = IF s = {} THEN 0 ELSE f[AnyOf(s)] + iter[s \ {AnyOf(s)}]
  BY DEF Adds
<1>2. iter \in [SUBSET S -> Int] /\ iter[{}] = 0
  BY AddsTyped
<1> DEFINE N == {n \in Nat : \A s \in SUBSET S : Cardinality(s) = n =>
                               \A x \in s : iter[s] = f[x] + iter[s \ {x}]}
<1>3. 0 \in N
  <2>1. \A s \in SUBSET S : Cardinality(s) = 0 => s = {}
    BY <1>0, FS_EmptySet
  <2> QED BY <2>1
<1>4. ASSUME NEW n \in N PROVE n + 1 \in N
  <2> SUFFICES ASSUME NEW s \in SUBSET S, Cardinality(s) = n + 1, NEW x \in s
               PROVE  iter[s] = f[x] + iter[s \ {x}]
    OBVIOUS
  <2> DEFINE a == AnyOf(s)
  <2>1. s # {} /\ a \in s
    BY FS_EmptySet, AnyFacts
  <2>2. iter[s] = f[a] + iter[s \ {a}]
    BY <1>1, <2>1
  <2> HIDE DEF a
  <2>3. \A y \in s : s \ {y} \in SUBSET S /\ Cardinality(s \ {y}) = n
    <3>1. IsFiniteSet(s) /\ n \in Nat
      BY <1>0
    <3>2. \A y \in s : Cardinality(s \ {y}) = Cardinality(s) - 1
      BY <3>1, FS_RemoveElement
    <3> QED BY <3>1, <3>2
  <2>4. CASE x # a
    <3> DEFINE r == (s \ {x}) \ {a}
    <3>1. iter[s \ {a}] = f[x] + iter[r]
      <4>1. (s \ {a}) \ {x} = r
        OBVIOUS
      <4>2. iter[s \ {a}] = f[x] + iter[(s \ {a}) \ {x}]
        BY <2>1, <2>3, <2>4
      <4> QED BY <4>1, <4>2
    <3>2. iter[s \ {x}] = f[a] + iter[r]
      BY <2>1, <2>3, <2>4
    <3>3. r \in SUBSET S
      OBVIOUS
    <3> HIDE DEF r
    <3>4. iter[r] \in Int /\ f[x] \in Int /\ f[a] \in Int
      BY <1>2, <2>1, <3>3
    <3>5. iter[s] = f[a] + (f[x] + iter[r])
      BY <2>2, <3>1
    <3> QED BY <3>2, <3>4, <3>5
  <2> QED BY <2>2, <2>4
<1>5. N = Nat
  <2> HIDE DEF N
  <2>1. N \subseteq Nat
    BY DEF N
  <2> QED BY <1>3, <1>4, <2>1, UpFromZero
<1>6. \A s \in SUBSET S : \A x \in s : iter[s] = f[x] + iter[s \ {x}]
  BY <1>0, <1>5
<1> QED BY <1>2, <1>6 DEF OneByOne

\* Only one function adds up.
LEMMA AddsUnique ==
  ASSUME NEW S, IsFiniteSet(S), NEW f \in [S -> Int], NEW iter, Adds(iter, f, S),
         NEW T \in SUBSET S, NEW other, Adds(other, f, T)
  PROVE  other[T] = iter[T]
<1>1. IsFiniteSet(T) /\ [x \in T |-> f[x]] \in [T -> Int]
  BY FS_Subset
<1>2. Adds(other, [x \in T |-> f[x]], T)
  BY AnyFacts DEF Adds
<1>3. OneByOne(other, [x \in T |-> f[x]], T)
  <2> DEFINE g == [x \in T |-> f[x]]
  <2>1. g \in [T -> Int] /\ Adds(other, g, T)
    BY <1>1, <1>2
  <2> HIDE DEF g
  <2>2. OneByOne(other, g, T)
    BY <1>1, <2>1, AnyOrder
  <2> QED BY <2>2 DEF g
<1>4. OneByOne(iter, f, S)
  BY AnyOrder
<1>5. other[{}] = 0 /\ iter[{}] = 0
  BY <1>3, <1>4 DEF OneByOne
<1> DEFINE F == {s \in SUBSET T : other[s] = iter[s]}
<1>6. ASSUME NEW s \in SUBSET T, NEW x \in T \ s, s \in F
      PROVE  s \cup {x} \in F
  <2> DEFINE t == s \cup {x}
  <2>1. t \in SUBSET T /\ t \in SUBSET S /\ x \in t /\ t \ {x} = s
    BY <1>6
  <2> HIDE DEF t
  <2>2. other[t] = f[x] + other[s] /\ iter[t] = f[x] + iter[s]
    BY <1>3, <1>4, <2>1 DEF OneByOne
  <2>3. other[s] = iter[s]
    BY <1>6
  <2> QED BY <2>1, <2>2, <2>3 DEF t
<1>7. {} \in F
  BY <1>5
<1>8. T \in F
  <2> HIDE DEF F
  <2> QED BY <1>1, <1>6, <1>7, ByElements
<1> QED BY <1>8

\* A function that adds up gives the sum.
LEMMA SumIs ==
  ASSUME NEW S, IsFiniteSet(S), NEW f \in [S -> Int], NEW iter, Adds(iter, f, S)
  PROVE  SumOf(f, S) = iter[S]
<1> DEFINE chosen == CHOOSE c : Adds(c, f, S)
<1>1. Adds(chosen, f, S)
  OBVIOUS
<1>2. SumOf(f, S) = chosen[S]
  BY SumIsChosen
<1>3. S \in SUBSET S
  OBVIOUS
<1> HIDE DEF chosen
<1> QED BY <1>1, <1>2, <1>3, AddsUnique

\* What a sum is: nothing for no element, and one summand more for an element more.
THEOREM SumFacts ==
  ASSUME NEW S, IsFiniteSet(S), NEW f \in [S -> Int]
  PROVE  /\ SumOf(f, {}) = 0
         /\ \A T \in SUBSET S : SumOf(f, T) \in Int
         /\ \A T \in SUBSET S : \A x \in T : SumOf(f, T) = f[x] + SumOf(f, T \ {x})
<1>1. PICK iter : Adds(iter, f, S)
  BY AddsExists
<1>2. OneByOne(iter, f, S)
  BY <1>1, AnyOrder
<1>4. ASSUME NEW T \in SUBSET S PROVE SumOf(f, T) = iter[T]
  <2>1. IsFiniteSet(T) /\ [x \in T |-> f[x]] \in [T -> Int]
    BY FS_Subset
  <2>2. PICK part : Adds(part, [x \in T |-> f[x]], T)
    BY <2>1, AddsExists
  <2>3. Adds(part, f, T)
    BY <2>2, AnyFacts DEF Adds
  <2> DEFINE chosen == CHOOSE c : Adds(c, f, T)
  <2>4. Adds(chosen, f, T)
    BY <2>3
  <2>5. SumOf(f, T) = chosen[T]
    BY SumIsChosen
  <2> HIDE DEF chosen
  <2>6. chosen[T] = iter[T]
    BY <1>1, <2>4, AddsUnique
  <2> QED BY <2>5, <2>6
<1>5. {} \in SUBSET S /\ \A T \in SUBSET S : \A x \in T : T \ {x} \in SUBSET S
  OBVIOUS
<1> QED BY <1>2, <1>4, <1>5 DEF OneByOne

Summed(f, S) ==
  /\ SumOf(f, {}) = 0
  /\ \A T \in SUBSET S : SumOf(f, T) \in Int
  /\ \A T \in SUBSET S : \A x \in S \ T :
       f[x] \in Int /\ SumOf(f, T \cup {x}) = f[x] + SumOf(f, T)

LEMMA OneMore ==
  ASSUME NEW S, IsFiniteSet(S), NEW f \in [S -> Int]
  PROVE  Summed(f, S)
<1>1. ASSUME NEW T \in SUBSET S, NEW x \in S \ T
      PROVE  f[x] \in Int /\ SumOf(f, T \cup {x}) = f[x] + SumOf(f, T)
  <2> DEFINE U == T \cup {x}
  <2>1. U \in SUBSET S /\ x \in U /\ U \ {x} = T
    OBVIOUS
  <2> HIDE DEF U
  <2> QED BY <2>1, SumFacts DEF U
<1> QED BY <1>1, SumFacts DEF Summed

LEMMA SumType ==
  ASSUME NEW S, IsFiniteSet(S), NEW f \in [S -> Int]
  PROVE  SumOf(f, S) \in Int
BY OneMore DEF Summed

\* The sum of what two functions add up to.
LEMMA SumAdd ==
  ASSUME NEW S, IsFiniteSet(S), NEW f \in [S -> Int], NEW g \in [S -> Int],
         NEW h \in [S -> Int], \A x \in S : h[x] = f[x] + g[x]
  PROVE  SumOf(h, S) = SumOf(f, S) + SumOf(g, S)
<1>0. Summed(f, S) /\ Summed(g, S) /\ Summed(h, S)
  BY OneMore
<1> DEFINE F == {T \in SUBSET S : SumOf(h, T) = SumOf(f, T) + SumOf(g, T)}
<1>1. {} \in F
  BY <1>0 DEF Summed
<1>2. ASSUME NEW T \in SUBSET S, NEW x \in S \ T, T \in F PROVE T \cup {x} \in F
  <2>1. /\ SumOf(f, T \cup {x}) = f[x] + SumOf(f, T) /\ SumOf(f, T) \in Int /\ f[x] \in Int
        /\ SumOf(g, T \cup {x}) = g[x] + SumOf(g, T) /\ SumOf(g, T) \in Int /\ g[x] \in Int
        /\ SumOf(h, T \cup {x}) = h[x] + SumOf(h, T)
    BY <1>0 DEF Summed
  <2>2. SumOf(h, T) = SumOf(f, T) + SumOf(g, T)
    BY <1>2
  <2> QED BY <2>1, <2>2
<1>3. S \in F
  <2> HIDE DEF F
  <2> QED BY <1>1, <1>2, ByElements
<1> QED BY <1>3

\* A sum grows with its summands.
LEMMA SumMono ==
  ASSUME NEW S, IsFiniteSet(S), NEW f \in [S -> Int], NEW g \in [S -> Int],
         \A x \in S : f[x] <= g[x]
  PROVE  SumOf(f, S) <= SumOf(g, S)
<1>0. Summed(f, S) /\ Summed(g, S)
  BY OneMore
<1> DEFINE F == {T \in SUBSET S : SumOf(f, T) <= SumOf(g, T)}
<1>1. {} \in F
  BY <1>0 DEF Summed
<1>2. ASSUME NEW T \in SUBSET S, NEW x \in S \ T, T \in F PROVE T \cup {x} \in F
  <2>1. /\ SumOf(f, T \cup {x}) = f[x] + SumOf(f, T) /\ SumOf(f, T) \in Int /\ f[x] \in Int
        /\ SumOf(g, T \cup {x}) = g[x] + SumOf(g, T) /\ SumOf(g, T) \in Int /\ g[x] \in Int
    BY <1>0 DEF Summed
  <2>2. SumOf(f, T) <= SumOf(g, T) /\ f[x] <= g[x]
    BY <1>2
  <2> QED BY <2>1, <2>2
<1>3. S \in F
  <2> HIDE DEF F
  <2> QED BY <1>1, <1>2, ByElements
<1> QED BY <1>3

\* The elements that add nothing may be left out.
LEMMA SumOfNonzero ==
  ASSUME NEW S, IsFiniteSet(S), NEW f \in [S -> Int], NEW T \in SUBSET S,
         \A x \in S \ T : f[x] = 0
  PROVE  SumOf(f, S) = SumOf(f, T)
<1>0. Summed(f, S)
  BY OneMore
<1> DEFINE F == {U \in SUBSET S : SumOf(f, U) = SumOf(f, U \cap T)}
<1>1. {} \in F
  BY <1>0 DEF Summed
<1>2. ASSUME NEW U \in SUBSET S, NEW x \in S \ U, U \in F PROVE U \cup {x} \in F
  <2>1. SumOf(f, U \cup {x}) = f[x] + SumOf(f, U) /\ SumOf(f, U) \in Int
    BY <1>0 DEF Summed
  <2>2. SumOf(f, U) = SumOf(f, U \cap T)
    BY <1>2
  <2>3. CASE x \in T
    <3>1. (U \cup {x}) \cap T = (U \cap T) \cup {x}
      BY <2>3
    <3>2. U \cap T \in SUBSET S /\ x \in S \ (U \cap T)
      OBVIOUS
    <3>3. SumOf(f, (U \cap T) \cup {x}) = f[x] + SumOf(f, U \cap T)
      BY <1>0, <3>2 DEF Summed
    <3> QED BY <2>1, <2>2, <3>1, <3>3
  <2>4. CASE x \notin T
    <3>1. (U \cup {x}) \cap T = U \cap T
      BY <2>4
    <3>2. SumOf(f, U \cup {x}) = SumOf(f, U)
      BY <2>1, <2>4
    <3> QED BY <2>2, <3>1, <3>2
  <2> QED BY <2>3, <2>4
<1>3. S \in F
  <2> HIDE DEF F
  <2> QED BY <1>1, <1>2, ByElements
<1>4. S \cap T = T
  OBVIOUS
<1> QED BY <1>3, <1>4

\* One summand is changed.
LEMMA SumChange ==
  ASSUME NEW S, IsFiniteSet(S), NEW f \in [S -> Int], NEW g \in [S -> Int],
         NEW x \in S, \A y \in S \ {x} : g[y] = f[y]
  PROVE  SumOf(g, S) = SumOf(f, S) - f[x] + g[x]
<1> DEFINE d == [y \in S |-> IF y = x THEN g[x] - f[x] ELSE 0]
<1>1. d \in [S -> Int] /\ \A y \in S : g[y] = f[y] + d[y]
  OBVIOUS
<1>2. d[x] = g[x] - f[x] /\ \A y \in S \ {x} : d[y] = 0
  OBVIOUS
<1>3. f[x] \in Int /\ g[x] \in Int /\ SumOf(f, S) \in Int
  BY SumType
<1> HIDE DEF d
<1>4. SumOf(g, S) = SumOf(f, S) + SumOf(d, S)
  BY <1>1, SumAdd
<1>5. SumOf(d, S) = SumOf(d, {x})
  <2>1. {x} \in SUBSET S /\ d \in [S -> Int]
    BY <1>1
  <2> QED BY <1>2, <2>1, SumOfNonzero
<1>6. SumOf(d, {x}) = d[x]
  <2>1. {} \in SUBSET S /\ x \in S \ {} /\ {} \cup {x} = {x}
    OBVIOUS
  <2>2. Summed(d, S)
    BY <1>1, OneMore
  <2>3. SumOf(d, {}) = 0 /\ SumOf(d, {} \cup {x}) = d[x] + SumOf(d, {}) /\ d[x] \in Int
    BY <2>1, <2>2 DEF Summed
  <2> QED BY <2>1, <2>3
<1> QED BY <1>2, <1>3, <1>4, <1>5, <1>6

\* Equal summands are as many times one as there are elements.
LEMMA SumConstant ==
  ASSUME NEW S, IsFiniteSet(S), NEW f \in [S -> Int], NEW c \in Int, \A x \in S : f[x] = c
  PROVE  SumOf(f, S) = Cardinality(S) * c
<1>0. Summed(f, S)
  BY OneMore
<1> DEFINE F == {T \in SUBSET S : SumOf(f, T) = Cardinality(T) * c}
<1>1. {} \in F
  BY <1>0, FS_EmptySet DEF Summed
<1>2. ASSUME NEW T \in SUBSET S, NEW x \in S \ T, T \in F PROVE T \cup {x} \in F
  <2>1. SumOf(f, T \cup {x}) = f[x] + SumOf(f, T) /\ SumOf(f, T) \in Int
    BY <1>0 DEF Summed
  <2>2. SumOf(f, T) = Cardinality(T) * c /\ f[x] = c
    BY <1>2
  <2>3. IsFiniteSet(T) /\ Cardinality(T) \in Nat
    BY FS_Subset, FS_CardinalityType
  <2>4. Cardinality(T \cup {x}) = Cardinality(T) + 1
    BY <2>3, FS_AddElement
  <2>5. \A k \in Nat : (k + 1) * c = c + k * c
    OBVIOUS
  <2> QED BY <2>1, <2>2, <2>3, <2>4, <2>5
<1>3. S \in F
  <2> HIDE DEF F
  <2> QED BY <1>1, <1>2, ByElements
<1> QED BY <1>3

\* A factor of all summands is one of the sum.
LEMMA SumScale ==
  ASSUME NEW S, IsFiniteSet(S), NEW f \in [S -> Int], NEW c \in Int, NEW g \in [S -> Int],
         \A x \in S : g[x] = c * f[x]
  PROVE  SumOf(g, S) = c * SumOf(f, S)
<1>0. Summed(f, S) /\ Summed(g, S)
  BY OneMore
<1> DEFINE F == {T \in SUBSET S : SumOf(g, T) = c * SumOf(f, T)}
<1>1. {} \in F
  BY <1>0 DEF Summed
<1>2. ASSUME NEW T \in SUBSET S, NEW x \in S \ T, T \in F PROVE T \cup {x} \in F
  <2>1. /\ SumOf(f, T \cup {x}) = f[x] + SumOf(f, T) /\ SumOf(f, T) \in Int /\ f[x] \in Int
        /\ SumOf(g, T \cup {x}) = g[x] + SumOf(g, T) /\ SumOf(g, T) \in Int
    BY <1>0 DEF Summed
  <2>2. SumOf(g, T) = c * SumOf(f, T) /\ g[x] = c * f[x]
    BY <1>2
  <2>3. \A k, m \in Int : c * (k + m) = c * k + c * m
    OBVIOUS
  <2> QED BY <2>1, <2>2, <2>3
<1>3. S \in F
  <2> HIDE DEF F
  <2> QED BY <1>1, <1>2, ByElements
<1> QED BY <1>3

\* A sum reads its summands only.
LEMMA SumAgree ==
  ASSUME NEW S, IsFiniteSet(S), NEW f \in [S -> Int], NEW T \in SUBSET S,
         NEW g \in [T -> Int], \A x \in T : f[x] = g[x]
  PROVE  SumOf(f, T) = SumOf(g, T)
<1>0. IsFiniteSet(T)
  BY FS_Subset
<1>1. Summed(f, S) /\ Summed(g, T)
  BY <1>0, OneMore
<1> DEFINE F == {U \in SUBSET T : SumOf(f, U) = SumOf(g, U)}
<1>2. {} \in F
  BY <1>1 DEF Summed
<1>3. ASSUME NEW U \in SUBSET T, NEW x \in T \ U, U \in F PROVE U \cup {x} \in F
  <2>1. U \in SUBSET S /\ x \in S \ U /\ f[x] = g[x]
    OBVIOUS
  <2>2. SumOf(f, U \cup {x}) = f[x] + SumOf(f, U) /\ SumOf(g, U \cup {x}) = g[x] + SumOf(g, U)
    BY <1>1, <2>1 DEF Summed
  <2>3. SumOf(f, U) = SumOf(g, U)
    BY <1>3
  <2> QED BY <2>1, <2>2, <2>3
<1>4. T \in F
  <2> HIDE DEF F
  <2> QED BY <1>0, <1>2, <1>3, ByElements
<1> QED BY <1>4

\* A number of elements is a sum of ones.
LEMMA SumOfOnes ==
  ASSUME NEW S, IsFiniteSet(S), NEW T \in SUBSET S,
         NEW f \in [S -> Int], \A x \in S : f[x] = IF x \in T THEN 1 ELSE 0
  PROVE  Cardinality(T) = SumOf(f, S)
<1>1. SumOf(f, S) = SumOf(f, T)
  BY SumOfNonzero
<1> DEFINE g == [x \in T |-> 1]
<1>2. IsFiniteSet(T) /\ Cardinality(T) \in Nat
  BY FS_Subset, FS_CardinalityType
<1>3. g \in [T -> Int] /\ \A x \in T : g[x] = 1
  OBVIOUS
<1> HIDE DEF g
<1>4. SumOf(g, T) = Cardinality(T)
  BY <1>2, <1>3, SumConstant
<1>5. SumOf(f, T) = SumOf(g, T)
  BY <1>3, SumAgree
<1> QED BY <1>1, <1>4, <1>5
=============================================================================
