--------------------------- MODULE Exchanges_proofs ---------------------------
(***************************************************************************)
(* Proofs about what threads and processes exchange.  DelayedReductor sums *)
(* over ranks, for every set of ranks, every set of values and every       *)
(* number of rounds: the numbers of contributions of two ranks differ by   *)
(* at most one, which is what makes the result of a round final before any *)
(* rank reads it; the refinement of ResultLog rests on the same fact.      *)
(* Parameters sums over threads, for any numbers of threads and parameters *)
(* and any width of a vector: the slices in which the threads add their    *)
(* gradients are disjoint and cover all parameters.  SocketRelay passes    *)
(* the messages of a forked application on, for sockets of any capacity.   *)
(***************************************************************************)
EXTENDS DelayedReductor, Parameters, SocketRelay, TLAPS

------------------------------------------------------------------------------
(* The reductions of ranks                                                 *)

\* A rank with a pending reduction has contributed to it, and a single rank never
\* has one.
PendingIsReal ==
  \A r \in Ranks : buffRequest[r] => Len(contributed[r]) > 0 /\ ~SingleRank

IInv == TypeOK /\ PendingIsReal /\ CallsMatched /\ ReadsOneRound

------------------------------------------------------------------------------
(* Operators                                                               *)

\* Appending leaves the elements before the new one in place.
LEMMA AppendKeeps ==
  ASSUME NEW c \in Seq(Values), NEW ret \in Values
  PROVE /\ Append(c, ret) \in Seq(Values)
        /\ Len(Append(c, ret)) = Len(c) + 1
        /\ Append(c, ret)[Len(c) + 1] = ret
        /\ \A n \in 1 .. Len(c) : Append(c, ret)[n] = c[n]
  OBVIOUS

\* A contribution by r changes no round that r had contributed to.
LEMMA CombinedKept ==
  ASSUME TypeOK, NEW r \in Ranks, NEW ret \in Values,
         contributed' = [contributed EXCEPT ![r] = Append(@, ret)],
         NEW n \in 1 .. Len(contributed[r])
  PROVE Combined(n)' = Combined(n)
<1>1. contributed \in [Ranks -> Seq(Values)] BY DEF TypeOK
<1>2. \A s \in Ranks : contributed'[s][n] = contributed[s][n]
  BY <1>1, AppendKeeps
<1> QED BY <1>2 DEF Combined


\* ... and the result of no such round, nor the initial one.
LEMMA ResultKept ==
  ASSUME TypeOK, NEW r \in Ranks, NEW ret \in Values,
         contributed' = [contributed EXCEPT ![r] = Append(@, ret)],
         NEW n \in Nat, n <= Len(contributed[r])
  PROVE ResultOf(n)' = ResultOf(n)
<1>1. CASE n = 0 BY <1>1 DEF ResultOf
<1>2. CASE n # 0
  <2>1. n \in 1 .. Len(contributed[r]) BY <1>2 DEF TypeOK
  <2>2. Combined(n)' = Combined(n) BY <2>1, CombinedKept
  <2> QED BY <2>2 DEF ResultOf
<1> QED BY <1>1, <1>2

\* The result of a round that all ranks have contributed to is a reduction of values.
LEMMA CombinedType ==
  ASSUME TypeOK, NEW n \in Nat \ {0}, \A s \in Ranks : n <= Len(contributed[s])
  PROVE Combined(n) \in [Ranks -> Values]
<1>1. contributed \in [Ranks -> Seq(Values)] BY DEF TypeOK
<1>2. \A s \in Ranks : contributed[s][n] \in Values
  <2> TAKE s \in Ranks
  <2>1. contributed[s] \in Seq(Values) /\ n \in 1 .. Len(contributed[s]) BY <1>1
  <2> QED BY <2>1
<1> QED BY <1>2 DEF Combined

\* What a rank has been shown is complete: all ranks have contributed to it.
LEMMA ShownIsComplete ==
  ASSUME TypeOK, PendingIsReal, CallsMatched, NEW r \in Ranks
  PROVE /\ Shown(r) \in Nat /\ Shown(r) <= Len(contributed[r])
        /\ \A s \in Ranks : Shown(r) <= Len(contributed[s])
<1>1. \A s \in Ranks : Len(contributed[s]) \in Nat BY DEF TypeOK
<1>2. CASE buffRequest[r]
  BY <1>1, <1>2 DEF Shown, PendingIsReal, CallsMatched
<1>3. CASE ~buffRequest[r]
  BY <1>1, <1>3 DEF Shown, CallsMatched
<1> QED BY <1>2, <1>3

------------------------------------------------------------------------------
(* The inductive invariant                                                 *)

\* It holds of the constructed object.
LEMMA InitIInv == Init => IInv
<1> SUFFICES ASSUME Init PROVE IInv OBVIOUS
<1>1. /\ contributed = [r \in Ranks |-> <<>>]
      /\ buffRequest = [r \in Ranks |-> FALSE]
      /\ return_ret = [r \in Ranks |-> Initial]
  BY DEF Init, DelayedReductor
<1>2. \A r \in Ranks : contributed[r] = <<>> /\ Len(contributed[r]) = 0 /\ ~buffRequest[r]
  BY <1>1
<1>3. TypeOK BY <1>1 DEF TypeOK
<1>4. PendingIsReal BY <1>2 DEF PendingIsReal
<1>5. CallsMatched BY <1>2 DEF CallsMatched
<1>6. \A r \in Ranks : Shown(r) = 0
  <2> TAKE r \in Ranks
  <2>1. Len(contributed[r]) = 0 /\ ~buffRequest[r] BY <1>2
  <2>2. Shown(r) = Len(contributed[r]) - 0 BY <2>1, Zenon DEF Shown
  <2> QED BY <2>1, <2>2
<1>7. ReadsOneRound BY <1>1, <1>6 DEF ReadsOneRound, ResultOf
<1> QED BY <1>3, <1>4, <1>5, <1>7 DEF IInv

\* update with other ranks: the result of the last round, if it was pending, is
\* complete and becomes readable.
LEMMA UpdateIInv ==
  ASSUME IInv, NEW r \in Ranks, NEW ret \in Values, update(r, ret), ~SingleRank
  PROVE IInv'
<1> USE DEF IInv
<1>1. /\ contributed \in [Ranks -> Seq(Values)]
      /\ buffRequest \in [Ranks -> BOOLEAN]
      /\ return_ret \in [Ranks -> {Initial} \cup [Ranks -> Values]]
  BY DEF TypeOK
<1>2. /\ contributed' = [contributed EXCEPT ![r] = Append(@, ret)]
      /\ buffRequest' = [buffRequest EXCEPT ![r] = TRUE]
      /\ buffRequest[r] => return_ret' = [return_ret EXCEPT ![r] = Combined(Len(contributed[r]))]
      /\ ~buffRequest[r] => return_ret' = return_ret
      /\ buffRequest[r] => MPI_Completes(r)
  BY Zenon DEF update
<1>3. /\ \A s \in Ranks : Len(contributed[s]) \in Nat
      /\ \A s \in Ranks \ {r} : contributed'[s] = contributed[s]
      /\ Len(contributed'[r]) = Len(contributed[r]) + 1
  BY <1>1, <1>2, AppendKeeps
<1>4. buffRequest'[r] /\ \A s \in Ranks \ {r} : buffRequest'[s] <=> buffRequest[s]
  BY <1>1, <1>2
<1>5. \A s \in Ranks : Len(contributed[r]) <= Len(contributed[s])
  <2>1. CASE buffRequest[r] BY <1>2, <1>3, <2>1 DEF MPI_Completes
  <2>2. CASE ~buffRequest[r] BY <2>2 DEF CallsMatched
  <2> QED BY <2>1, <2>2
<1>6. TypeOK'
  <2>1. contributed' \in [Ranks -> Seq(Values)] BY <1>1, <1>2, AppendKeeps
  <2>2. buffRequest' \in [Ranks -> BOOLEAN] BY <1>1, <1>2
  <2>3. CASE buffRequest[r]
    <3>1. Len(contributed[r]) \in Nat \ {0} BY <1>3, <2>3 DEF PendingIsReal
    <3>2. Combined(Len(contributed[r])) \in [Ranks -> Values]
      BY <1>5, <3>1, CombinedType
    <3> QED BY <1>1, <1>2, <2>1, <2>2, <2>3, <3>2 DEF TypeOK
  <2>4. CASE ~buffRequest[r]
    BY <1>1, <1>2, <2>1, <2>2, <2>4 DEF TypeOK
  <2> QED BY <2>3, <2>4
<1>7. PendingIsReal'
  BY <1>1, <1>3, <1>4 DEF PendingIsReal
<1>8. CallsMatched'
  <2>1. ASSUME NEW s \in Ranks, NEW t \in Ranks
        PROVE  /\ Len(contributed'[s]) <= Len(contributed'[t]) + 1
               /\ ~buffRequest'[s] => Len(contributed'[s]) <= Len(contributed'[t])
    <3>1. Len(contributed'[t]) >= Len(contributed[t])
      BY <1>3
    <3>2. CASE s = r BY <1>3, <1>4, <1>5, <3>1, <3>2
    <3>3. CASE s # r BY <1>3, <1>4, <3>1, <3>3 DEF CallsMatched
    <3> QED BY <3>2, <3>3
  <2> QED BY <2>1 DEF CallsMatched
<1>9. ReadsOneRound'
  <2>1. \A s \in Ranks \ {r} : Shown(s)' = Shown(s) /\ return_ret'[s] = return_ret[s]
    BY <1>1, <1>2, <1>3, <1>4 DEF Shown
  <2>2. Shown(r)' = Len(contributed[r])
    BY <1>1, <1>3, <1>4 DEF Shown
  <2>3. return_ret'[r] = ResultOf(Len(contributed[r]))
    <3>1. CASE buffRequest[r]
      BY <1>1, <1>2, <1>3, <3>1 DEF PendingIsReal, ResultOf
    <3>2. CASE ~buffRequest[r]
      <4>1. Shown(r) = Len(contributed[r]) BY <1>3, <3>2 DEF Shown
      <4> QED BY <1>2, <3>2, <4>1 DEF ReadsOneRound
    <3> QED BY <3>1, <3>2
  <2>4. \A s \in Ranks : /\ Shown(s)' \in Nat
                         /\ Shown(s)' <= Len(contributed[r])
                         /\ return_ret'[s] = ResultOf(Shown(s)')
    <3> TAKE s \in Ranks
    <3>1. CASE s = r BY <1>3, <2>2, <2>3, <3>1
    <3>2. CASE s # r BY <2>1, <3>2, ShownIsComplete DEF ReadsOneRound
    <3> QED BY <3>1, <3>2
  <2>5. \A s \in Ranks : ResultOf(Shown(s))' = ResultOf(Shown(s)')
    BY <1>2, <2>4, ResultKept
  <2> QED BY <2>4, <2>5 DEF ReadsOneRound
<1> QED BY <1>6, <1>7, <1>8, <1>9


\* update of a single rank: its contribution is the result.
LEMMA UpdateAloneIInv ==
  ASSUME IInv, NEW r \in Ranks, NEW ret \in Values, update(r, ret), SingleRank
  PROVE IInv'
<1> USE DEF IInv
<1>0. Ranks = {r} BY DEF SingleRank
<1>1. /\ contributed \in [Ranks -> Seq(Values)]
      /\ buffRequest \in [Ranks -> BOOLEAN]
      /\ return_ret \in [Ranks -> {Initial} \cup [Ranks -> Values]]
  BY DEF TypeOK
<1>2. /\ contributed' = [contributed EXCEPT ![r] = Append(@, ret)]
      /\ buffRequest' = buffRequest
      /\ return_ret' = [return_ret EXCEPT ![r] = [s \in Ranks |-> ret]]
  BY Zenon DEF update
<1>3. /\ Len(contributed[r]) \in Nat
      /\ Len(contributed'[r]) = Len(contributed[r]) + 1
      /\ contributed'[r][Len(contributed[r]) + 1] = ret
  BY <1>1, <1>2, AppendKeeps
<1>4. ~buffRequest'[r]
  BY <1>2 DEF PendingIsReal
<1>5. TypeOK'
  <2>1. contributed' \in [Ranks -> Seq(Values)] BY <1>1, <1>2, AppendKeeps
  <2> QED BY <1>1, <1>2, <2>1 DEF TypeOK
<1>6. PendingIsReal'
  BY <1>0, <1>4 DEF PendingIsReal
<1>7. CallsMatched'
  BY <1>0, <1>3 DEF CallsMatched
<1>8. ReadsOneRound'
  <2>1. Shown(r)' = Len(contributed'[r]) - 0 BY <1>4, Zenon DEF Shown
  <2>2. Shown(r)' = Len(contributed[r]) + 1 /\ Shown(r)' # 0 BY <1>3, <2>1
  <2>3. ResultOf(Shown(r))' = [s \in Ranks |-> ret]
    BY <1>0, <1>3, <2>2 DEF ResultOf, Combined
  <2>4. return_ret'[r] = [s \in Ranks |-> ret] BY <1>1, <1>2
  <2> QED BY <1>0, <2>3, <2>4 DEF ReadsOneRound
<1> QED BY <1>5, <1>6, <1>7, <1>8

\* A pending reduction that arrives is complete, and becomes readable.
LEMMA ArriveIInv ==
  ASSUME IInv, NEW r \in Ranks, arrive(r)
  PROVE IInv'
<1> USE DEF IInv
<1>1. /\ contributed \in [Ranks -> Seq(Values)]
      /\ buffRequest \in [Ranks -> BOOLEAN]
      /\ return_ret \in [Ranks -> {Initial} \cup [Ranks -> Values]]
  BY DEF TypeOK
<1>2. /\ contributed' = contributed
      /\ buffRequest' = [buffRequest EXCEPT ![r] = FALSE]
      /\ return_ret' = [return_ret EXCEPT ![r] = Combined(Len(contributed[r]))]
      /\ buffRequest[r] /\ MPI_Completes(r)
  BY DEF arrive
<1>3. ~buffRequest'[r] /\ \A s \in Ranks \ {r} : buffRequest'[s] <=> buffRequest[s]
  BY <1>1, <1>2
<1>4. /\ Len(contributed[r]) \in Nat \ {0}
      /\ \A s \in Ranks : Len(contributed[r]) <= Len(contributed[s])
  BY <1>1, <1>2 DEF PendingIsReal, MPI_Completes
<1>5. TypeOK'
  <2>1. Combined(Len(contributed[r])) \in [Ranks -> Values]
    BY <1>4, CombinedType
  <2> QED BY <1>1, <1>2, <2>1 DEF TypeOK
<1>6. PendingIsReal'
  BY <1>2, <1>3 DEF PendingIsReal
<1>7. CallsMatched'
  BY <1>2, <1>3, <1>4 DEF CallsMatched
<1>8. ReadsOneRound'
  <2>1. ASSUME NEW s \in Ranks
        PROVE  return_ret'[s] = ResultOf(Shown(s)')
    <3>1. CASE s = r
      <4>1. Shown(s)' = Len(contributed[r]) - 0 BY <1>2, <1>3, <3>1, Zenon DEF Shown
      <4>2. Shown(s)' = Len(contributed[r]) BY <1>4, <4>1
      <4> QED BY <1>1, <1>2, <1>4, <3>1, <4>2 DEF ResultOf
    <3>2. CASE s # r
      <4>1. Shown(s)' = Shown(s) BY <1>2, <1>3, <3>2 DEF Shown
      <4>2. return_ret'[s] = return_ret[s] BY <1>1, <1>2, <3>2
      <4> QED BY <4>1, <4>2 DEF ReadsOneRound
    <3> QED BY <3>1, <3>2
  <2>2. \A s \in Ranks : ResultOf(Shown(s))' = ResultOf(Shown(s)')
    BY <1>2 DEF ResultOf, Combined
  <2> QED BY <2>1, <2>2 DEF ReadsOneRound
<1> QED BY <1>5, <1>6, <1>7, <1>8

\* Every step keeps the invariant.
LEMMA NextIInv == IInv /\ [Next]_reductorVars => IInv'
<1> SUFFICES ASSUME IInv, [Next]_reductorVars PROVE IInv' OBVIOUS
<1>1. ASSUME NEW r \in Ranks, NEW ret \in Values, update(r, ret)
      PROVE  IInv'
  BY <1>1, UpdateIInv, UpdateAloneIInv
<1>2. CASE UNCHANGED reductorVars
  BY <1>2 DEF reductorVars, IInv, TypeOK, PendingIsReal, CallsMatched, ReadsOneRound,
              Shown, ResultOf, Combined
<1>3. ASSUME NEW r \in Ranks, NEW accurate \in BOOLEAN, get(r, accurate)
      PROVE  IInv'
  BY <1>2, <1>3, ArriveIInv DEF get
<1> QED BY <1>1, <1>2, <1>3 DEF Next

\* The invariant holds in every run.
THEOREM Inductive == Spec => []IInv
BY InitIInv, NextIInv, PTL DEF Spec

\* Every variable has its type.
THEOREM TypeCorrect == Spec => []TypeOK
<1>1. IInv => TypeOK BY DEF IInv
<1> QED BY <1>1, Inductive, PTL

\* No rank overtakes another by more than one reduction, whatever the number of
\* ranks: MPI never matches calls of two rounds.
THEOREM CallsMatchedHolds == Spec => []CallsMatched
<1>1. IInv => CallsMatched BY DEF IInv
<1> QED BY <1>1, Inductive, PTL

\* get() returns the complete result of one round, of the last one or the one before.
THEOREM ReadsOneRoundHolds == Spec => []ReadsOneRound
<1>1. IInv => ReadsOneRound BY DEF IInv
<1> QED BY <1>1, Inductive, PTL

------------------------------------------------------------------------------
(* Refinement of ResultLog                                                 *)

\* Ranks have made finitely many contributions.
LEMMA LengthsAreNat ==
  ASSUME NEW c \in [Ranks -> Seq(Values)]
  PROVE  \A s \in Ranks : Len(c[s]) \in Nat
OBVIOUS

\* Ranks being at most one apart, the least number of contributions is that of any
\* one rank or the one before: it is the last of the rounds that are complete.
LEMMA LeastContribution ==
  ASSUME NEW c \in [Ranks -> Seq(Values)],
         \A r, s \in Ranks : Len(c[r]) <= Len(c[s]) + 1,
         NEW first \in Ranks
  PROVE \E n \in 0 .. Len(c[first]) :
          /\ \A s \in Ranks : n <= Len(c[s])
          /\ \E s \in Ranks : n = Len(c[s])
<1>1. PICK N \in Nat : N = Len(c[first])
  BY LengthsAreNat
<1>2. \A s \in Ranks : Len(c[s]) \in Nat
  BY LengthsAreNat
<1>3. CASE \A s \in Ranks : N <= Len(c[s])
  BY <1>1, <1>3
<1>4. CASE \E s \in Ranks : ~(N <= Len(c[s]))
  <2>1. PICK s \in Ranks : Len(c[s]) < N BY <1>1, <1>2, <1>4
  <2>2. N - 1 \in 0 .. N /\ Len(c[s]) = N - 1 BY <1>1, <1>2, <2>1
  <2>3. \A t \in Ranks : N - 1 <= Len(c[t]) BY <1>1, <1>2
  <2> QED BY <1>1, <2>2, <2>3
<1> QED BY <1>3, <1>4

\* Agreed, for any contributions.
RoundsOf(c) == {n \in 0 .. Len(c[CHOOSE r \in Ranks : TRUE]) :
                  \A s \in Ranks : n <= Len(c[s])}
LastRound(c) == CHOOSE n \in RoundsOf(c) : \A m \in RoundsOf(c) : m <= n

LEMMA LastRoundFacts ==
  ASSUME NEW c \in [Ranks -> Seq(Values)],
         \A r, s \in Ranks : Len(c[r]) <= Len(c[s]) + 1
  PROVE /\ LastRound(c) \in Nat
        /\ \A s \in Ranks : LastRound(c) <= Len(c[s])
        /\ \E s \in Ranks : LastRound(c) = Len(c[s])
<1>1. PICK first \in Ranks : first = CHOOSE r \in Ranks : TRUE
  BY ReductorAssumption
<1>2. PICK n \in 0 .. Len(c[first]) : /\ \A s \in Ranks : n <= Len(c[s])
                                      /\ \E s \in Ranks : n = Len(c[s])
  BY LeastContribution
<1>3. n \in RoundsOf(c) /\ n \in Nat
  BY <1>1, <1>2 DEF RoundsOf
<1>4. \A m \in RoundsOf(c) : m \in Nat /\ m <= n
  BY <1>2 DEF RoundsOf
<1>5. LastRound(c) \in RoundsOf(c) /\ \A m \in RoundsOf(c) : m <= LastRound(c)
  BY <1>3, <1>4 DEF LastRound
<1>6. LastRound(c) \in Nat /\ LastRound(c) <= n /\ n <= LastRound(c)
  BY <1>3, <1>4, <1>5
<1>7. LastRound(c) = n
  BY <1>3, <1>6
<1> QED BY <1>2, <1>3, <1>7

\* Agreed is the least number of contributions, before a step ...
LEMMA AgreedFacts ==
  ASSUME IInv
  PROVE /\ Agreed \in Nat
        /\ \A s \in Ranks : Agreed <= Len(contributed[s])
        /\ \E s \in Ranks : Agreed = Len(contributed[s])
<1>1. /\ contributed \in [Ranks -> Seq(Values)]
      /\ \A r, s \in Ranks : Len(contributed[r]) <= Len(contributed[s]) + 1
  BY DEF IInv, TypeOK, CallsMatched
<1>2. Agreed = LastRound(contributed)
  BY DEF Agreed, CompleteRounds, LastRound, RoundsOf
<1> QED BY <1>1, <1>2, LastRoundFacts

\* ... and after it.
LEMMA AgreedFactsNext ==
  ASSUME IInv'
  PROVE /\ Agreed' \in Nat
        /\ \A s \in Ranks : Agreed' <= Len(contributed'[s])
        /\ \E s \in Ranks : Agreed' = Len(contributed'[s])
<1>1. /\ contributed' \in [Ranks -> Seq(Values)]
      /\ \A r, s \in Ranks : Len(contributed'[r]) <= Len(contributed'[s]) + 1
  BY DEF IInv, TypeOK, CallsMatched
<1>2. Agreed' = LastRound(contributed')
  BY DEF Agreed, CompleteRounds, LastRound, RoundsOf
<1> QED BY <1>1, <1>2, LastRoundFacts

\* The initial state is the one of an empty log.
LEMMA InitRefines == Init => Log!Init
<1> SUFFICES ASSUME Init PROVE Log!Init OBVIOUS
<1>1. IInv BY InitIInv
<1>2. /\ \A r \in Ranks : Len(contributed[r]) = 0 /\ ~buffRequest[r]
      /\ return_ret = [r \in Ranks |-> Initial]
  BY DEF Init, DelayedReductor
<1>3. Agreed = 0 BY <1>1, <1>2, AgreedFacts
<1>4. \A r \in Ranks : Shown(r) = 0
  <2> TAKE r \in Ranks
  <2>1. Shown(r) = Len(contributed[r]) - 0 BY <1>2, Zenon DEF Shown
  <2> QED BY <1>2, <2>1
<1> QED BY <1>2, <1>3, <1>4 DEF Log!Init

\* A contribution leaves the log as it is, or completes one round that is added.
LEMMA LogGrows ==
  ASSUME IInv, IInv', NEW r \in Ranks, NEW ret \in Values,
         contributed' = [contributed EXCEPT ![r] = Append(@, ret)]
  PROVE \/ [n \in 1 .. Agreed |-> Combined(n)]' = [n \in 1 .. Agreed |-> Combined(n)]
        \/ Log!Extended
<1>1. /\ \A s \in Ranks : Len(contributed[s]) \in Nat
      /\ Len(contributed'[r]) = Len(contributed[r]) + 1
      /\ \A s \in Ranks \ {r} : Len(contributed'[s]) = Len(contributed[s])
  BY AppendKeeps DEF IInv, TypeOK
<1>2. Agreed \in Nat /\ (Agreed' = Agreed \/ Agreed' = Agreed + 1)
  BY <1>1, AgreedFacts, AgreedFactsNext
<1>3. \A n \in 1 .. Agreed : Combined(n)' = Combined(n)
  <2> TAKE n \in 1 .. Agreed
  <2>1. n \in 1 .. Len(contributed[r]) BY <1>1, <1>2, AgreedFacts
  <2> QED BY <2>1, CombinedKept DEF IInv
<1>4. CASE Agreed' = Agreed
  BY <1>3, <1>4
<1>5. CASE Agreed' = Agreed + 1
  BY <1>2, <1>3, <1>5 DEF Log!Extended
<1> QED BY <1>2, <1>4, <1>5

\* A rank that becomes able to read one more result reads the next of the log.
LEMMA ReadsNext ==
  ASSUME IInv, IInv', NEW r \in Ranks,
         Shown(r)' = Shown(r) + 1,
         \A s \in Ranks \ {r} : Shown(s)' = Shown(s),
         \A s \in Ranks \ {r} : return_ret'[s] = return_ret[s]
  PROVE Log!Read(r)
<1>1. \A s \in Ranks : Shown(s) \in Nat
  BY ShownIsComplete DEF IInv
<1>3. \A s \in Ranks : Shown(r)' <= Len(contributed'[s])
  <2> TAKE s \in Ranks
  <2>1. Len(contributed'[s]) \in Nat /\ Len(contributed'[r]) \in Nat BY DEF IInv, TypeOK
  <2>2. CASE buffRequest'[r] BY <2>1, <2>2 DEF Shown, IInv, CallsMatched
  <2>3. CASE ~buffRequest'[r] BY <2>1, <2>3 DEF Shown, IInv, CallsMatched
  <2> QED BY <2>2, <2>3
<1>4. Shown(r)' \in 1 .. Agreed'
  BY <1>1, <1>3, AgreedFactsNext
<1>5. return_ret'[r] = Combined(Shown(r))'
  BY <1>1 DEF IInv, ReadsOneRound, ResultOf
<1>6. /\ return_ret \in [Ranks -> {Initial} \cup [Ranks -> Values]]
      /\ return_ret' \in [Ranks -> {Initial} \cup [Ranks -> Values]]
  BY DEF IInv, TypeOK
<1>7. [s \in Ranks |-> Shown(s)]' = [[s \in Ranks |-> Shown(s)] EXCEPT ![r] = @ + 1]
  OBVIOUS
<1>8. [n \in 1 .. Agreed |-> Combined(n)]'[Shown(r)'] = Combined(Shown(r))'
  BY <1>4
<1>9. return_ret' = [return_ret EXCEPT ![r] =
                       [n \in 1 .. Agreed |-> Combined(n)]'[[s \in Ranks |-> Shown(s)]'[r]]]
  BY <1>5, <1>6, <1>8
<1>10. [s \in Ranks |-> Shown(s)]'[r] <= Len([n \in 1 .. Agreed |-> Combined(n)]')
  BY <1>4, AgreedFactsNext
<1> QED BY <1>7, <1>9, <1>10 DEF Log!Read


\* update adds a contribution, and shows r the result of the reduction that it
\* waited for, if there is one.
LEMMA UpdateRefines ==
  ASSUME IInv, IInv', NEW r \in Ranks, NEW ret \in Values, update(r, ret)
  PROVE Log!Next \/ UNCHANGED Log!vars
<1>1. /\ contributed' = [contributed EXCEPT ![r] = Append(@, ret)]
      /\ \/ [n \in 1 .. Agreed |-> Combined(n)]' = [n \in 1 .. Agreed |-> Combined(n)]
         \/ Log!Extended
  BY LogGrows DEF update
<1>2. /\ \A s \in Ranks : Len(contributed[s]) \in Nat
      /\ Len(contributed'[r]) = Len(contributed[r]) + 1
      /\ \A s \in Ranks \ {r} : contributed'[s] = contributed[s]
      /\ buffRequest \in [Ranks -> BOOLEAN]
      /\ return_ret \in [Ranks -> {Initial} \cup [Ranks -> Values]]
  BY <1>1, AppendKeeps DEF IInv, TypeOK
<1>3. \A s \in Ranks \ {r} : /\ buffRequest'[s] <=> buffRequest[s]
                             /\ return_ret'[s] = return_ret[s]
  BY <1>2 DEF update
<1>4. \A s \in Ranks \ {r} : Shown(s)' = Shown(s)
  BY <1>2, <1>3 DEF Shown
<1>5. CASE SingleRank \/ buffRequest[r]
  <2>1. Shown(r)' = Shown(r) + 1
    <3>1. CASE SingleRank
      <4>1. ~buffRequest[r] /\ ~buffRequest'[r]
        BY <3>1 DEF IInv, PendingIsReal, SingleRank
      <4> QED BY <1>2, <4>1 DEF Shown
    <3>2. CASE ~SingleRank
      <4>1. buffRequest[r] /\ buffRequest'[r] BY <1>2, <1>5, <3>2 DEF update
      <4> QED BY <1>2, <4>1 DEF Shown
    <3> QED BY <3>1, <3>2
  <2>2. Log!Read(r)
    BY <1>3, <1>4, <2>1, ReadsNext
  <2> QED BY <1>1, <2>2 DEF Log!Next
<1>6. CASE ~SingleRank /\ ~buffRequest[r]
  <2>1. buffRequest'[r] /\ return_ret' = return_ret
    BY <1>2, <1>6 DEF update
  <2>2. Shown(r)' = Shown(r)
    BY <1>2, <1>6, <2>1 DEF Shown
  <2>3. [s \in Ranks |-> Shown(s)]' = [s \in Ranks |-> Shown(s)]
    BY <1>4, <2>2
  <2> QED BY <1>1, <2>1, <2>3 DEF Log!Next, Log!vars
<1> QED BY <1>5, <1>6

\* A reduction that arrives shows its result to r.
LEMMA ArriveRefines ==
  ASSUME IInv, IInv', NEW r \in Ranks, arrive(r)
  PROVE Log!Next
<1>1. /\ buffRequest \in [Ranks -> BOOLEAN]
      /\ return_ret \in [Ranks -> {Initial} \cup [Ranks -> Values]]
      /\ \A s \in Ranks : Len(contributed[s]) \in Nat
  BY DEF IInv, TypeOK
<1>2. /\ contributed' = contributed
      /\ buffRequest[r] /\ ~buffRequest'[r]
      /\ \A s \in Ranks \ {r} : /\ buffRequest'[s] <=> buffRequest[s]
                                /\ return_ret'[s] = return_ret[s]
  BY <1>1 DEF arrive
<1>3. Shown(r)' = Shown(r) + 1 /\ \A s \in Ranks \ {r} : Shown(s)' = Shown(s)
  <2>1. Shown(r)' = Len(contributed[r]) - 0 /\ Shown(r) = Len(contributed[r]) - 1
    BY <1>2, Zenon DEF Shown
  <2>2. \A s \in Ranks \ {r} : Shown(s)' = Shown(s)
    BY <1>2 DEF Shown
  <2> QED BY <1>1, <2>1, <2>2
<1>4. Log!Read(r)
  BY <1>2, <1>3, ReadsNext
<1>5. [n \in 1 .. Agreed |-> Combined(n)]' = [n \in 1 .. Agreed |-> Combined(n)]
  BY <1>2 DEF Agreed, CompleteRounds, Combined
<1> QED BY <1>4, <1>5 DEF Log!Next

\* The delayed reductions are one sequence of results that every rank reads in order
\* and without gaps, for every number of ranks and of rounds.
THEOREM Refinement == Spec => ImplementsLog
<1>1. IInv /\ IInv' /\ [Next]_reductorVars => Log!Next \/ UNCHANGED Log!vars
  <2> SUFFICES ASSUME IInv, IInv', [Next]_reductorVars
               PROVE  Log!Next \/ UNCHANGED Log!vars
    OBVIOUS
  <2>1. CASE UNCHANGED reductorVars
    BY <2>1 DEF reductorVars, Log!vars, Agreed, CompleteRounds, Combined, Shown
  <2>2. ASSUME NEW r \in Ranks, NEW ret \in Values, update(r, ret)
        PROVE  Log!Next \/ UNCHANGED Log!vars
    BY <2>2, UpdateRefines
  <2>3. ASSUME NEW r \in Ranks, NEW accurate \in BOOLEAN, get(r, accurate)
        PROVE  Log!Next \/ UNCHANGED Log!vars
    BY <2>1, <2>3, ArriveRefines DEF get
  <2> QED BY <2>1, <2>2, <2>3 DEF Next
<1> QED BY <1>1, InitRefines, Inductive, PTL DEF Spec, ImplementsLog, Log!Spec

------------------------------------------------------------------------------
(* The gradients of threads: turns and slices                                                          *)

LEMMA TurnAround ==
  ASSUME NEW N \in Nat \ {0}, NEW a \in 0 .. 2 * N - 1
  PROVE  a % N = IF a < N THEN a ELSE a - N
OBVIOUS

LEMMA WholeShares ==
  ASSUME NEW n \in Nat, NEW u \in Nat \ {0}
  PROVE  (n + u - 1) \div u \in Nat /\ u * ((n + u - 1) \div u) >= n
OBVIOUS

LEMMA Product ==
  ASSUME NEW a \in Nat, NEW b \in Nat, NEW c \in Nat
  PROVE  a * b \in Nat /\ (a * b) * c = a * (c * b) /\ (a <= c => a * b <= c * b)
OBVIOUS

LEMMA ShareOf ==
  ASSUME NEW k \in Nat, NEW m \in Nat, NEW N \in Nat, k < N * m
  PROVE  \E s \in 0 .. N - 1 : s * m <= k /\ k < (s + 1) * m
<1>1. m > 0
  OBVIOUS
<1> DEFINE s == k \div m
<1>2. s \in Nat /\ s * m <= k /\ k < (s + 1) * m
  BY <1>1
<1> HIDE DEF s
<1>3. s < N
  <2> SUFFICES ASSUME N <= s PROVE FALSE
    BY <1>2
  <2>1. N * m <= s * m /\ N * m \in Nat /\ s * m \in Nat
    BY <1>2, Product
  <2> DEFINE x == N * m
             y == s * m
  <2>2. x <= y /\ y <= k /\ k < x /\ x \in Nat /\ y \in Nat
    BY <1>2, <2>1
  <2> HIDE DEF x, y
  <2> QED BY <2>2
<1> QED BY <1>2, <1>3

In(s, k) == startOf(s) <= k /\ k < endOf(s)

LEMMA ShareCovers ==
  ASSUME Sizes, thrN \in Nat \ {0}
  PROVE  shift \in Nat /\ nParams <= thrN * shift
<1> DEFINE u == thrN * SimdWidth
           q == (nParams + u - 1) \div u
<1>1. nParams \in Nat /\ SimdWidth \in Nat \ {0} /\ thrN \in Nat \ {0}
  BY DEF Sizes
<1>2. u \in Nat \ {0}
  BY <1>1
<1>3. q \in Nat /\ u * q >= nParams
  BY <1>1, <1>2, WholeShares
<1>4. shift = q * SimdWidth
  BY DEF shift
<1> HIDE DEF q
<1>5. u * q = thrN * (q * SimdWidth) /\ q * SimdWidth \in Nat
  BY <1>1, <1>3, Product
<1> QED BY <1>3, <1>4, <1>5

LEMMA Turns ==
  ASSUME thrN \in Nat \ {0}, NEW t \in Grads
  PROVE  /\ \A i \in 0 .. thrN - 1 : Slice(t, i) = IF t + i < thrN THEN t + i ELSE t + i - thrN
         /\ \A i \in 0 .. thrN : Slice(t, i) \in Grads
         /\ \A s \in Grads : \E i \in 0 .. thrN - 1 : Slice(t, i) = s
<1>1. \A i \in 0 .. thrN : t + i \in 0 .. 2 * thrN - 1
  BY DEF Grads
<1>2. \A i \in 0 .. thrN : Slice(t, i) = IF t + i < thrN THEN t + i ELSE t + i - thrN
  <2> SUFFICES ASSUME NEW i \in 0 .. thrN
               PROVE  Slice(t, i) = IF t + i < thrN THEN t + i ELSE t + i - thrN
    OBVIOUS
  <2>1. PICK a \in 0 .. 2 * thrN - 1 : a = t + i
    BY <1>1
  <2>2. a % thrN = IF a < thrN THEN a ELSE a - thrN
    BY TurnAround
  <2>3. Slice(t, i) = a % thrN
    BY <2>1 DEF Slice
  <2>4. t \in Int /\ i \in Int /\ thrN \in Int
    BY DEF Grads
  <2>5. Slice(t, i) = IF a < thrN THEN a ELSE a - thrN
    BY <2>2, <2>3
  <2> QED BY <2>1, <2>4, <2>5
<1>3. ASSUME NEW s \in Grads PROVE \E i \in 0 .. thrN - 1 : Slice(t, i) = s
  <2> DEFINE i == IF s >= t THEN s - t ELSE s - t + thrN
  <2>1. i \in 0 .. thrN - 1 /\ (IF t + i < thrN THEN t + i ELSE t + i - thrN) = s
    BY DEF Grads
  <2> HIDE DEF i
  <2> QED BY <1>2, <2>1
<1> QED BY <1>2, <1>3 DEF Grads

LEMMA InGrads ==
  ASSUME thrN \in Nat \ {0}, NEW t \in Grads, NEW i \in 0 .. thrN
  PROVE  Slice(t, i) \in Grads
BY Turns

\* In the same turn the slices of two threads are different.
LEMMA SlicesDiffer ==
  ASSUME thrN \in Nat \ {0}, NEW t \in Grads, NEW u \in Grads, t # u, NEW i \in 0 .. thrN - 1
  PROVE  Slice(t, i) # Slice(u, i)
<1>1. /\ Slice(t, i) = IF t + i < thrN THEN t + i ELSE t + i - thrN
      /\ Slice(u, i) = IF u + i < thrN THEN u + i ELSE u + i - thrN
  BY Turns
<1> QED BY <1>1 DEF Grads

LEMMA SlicesApart ==
  ASSUME Sizes, thrN \in Nat \ {0}, NEW r \in Grads, NEW s \in Grads, r # s, NEW k \in Nat, In(r, k)
  PROVE  ~In(s, k)
<1>1. shift \in Nat /\ nParams \in Nat /\ r \in Nat /\ s \in Nat
  BY ShareCovers DEF Sizes, Grads
<1>2. \A a \in Nat : \A b \in Nat : a < b /\ In(a, k) => ~In(b, k)
  <2> SUFFICES ASSUME NEW a \in Nat, NEW b \in Nat, a < b, In(a, k), In(b, k) PROVE FALSE
    OBVIOUS
  <2> DEFINE x == (a + 1) * shift
             y == b * shift
  <2>1. x \in Nat /\ y \in Nat /\ x <= y
    BY <1>1, Product
  <2>2. k < x /\ y <= k
    BY <1>1, <2>1 DEF In, startOf, endOf
  <2> HIDE DEF x, y
  <2> QED BY <2>1, <2>2
<1> QED BY <1>1, <1>2

LEMMA SlicesCover ==
  ASSUME Sizes, thrN \in Nat \ {0}, NEW k \in Params
  PROVE  \E s \in Grads : In(s, k)
<1>1. shift \in Nat /\ nParams \in Nat /\ k \in Nat /\ k < nParams /\ nParams <= thrN * shift
  BY ShareCovers DEF Sizes, Params
<1>2. thrN * shift \in Nat
  BY <1>1, Product
<1>3. k < thrN * shift
  BY <1>1, <1>2
<1>4. PICK s \in 0 .. thrN - 1 : s * shift <= k /\ k < (s + 1) * shift
  BY <1>1, <1>3, ShareOf
<1> QED BY <1>1, <1>4 DEF In, startOf, endOf, Grads

------------------------------------------------------------------------------
(* The inductive invariant                                                   *)

Working == {"add", "store", "barrier"}
Finished == {"clear", "done"}

\* What a thread has added its gradient to.
Passed(t, k) ==
  \/ \E i \in 0 .. turn[t] - 1 : In(Slice(t, i), k)
  \/ In(Slice(t, turn[t]), k) /\ k < pos[t]

\* The threads are in the same turn.
Together ==
  \/ \A t \in Grads : tpc[t] = "idle"
  \/ /\ \A t \in Grads : tpc[t] \in Working /\ turn[t] < thrN
     /\ \A t, u \in Grads : turn[t] = turn[u]
  \/ \A t \in Grads : tpc[t] \in Finished

\* Where a thread is in its slice.
Placed ==
  \A t \in Grads :
    /\ tpc[t] \in Working => startOf(Slice(t, turn[t])) <= pos[t]
    /\ tpc[t] = "store" => /\ t \in written /\ pos[t] < endOf(Slice(t, turn[t]))
                           /\ read[t] = dst[pos[t]]
    /\ tpc[t] = "barrier" /\ t \in written => pos[t] >= endOf(Slice(t, turn[t]))

SumInv ==
  \A t \in Grads, k \in Params :
    /\ tpc[t] = "idle" => t \notin dst[k]
    /\ tpc[t] \in Working => (t \in dst[k] <=> t \in written /\ Passed(t, k))
    /\ tpc[t] \in Finished => (t \in dst[k] <=> t \in written)

GradIInv == Sizes /\ gradTypeOK /\ Together /\ Placed /\ SumInv

LEMMA Facts ==
  ASSUME Sizes, gradTypeOK
  PROVE  /\ thrN \in Nat \ {0} /\ nParams \in Nat /\ shift \in Nat
         /\ \A s \in Grads : startOf(s) \in Nat /\ endOf(s) \in Nat /\ endOf(s) <= nParams
<1>1. thrN \in Nat \ {0} /\ nParams \in Nat /\ shift \in Nat
  BY ShareCovers DEF Sizes, gradTypeOK
<1>2. ASSUME NEW s \in Grads PROVE s * shift \in Nat /\ (s + 1) * shift \in Nat
  BY <1>1, <1>2, Product DEF Grads
<1> QED BY <1>1, <1>2 DEF startOf, endOf

LEMMA InitGradIInv == Sizes /\ gradInit => GradIInv
<1> SUFFICES ASSUME Sizes, gradInit PROVE GradIInv
  OBVIOUS
<1>1. gradTypeOK
  BY DEF Sizes, gradInit, gradTypeOK, Grads
<1>2. Together /\ Placed /\ SumInv
  BY DEF gradInit, Together, Placed, SumInv, Working, Finished
<1> QED BY <1>1, <1>2 DEF GradIInv

LEMMA PrepareKeeps ==
  ASSUME GradIInv, NEW threads \in SUBSET Grads, prepare_update(threads)
  PROVE  GradIInv'
<1>1. Sizes /\ gradTypeOK /\ SumInv /\ thrN \in Nat \ {0} /\ \A s \in Grads : startOf(s) \in Nat
  BY Facts DEF GradIInv
<1>2. /\ thrN' = thrN /\ dst' = dst /\ read' = read /\ written' = threads
      /\ tpc' = [t \in Grads |-> "add"] /\ turn' = [t \in Grads |-> 0]
      /\ pos' = [t \in Grads |-> startOf(Slice(t, 0))]
      /\ \A t \in Grads : tpc[t] = "idle"
  BY DEF prepare_update
<1>3. Grads' = Grads /\ \A s, k : startOf(s)' = startOf(s) /\ endOf(s)' = endOf(s) /\ (In(s, k))' = In(s, k)
  BY <1>2 DEF Grads, startOf, endOf, shift, In
<1>4. \A t \in Grads : Slice(t, 0) \in Grads /\ \A i : Slice(t, i)' = Slice(t, i)
  BY <1>1, <1>2, Turns DEF Slice
<1>5. gradTypeOK'
  BY <1>1, <1>2, <1>3, <1>4 DEF gradTypeOK
<1>6. Together' /\ Placed'
  BY <1>1, <1>2, <1>3, <1>4 DEF Together, Placed, Working
<1>7. SumInv'
  <2> SUFFICES ASSUME NEW t \in Grads, NEW k \in Params
               PROVE  t \notin dst[k] /\ ~Passed(t, k)' /\ tpc'[t] = "add"
    BY <1>2, <1>3 DEF SumInv, Working, Finished
  <2>1. t \notin dst[k] /\ tpc'[t] = "add" /\ turn'[t] = 0 /\ pos'[t] = startOf(Slice(t, 0))
    BY <1>1, <1>2 DEF SumInv
  <2>2. k \in Int /\ startOf(Slice(t, 0)) \in Nat
    BY <1>1, <1>4 DEF Sizes, Params
  <2>3. 0 .. 0 - 1 = {}
    OBVIOUS
  <2>4. ~Passed(t, k)'
    BY <1>3, <1>4, <2>1, <2>2, <2>3 DEF Passed, In
  <2> QED BY <2>1, <2>4
<1> QED BY <1>5, <1>6, <1>7 DEF GradIInv

\* Nothing but the sum, and where the threads are, changes while they work.
LEMMA Unmoved ==
  ASSUME thrN' = thrN
  PROVE  /\ Grads' = Grads
         /\ \A s, k : startOf(s)' = startOf(s) /\ endOf(s)' = endOf(s) /\ (In(s, k))' = In(s, k)
         /\ \A t, i : Slice(t, i)' = Slice(t, i)
BY DEF Grads, startOf, endOf, shift, In, Slice

LEMMA ReadKeeps ==
  ASSUME GradIInv, NEW t \in Grads, Read(t)
  PROVE  GradIInv'
<1>1. Sizes /\ gradTypeOK /\ Together /\ Placed /\ SumInv /\ thrN \in Nat \ {0}
  BY Facts DEF GradIInv
<1>2. /\ UNCHANGED <<thrN, written, dst, turn, pos>> /\ tpc[t] = "add"
      /\ t \in written /\ pos[t] < endOf(Slice(t, turn[t]))
      /\ read' = [read EXCEPT ![t] = dst[pos[t]]] /\ tpc' = [tpc EXCEPT ![t] = "store"]
  BY DEF Read
<1>3. \A u \in Grads : /\ tpc'[u] = IF u = t THEN "store" ELSE tpc[u]
                       /\ read'[u] = IF u = t THEN dst[pos[t]] ELSE read[u]
  BY <1>1, <1>2 DEF gradTypeOK
<1>4. turn[t] \in 0 .. thrN - 1 /\ turn[t] \in 0 .. thrN
  BY <1>1, <1>2 DEF Together, gradTypeOK, Working, Finished
<1>5. pos[t] \in Params
  <2>1. Slice(t, turn[t]) \in Grads
    BY <1>1, <1>4, InGrads
  <2>2. endOf(Slice(t, turn[t])) \in Nat /\ endOf(Slice(t, turn[t])) <= nParams
    BY <1>1, <2>1, Facts
  <2> QED BY <1>1, <1>2, <2>2 DEF Sizes, gradTypeOK, Params
<1>6. gradTypeOK'
  BY <1>1, <1>2, <1>5, Unmoved DEF gradTypeOK
<1>7. Together'
  BY <1>1, <1>2, <1>3, Unmoved DEF Together, Working, Finished
<1>8. Placed'
  BY <1>1, <1>2, <1>3, Unmoved DEF Placed, Working
<1>9. \A u, k : Passed(u, k)' = Passed(u, k)
  BY <1>2, Unmoved DEF Passed
<1>10. SumInv'
  BY <1>1, <1>2, <1>3, <1>9, Unmoved DEF SumInv, Working, Finished
<1> QED BY <1>6, <1>7, <1>8, <1>10 DEF GradIInv

LEMMA StoreKeeps ==
  ASSUME GradIInv, NEW t \in Grads, Store(t)
  PROVE  GradIInv'
<1>1. Sizes /\ gradTypeOK /\ Together /\ Placed /\ SumInv /\ thrN \in Nat \ {0} /\ nParams \in Nat
  BY Facts DEF GradIInv
<1> DEFINE here == pos[t]
           mine == Slice(t, turn[t])
<1>2. /\ UNCHANGED <<thrN, written, turn, read>> /\ tpc[t] = "store"
      /\ dst' = [dst EXCEPT ![here] = read[t] \cup {t}]
      /\ pos' = [pos EXCEPT ![t] = here + 1] /\ tpc' = [tpc EXCEPT ![t] = "add"]
  BY DEF Store
<1>3. \A u \in Grads : /\ tpc'[u] = IF u = t THEN "add" ELSE tpc[u]
                       /\ pos'[u] = IF u = t THEN here + 1 ELSE pos[u]
  BY <1>1, <1>2 DEF gradTypeOK
<1>4. /\ turn[t] \in 0 .. thrN - 1 /\ turn[t] \in 0 .. thrN
      /\ \A u \in Grads : tpc[u] \in Working /\ turn[u] = turn[t]
  BY <1>1, <1>2 DEF Together, gradTypeOK, Working, Finished
<1>5. \A u \in Grads : Slice(u, turn[t]) \in Grads
  BY <1>1, <1>4, InGrads
<1>6. /\ startOf(mine) <= here /\ here < endOf(mine) /\ t \in written /\ read[t] = dst[here]
      /\ startOf(mine) \in Nat /\ endOf(mine) \in Nat /\ endOf(mine) <= nParams
  BY <1>1, <1>2, <1>5, Facts DEF Placed, Working
<1>7. here \in Params /\ here \in Nat /\ In(mine, here)
  BY <1>1, <1>6 DEF gradTypeOK, Params, In
<1>8. \A k \in Params : dst'[k] = IF k = here THEN dst[k] \cup {t} ELSE dst[k]
  BY <1>1, <1>2, <1>6, <1>7 DEF gradTypeOK
\* The others are in slices of their own.
<1>9. ASSUME NEW u \in Grads, u # t PROVE ~In(Slice(u, turn[t]), here)
  <2>1. Slice(u, turn[t]) # mine
    BY <1>1, <1>4, <1>9, SlicesDiffer
  <2> QED BY <1>1, <1>5, <1>7, <2>1, SlicesApart
<1>10. gradTypeOK'
  <2>1. read[t] \cup {t} \in SUBSET Grads /\ here + 1 \in Nat
    BY <1>1, <1>7 DEF gradTypeOK
  <2>2. dst' \in [Params -> SUBSET Grads] /\ pos' \in [Grads -> Nat]
        /\ tpc' \in [Grads -> {"idle", "add", "store", "barrier", "clear", "done"}]
    BY <1>1, <1>2, <2>1 DEF gradTypeOK
  <2> QED BY <1>1, <1>2, <2>2, Unmoved DEF gradTypeOK
<1>11. Together'
  BY <1>1, <1>2, <1>3, Unmoved DEF Together, Working, Finished
<1>12. Placed'
  <2>1. ASSUME NEW u \in Grads, u # t, tpc[u] = "store" PROVE dst'[pos[u]] = dst[pos[u]]
    <3>1. startOf(Slice(u, turn[t])) <= pos[u] /\ pos[u] < endOf(Slice(u, turn[t]))
      BY <1>1, <1>4, <2>1 DEF Placed, Working
    <3>2. pos[u] # here
      BY <1>9, <2>1, <3>1 DEF In
    <3> QED BY <1>1, <1>2, <3>2 DEF gradTypeOK
  <2>2. startOf(mine) <= here + 1
    BY <1>6, <1>7
  <2> SUFFICES ASSUME NEW u \in Grads
               PROVE  /\ tpc'[u] \in Working => startOf(Slice(u, turn[u])) <= pos'[u]
                      /\ tpc'[u] = "store" =>
                           /\ u \in written /\ pos'[u] < endOf(Slice(u, turn[u]))
                           /\ read[u] = dst'[pos'[u]]
                      /\ tpc'[u] = "barrier" /\ u \in written => pos'[u] >= endOf(Slice(u, turn[u]))
    <3>1. /\ Grads' = Grads /\ written' = written /\ turn' = turn /\ read' = read
          /\ \A s : startOf(s)' = startOf(s) /\ endOf(s)' = endOf(s)
          /\ \A v, i : Slice(v, i)' = Slice(v, i)
      BY <1>2, Unmoved
    <3> QED BY <3>1 DEF Placed
  <2>3. CASE u = t
    BY <1>3, <2>2, <2>3
  <2>4. CASE u # t
    <3>1. tpc'[u] = tpc[u] /\ pos'[u] = pos[u]
      BY <1>3, <2>4
    <3> QED BY <1>1, <2>1, <2>4, <3>1 DEF Placed
  <2> QED BY <2>3, <2>4
<1>13. SumInv'
  <2> SUFFICES ASSUME NEW u \in Grads, NEW k \in Params
               PROVE  u \in dst'[k] <=> u \in written /\ Passed(u, k)'
    BY <1>2, <1>3, <1>4, Unmoved DEF SumInv, Working, Finished
  <2>1. u \in dst[k] <=> u \in written /\ Passed(u, k)
    BY <1>1, <1>4 DEF SumInv
  <2>2. CASE u # t
    <3>1. Passed(u, k)' = Passed(u, k)
      BY <1>2, <1>3, <2>2, Unmoved DEF Passed
    <3>2. u \in dst'[k] <=> u \in dst[k]
      BY <1>8, <2>2
    <3> QED BY <1>2, <2>1, <3>1, <3>2
  <2>3. CASE u = t
    <3>1. pos'[t] = here + 1 /\ turn'[t] = turn[t] /\ k \in Int /\ here \in Int
      BY <1>1, <1>2, <1>3, <1>7 DEF Params
    <3>2. k < here + 1 <=> k < here \/ k = here
      BY <3>1
    <3>3. Passed(t, k)' <=> \/ \E i \in 0 .. turn[t] - 1 : In(Slice(t, i), k)
                            \/ In(mine, k) /\ k < here + 1
      BY <1>2, <3>1, Unmoved DEF Passed
    <3>4. Passed(t, k)' <=> Passed(t, k) \/ k = here
      BY <1>7, <3>2, <3>3 DEF Passed
    <3>5. t \in dst'[k] <=> t \in dst[k] \/ k = here
      BY <1>8
    <3> QED BY <1>2, <1>6, <2>1, <2>3, <3>4, <3>5
  <2> QED BY <2>2, <2>3
<1> QED BY <1>10, <1>11, <1>12, <1>13 DEF GradIInv

LEMMA ArriveKeeps ==
  ASSUME GradIInv, NEW t \in Grads, Arrive(t)
  PROVE  GradIInv'
<1>1. Sizes /\ gradTypeOK /\ Together /\ Placed /\ SumInv
  BY DEF GradIInv
<1>2. /\ UNCHANGED <<thrN, written, dst, turn, pos, read>> /\ tpc[t] = "add"
      /\ t \notin written \/ pos[t] >= endOf(Slice(t, turn[t]))
      /\ tpc' = [tpc EXCEPT ![t] = "barrier"]
  BY DEF Arrive
<1>3. \A u \in Grads : tpc'[u] = IF u = t THEN "barrier" ELSE tpc[u]
  BY <1>1, <1>2 DEF gradTypeOK
<1>4. gradTypeOK'
  BY <1>1, <1>2, Unmoved DEF gradTypeOK
<1>5. Together'
  BY <1>1, <1>2, <1>3, Unmoved DEF Together, Working, Finished
<1>6. Placed'
  BY <1>1, <1>2, <1>3, Unmoved DEF Placed, Working
<1>7. \A u, k : Passed(u, k)' = Passed(u, k)
  BY <1>2, Unmoved DEF Passed
<1>8. SumInv'
  BY <1>1, <1>2, <1>3, <1>7, Unmoved DEF SumInv, Working, Finished
<1> QED BY <1>4, <1>5, <1>6, <1>8 DEF GradIInv

LEMMA ClearKeeps ==
  ASSUME GradIInv, NEW t \in Grads, clear(t)
  PROVE  GradIInv'
<1>1. Sizes /\ gradTypeOK /\ Together /\ Placed /\ SumInv
  BY DEF GradIInv
<1>2. /\ UNCHANGED <<thrN, written, dst, turn, pos, read>> /\ tpc[t] = "clear"
      /\ tpc' = [tpc EXCEPT ![t] = "done"]
  BY DEF clear
<1>3. \A u \in Grads : tpc'[u] = IF u = t THEN "done" ELSE tpc[u]
  BY <1>1, <1>2 DEF gradTypeOK
<1>4. gradTypeOK'
  BY <1>1, <1>2, Unmoved DEF gradTypeOK
<1>5. Together'
  BY <1>1, <1>2, <1>3, Unmoved DEF Together, Working, Finished
<1>6. Placed'
  BY <1>1, <1>2, <1>3, Unmoved DEF Placed, Working
<1>7. \A u, k : Passed(u, k)' = Passed(u, k)
  BY <1>2, Unmoved DEF Passed
<1>8. SumInv'
  BY <1>1, <1>2, <1>3, <1>7, Unmoved DEF SumInv, Working, Finished
<1> QED BY <1>4, <1>5, <1>6, <1>8 DEF GradIInv

\* At the barrier every thread has passed its whole slice; after the last turn that is
\* every parameter.
LEMMA BarrierKeeps ==
  ASSUME GradIInv, Barrier
  PROVE  GradIInv'
<1>1. Sizes /\ gradTypeOK /\ Together /\ Placed /\ SumInv /\ thrN \in Nat \ {0}
  BY Facts DEF GradIInv
<1>2. /\ UNCHANGED <<thrN, written, dst, read>> /\ \A t \in Grads : tpc[t] = "barrier"
      /\ turn' = [t \in Grads |-> turn[t] + 1]
      /\ pos' = [t \in Grads |-> startOf(Slice(t, turn[t] + 1))]
      /\ tpc' = [t \in Grads |-> IF turn[t] + 1 = thrN THEN "clear" ELSE "add"]
  BY DEF Barrier
<1>3. 0 \in Grads
  BY <1>1 DEF Grads
<1>4. /\ \A t \in Grads : turn[t] \in 0 .. thrN - 1
      /\ \A t, u \in Grads : turn[t] = turn[u]
  BY <1>1, <1>2, <1>3 DEF Together, gradTypeOK, Working, Finished
<1>5. ASSUME NEW t \in Grads PROVE Slice(t, turn[t]) \in Grads /\ Slice(t, turn[t] + 1) \in Grads
  <2>1. turn[t] \in 0 .. thrN /\ turn[t] + 1 \in 0 .. thrN
    BY <1>1, <1>4
  <2> QED BY <1>1, <2>1, InGrads
<1>6. \A t \in Grads : startOf(Slice(t, turn[t] + 1)) \in Nat
  BY <1>1, <1>5, Facts
<1>7. gradTypeOK'
  BY <1>1, <1>2, <1>4, <1>6, Unmoved DEF gradTypeOK
<1>8. Together'
  <2>1. Grads' = Grads /\ thrN' = thrN /\ turn[0] \in 0 .. thrN - 1
    BY <1>2, <1>3, <1>4, Unmoved
  <2>2. \A t \in Grads : /\ turn[t] = turn[0] /\ turn'[t] = turn[0] + 1
                         /\ tpc'[t] = IF turn[0] + 1 = thrN THEN "clear" ELSE "add"
    BY <1>2, <1>3, <1>4
  <2>3. CASE turn[0] + 1 = thrN
    <3>1. \A t \in Grads : tpc'[t] \in Finished
      BY <2>2, <2>3 DEF Finished
    <3> QED BY <2>1, <3>1 DEF Together
  <2>4. CASE turn[0] + 1 # thrN
    <3>1. \A t \in Grads : tpc'[t] \in Working
      BY <2>2, <2>4 DEF Working
    <3>2. turn[0] + 1 < thrN
      BY <1>1, <2>1, <2>4
    <3>3. \A t \in Grads : turn'[t] < thrN /\ \A u \in Grads : turn'[t] = turn'[u]
      BY <2>2, <3>2
    <3> QED BY <2>1, <3>1, <3>3 DEF Together
  <2> QED BY <2>3, <2>4
<1>9. Placed'
  <2> SUFFICES ASSUME NEW t \in Grads
               PROVE  /\ tpc'[t] \notin {"store", "barrier"}
                      /\ startOf(Slice(t, turn'[t])) <= pos'[t]
    BY <1>2, Unmoved DEF Placed
  <2>1. turn'[t] = turn[t] + 1 /\ pos'[t] = startOf(Slice(t, turn[t] + 1)) /\ pos'[t] \in Nat
    BY <1>2, <1>6
  <2> QED BY <1>2, <2>1
<1>10. ASSUME NEW t \in Grads, NEW k \in Params, t \in written
       PROVE  Passed(t, k) <=> \E i \in 0 .. turn[t] : In(Slice(t, i), k)
  <2>1. pos[t] >= endOf(Slice(t, turn[t])) /\ pos[t] \in Nat /\ endOf(Slice(t, turn[t])) \in Nat
        /\ k \in Int
    <3>1. pos[t] >= endOf(Slice(t, turn[t]))
      BY <1>1, <1>2, <1>10 DEF Placed
    <3>2. pos[t] \in Nat /\ endOf(Slice(t, turn[t])) \in Nat
      BY <1>1, <1>5, Facts DEF gradTypeOK
    <3>3. k \in Int
      BY <1>1 DEF Params
    <3> QED BY <3>1, <3>2, <3>3
  <2>2. In(Slice(t, turn[t]), k) => k < pos[t]
    BY <2>1 DEF In
  <2>3. \A i : i \in 0 .. turn[t] <=> i \in 0 .. turn[t] - 1 \/ i = turn[t]
    BY <1>4
  <2> QED BY <2>2, <2>3 DEF Passed
<1>11. ASSUME NEW t \in Grads, NEW k \in Params
       PROVE  Passed(t, k)' <=> \E i \in 0 .. turn[t] : In(Slice(t, i), k)
  <2>1. turn'[t] = turn[t] + 1 /\ pos'[t] = startOf(Slice(t, turn[t] + 1)) /\ k \in Int
    BY <1>1, <1>2 DEF Sizes, Params
  <2>2. ~(In(Slice(t, turn[t] + 1), k) /\ k < pos'[t])
    BY <1>6, <2>1 DEF In
  <2>3. 0 .. turn'[t] - 1 = 0 .. turn[t]
    BY <1>4, <2>1
  <2> QED BY <1>2, <2>1, <2>2, <2>3, Unmoved DEF Passed
<1>12. ASSUME NEW t \in Grads, NEW k \in Params, turn[t] + 1 = thrN
       PROVE  \E i \in 0 .. turn[t] : In(Slice(t, i), k)
  <2>1. PICK s \in Grads : In(s, k)
    BY <1>1, SlicesCover
  <2>2. PICK i \in 0 .. thrN - 1 : Slice(t, i) = s
    BY <1>1, Turns
  <2>3. i \in 0 .. turn[t]
    BY <1>4, <1>12
  <2> QED BY <2>1, <2>2, <2>3
<1>13. SumInv'
  <2> SUFFICES ASSUME NEW t \in Grads, NEW k \in Params
               PROVE  /\ tpc'[t] = "add" => (t \in dst[k] <=> t \in written /\ Passed(t, k)')
                      /\ tpc'[t] = "clear" => (t \in dst[k] <=> t \in written)
    BY <1>2, Unmoved DEF SumInv, Working, Finished
  <2>1. t \in dst[k] <=> t \in written /\ Passed(t, k)
    BY <1>1, <1>2 DEF SumInv, Working
  <2>2. t \in dst[k] <=> t \in written /\ Passed(t, k)'
    BY <1>10, <1>11, <2>1
  <2>3. tpc'[t] = "clear" => turn[t] + 1 = thrN
    BY <1>2
  <2>4. tpc'[t] = "clear" => (t \in dst[k] <=> t \in written)
    BY <1>11, <1>12, <2>2, <2>3
  <2> QED BY <2>2, <2>4
<1> QED BY <1>7, <1>8, <1>9, <1>13 DEF GradIInv

\* The inductive invariant of Parameters, of which types are a part.
THEOREM GradInductive == gradSpec => []GradIInv
<1>1. GradIInv /\ [gradNext]_gradVars => GradIInv'
  <2> SUFFICES ASSUME GradIInv, [gradNext]_gradVars PROVE GradIInv'
    OBVIOUS
  <2>1. CASE UNCHANGED gradVars
    <3>1. UNCHANGED <<thrN, written, dst, tpc, turn, pos, read>>
      BY <2>1 DEF gradVars
    <3>2. \A u, k : Passed(u, k)' = Passed(u, k)
      BY <3>1, Unmoved DEF Passed
    <3>3. gradTypeOK' /\ Together' /\ Placed'
      BY <3>1, Unmoved DEF GradIInv, gradTypeOK, Together, Placed
    <3>4. SumInv'
      BY <3>1, <3>2, Unmoved DEF GradIInv, SumInv
    <3> QED BY <3>3, <3>4 DEF GradIInv
  <2>2. CASE gradNext
    BY <2>2, PrepareKeeps, ReadKeeps, StoreKeeps, ArriveKeeps, ClearKeeps, BarrierKeeps
       DEF gradNext, reduceThreadsGrad
  <2> QED BY <2>1, <2>2
<1> QED BY <1>1, InitGradIInv, ParametersAssumption, PTL DEF gradSpec

\* reduceThreadsGrad loses no gradient and leaves out no parameter, whatever the number
\* of threads, of parameters and of parameters in a vector.
THEOREM GradientsSummedHolds == gradSpec => []GradientsSummed
<1>1. GradIInv => GradientsSummed
  <2> SUFFICES ASSUME GradIInv, NEW t \in Grads, tpc[t] \in {"clear", "done"}, NEW k \in Params
               PROVE  dst[k] = written
    BY DEF GradientsSummed
  <2>1. \A u \in Grads : tpc[u] \in Finished
    BY DEF GradIInv, Together, Working, Finished
  <2>2. dst[k] \subseteq Grads /\ written \subseteq Grads
    BY DEF GradIInv, gradTypeOK
  <2>3. \A u \in Grads : u \in dst[k] <=> u \in written
    BY <2>1 DEF GradIInv, SumInv
  <2> QED BY <2>2, <2>3
<1> QED BY <1>1, GradInductive, PTL

------------------------------------------------------------------------------
(* The relay of forked applications                                        *)

LEMMA InitRelayType == relayInit => relayTypeOK
<1> SUFFICES ASSUME relayInit PROVE relayTypeOK
  OBVIOUS
<1>1. /\ sockUp \in Seq(Statuses) /\ sockDown \in Seq(Answers)
      /\ mpiUp \in Seq(Statuses) /\ mpiDown \in Seq(Answers)
  BY DEF relayInit
<1>2. todo \in BOOLEAN /\ inProgress \in BOOLEAN /\ bExit \in BOOLEAN
  BY DEF relayInit
<1> QED BY <1>1, <1>2 DEF relayInit, relayTypeOK, Statuses, Answers

LEMMA NextRelayType == relayTypeOK /\ [relayNext]_vars => relayTypeOK'
<1> SUFFICES ASSUME relayTypeOK, [relayNext]_vars PROVE relayTypeOK'
  OBVIOUS
<1> USE DEF relayTypeOK, Statuses, Answers
<1>1. CASE SendState
  <2>1. sockUp' = sockUp \/ sockUp' = Append(sockUp, status)
    BY <1>1 DEF SendState
  <2>2. sockUp' \in Seq(Statuses)
    <3>1. sockUp \in Seq(Statuses) /\ status \in Statuses
      OBVIOUS
    <3> QED BY ONLY <2>1, <3>1
  <2>3. app' \in {"run", "wait", "over", "lost"}
    BY <1>1 DEF SendState
  <2> QED BY <1>1, <2>2, <2>3 DEF SendState, relayVars, mpiVars, masterVars
<1>2. ASSUME NEW next \in Statuses, RecvAction(next) PROVE relayTypeOK'
  <2>1. status' \in Statuses
    BY <1>2 DEF RecvAction
  <2> QED BY <1>2, <2>1 DEF RecvAction, relayVars, mpiVars, masterVars
<1>3. CASE SOCKET_Test
  <2>1. dataState' \in Statuses /\ sockUp' \in Seq(Statuses)
    <3>1. CASE todo
      <4>1. sockUp # <<>> /\ dataState' = Head(sockUp) /\ sockUp' = Tail(sockUp)
        BY <1>3, <3>1, Zenon DEF SOCKET_Test
      <4> QED BY <4>1
    <3>2. CASE ~todo
      BY <1>3, <3>2 DEF SOCKET_Test
    <3> QED BY <3>1, <3>2
  <2> QED BY <1>3, <2>1 DEF SOCKET_Test, appVars, mpiVars, masterVars
<1>4. CASE MPI_Isend
  BY <1>4 DEF MPI_Isend, appVars, sockVars, masterVars
<1>5. CASE MPI_Irecv
  <2>1. Head(mpiDown) \in Answers /\ Tail(mpiDown) \in Seq(Answers)
    BY <1>5 DEF MPI_Irecv
  <2> QED BY <1>5, <2>1 DEF MPI_Irecv, appVars, sockVars, masterVars
<1>6. CASE SOCKET_Bsend
  BY <1>6 DEF SOCKET_Bsend, appVars, mpiVars, masterVars
<1>7. CASE Answer
  <2>1. Head(mpiUp) \in Statuses /\ Tail(mpiUp) \in Seq(Statuses)
    BY <1>7 DEF Answer
  <2>2. mpiDown' \in Seq(Answers)
    BY <1>7, <2>1 DEF Answer
  <2>3. inProgress' \in BOOLEAN
    BY <1>7 DEF Answer
  <2>4. master' \in {"serve", "killed"} /\ mpiUp' \in Seq(Statuses)
    BY <1>7, <2>1 DEF Answer
  <2> QED BY <1>7, <2>2, <2>3, <2>4 DEF Answer, appVars, sockVars, relayVars
<1>8. CASE Exit
  BY <1>8 DEF Exit, appVars, sockVars, relayVars, mpiVars
<1>9. CASE UNCHANGED vars
  BY <1>9 DEF vars, appVars, sockVars, relayVars, mpiVars, masterVars
<1> QED BY <1>1, <1>2, <1>3, <1>4, <1>5, <1>6, <1>7, <1>8, <1>9 DEF relayNext, RelayStep

\* Every variable keeps its type.
THEOREM RelayTypeCorrect == relaySpec => []relayTypeOK
BY InitRelayType, NextRelayType, PTL DEF relaySpec

LEMMA NextLockstep ==
  ASSUME relayTypeOK, RelayLockstep, [relayNext]_vars
  PROVE  RelayLockstep'
<1> USE DEF relayTypeOK, RelayLockstep
<1>1. CASE MPI_Isend
  BY <1>1 DEF MPI_Isend
<1>2. CASE MPI_Irecv
  <2>1. Len(mpiDown') = Len(mpiDown) - 1
    BY <1>2 DEF MPI_Irecv
  <2> QED BY <1>2, <2>1 DEF MPI_Irecv
<1>3. CASE Answer
  <2>1. Len(mpiUp') = Len(mpiUp) - 1
    BY <1>3 DEF Answer
  <2>2. Len(mpiDown') = Len(mpiDown) + 1
    BY <1>3 DEF Answer
  <2> QED BY <1>3, <2>1, <2>2 DEF Answer, relayVars
<1>4. CASE SOCKET_Test
  BY <1>4 DEF SOCKET_Test, mpiVars
<1>5. CASE SOCKET_Bsend
  BY <1>5 DEF SOCKET_Bsend, mpiVars
<1>6. CASE UNCHANGED <<mpiUp, mpiDown, relay>>
  BY <1>6
<1> QED
  BY <1>1, <1>2, <1>3, <1>4, <1>5, <1>6 DEF relayNext, RelayStep, SendState, RecvAction, Exit, vars,
     relayVars, mpiVars

\* The relay of an application and its master answer each other in turn, for buffers of
\* the sockets of any size: never are two messages on their way between them, so that one
\* buffer and one request of the master are enough.
THEOREM Lockstep == relaySpec => []RelayLockstep
<1>1. relayInit => RelayLockstep
  BY DEF relayInit, RelayLockstep
<1>2. relayTypeOK /\ RelayLockstep /\ [relayNext]_vars => RelayLockstep'
  BY NextLockstep
<1> QED BY <1>1, <1>2, RelayTypeCorrect, PTL DEF relaySpec

LEMMA NextKillIsLast ==
  ASSUME relayTypeOK, KillIsLast, [relayNext]_vars
  PROVE  KillIsLast'
<1> USE DEF relayTypeOK, KillIsLast
<1>1. CASE SendState
  BY <1>1 DEF SendState, relayVars
<1>2. ASSUME NEW next \in Statuses, RecvAction(next) PROVE KillIsLast'
  <2>0. Len(sockDown) \in Nat /\ Len(sockDown) >= 1
    <3>1. sockDown # <<>>
      BY <1>2 DEF RecvAction
    <3>2. Len(sockDown) \in Nat /\ (Len(sockDown) = 0 => sockDown = <<>>)
      OBVIOUS
    <3> QED BY <3>1, <3>2
  <2>1. /\ sockDown # <<>> /\ sockDown' = Tail(sockDown) /\ relay' = relay
        /\ Len(sockDown') = Len(sockDown) - 1
        /\ \A i \in 1 .. Len(sockDown') : sockDown'[i] = sockDown[i + 1]
    BY <1>2 DEF RecvAction, relayVars
  <2>2. \A i \in 1 .. Len(sockDown') : sockDown'[i] = "KILL" => i = Len(sockDown') /\ relay' = "exit"
    <3> TAKE i \in 1 .. Len(sockDown')
    <3> HAVE sockDown'[i] = "KILL"
    <3>0. Len(sockDown) \in Nat /\ Len(sockDown') = Len(sockDown) - 1
      BY <2>1, <2>0
    <3>1. i + 1 \in 1 .. Len(sockDown) /\ i \in 1 .. Len(sockDown) - 1
      BY ONLY <3>0, i \in 1 .. Len(sockDown')
    <3>2. sockDown[i + 1] = "KILL"
      BY <2>1
    <3>3. i + 1 = Len(sockDown) /\ relay = "exit"
      BY <3>1, <3>2
    <3>4. i = Len(sockDown')
      BY ONLY <3>0, <3>1, <3>3
    <3> QED BY <2>1, <3>3, <3>4
  <2>3. ASSUME app' = "over" PROVE relay' = "exit" /\ sockDown' = <<>>
    <3>1. sockDown[1] = "KILL"
      BY <1>2, <2>3 DEF RecvAction
    <3>2. 1 \in 1 .. Len(sockDown)
      BY <2>0
    <3>3. Len(sockDown) = 1 /\ relay = "exit"
      BY <3>1, <3>2
    <3> QED BY <2>1, <3>3
  <2> QED BY <2>2, <2>3
<1>3. CASE SOCKET_Bsend
  <2>1. relay = "bsend" /\ sockDown' = Append(sockDown, dataAction) /\ app' = app
    BY <1>3 DEF SOCKET_Bsend, appVars
  <2>2. dataAction = "KILL" => relay' = "exit"
    BY <1>3 DEF SOCKET_Bsend
  <2>3. /\ Len(sockDown') = Len(sockDown) + 1 /\ sockDown'[Len(sockDown) + 1] = dataAction
        /\ \A i \in 1 .. Len(sockDown) : sockDown'[i] = sockDown[i] /\ sockDown[i] # "KILL"
    BY <2>1
  <2> QED BY <2>1, <2>2, <2>3
<1>4. CASE SOCKET_Test \/ MPI_Isend \/ MPI_Irecv
  BY <1>4 DEF SOCKET_Test, MPI_Isend, MPI_Irecv, appVars, sockVars
<1>5. CASE Answer \/ Exit \/ UNCHANGED vars
  BY <1>5 DEF Answer, Exit, vars, appVars, sockVars, relayVars
<1> QED BY <1>1, <1>2, <1>3, <1>4, <1>5 DEF relayNext, RelayStep

\* KILL is the last message to the application, and the relay has left when it is on
\* its way: nothing is written to an application that is over.
THEOREM KillComesLast == relaySpec => []KillIsLast
<1>1. relayInit => KillIsLast
  BY DEF relayInit, KillIsLast
<1>2. relayTypeOK /\ KillIsLast /\ [relayNext]_vars => KillIsLast'
  BY NextKillIsLast
<1> QED BY <1>1, <1>2, RelayTypeCorrect, PTL DEF relaySpec
==============================================================================
