--------------------------- MODULE DelayedReductor ---------------------------
(***************************************************************************)
(* Utils/DelayedReductor: the non-blocking sum over the learner ranks with *)
(* which they share statistics.  update() hands in a contribution and      *)
(* starts an MPI_Iallreduce, after waiting for the previous one; get()     *)
(* returns the last result that has arrived, or waits for it (accurate).   *)
(*                                                                         *)
(* MPI matches the calls of a communicator by their order, so that the     *)
(* result of the n-th call is a function of the n-th contributions of all  *)
(* ranks: it stands here for the sum.                                      *)
(***************************************************************************)
EXTENDS Naturals, Sequences

CONSTANTS
  Ranks,   \* ranks of learners_train_comm
  Values,  \* contributions
  Initial, \* argument I of the constructor
  MaxRounds \* bound: calls of update by a rank

ASSUME ReductorAssumption == Ranks # {}

VARIABLES
  contributed, \* contributions each rank has handed to MPI_Iallreduce
  buffRequest, \* buffRequest # MPI_REQUEST_NULL
  return_ret   \* result that get() returns

reductorVars == <<contributed, buffRequest, return_ret>>

SingleRank == \E r \in Ranks : Ranks = {r}

Combined(n) == [s \in Ranks |-> contributed[s][n]]

\* MPI may complete the last call of r: all ranks have made it.
MPI_Completes(r) == \A s \in Ranks : Len(contributed[s]) >= Len(contributed[r])

DelayedReductor ==
  /\ contributed = [r \in Ranks |-> <<>>]
  /\ buffRequest = [r \in Ranks |-> FALSE]
  /\ return_ret = [r \in Ranks |-> Initial]

\* Mutant of update: the pending reduction is not waited for.
updateAtOnce(r, ret) ==
  /\ contributed' = [contributed EXCEPT ![r] = Append(@, ret)]
  /\ buffRequest' = [buffRequest EXCEPT ![r] = ~SingleRank]
  /\ UNCHANGED return_ret

\* The call is disabled while MPI_Wait blocks the thread.
update(r, ret) ==
  /\ buffRequest[r] => MPI_Completes(r)
  /\ contributed' = [contributed EXCEPT ![r] = Append(@, ret)]
  /\ IF SingleRank
     THEN /\ return_ret' = [return_ret EXCEPT ![r] = [s \in Ranks |-> ret]]
          /\ UNCHANGED buffRequest
     ELSE /\ return_ret' = IF buffRequest[r]
                           THEN [return_ret EXCEPT ![r] = Combined(Len(contributed[r]))]
                           ELSE return_ret
          /\ buffRequest' = [buffRequest EXCEPT ![r] = TRUE]

\* Mutant of arrive: the buffer is read before the sum is in it.
arriveAlone(r) ==
  /\ buffRequest[r]
  /\ return_ret' = [return_ret EXCEPT ![r] = contributed[r]]
  /\ buffRequest' = [buffRequest EXCEPT ![r] = FALSE]
  /\ UNCHANGED contributed

\* MPI_Wait, or an MPI_Test that finds the request completed ...
arrive(r) ==
  /\ buffRequest[r] /\ MPI_Completes(r)
  /\ return_ret' = [return_ret EXCEPT ![r] = Combined(Len(contributed[r]))]
  /\ buffRequest' = [buffRequest EXCEPT ![r] = FALSE]
  /\ UNCHANGED contributed

\* ... or one that does not, whether or not the other ranks have called.
get(r, accurate) ==
  \/ arrive(r)
  \/ (accurate => ~buffRequest[r]) /\ UNCHANGED reductorVars

Init == DelayedReductor
Next == \E r \in Ranks :
          \/ Len(contributed[r]) < MaxRounds /\ \E ret \in Values : update(r, ret)
          \/ \E accurate \in BOOLEAN : get(r, accurate)
Spec == Init /\ [][Next]_reductorVars

------------------------------------------------------------------------------
(* Properties                                                              *)

\* How many results rank r has got: all it has contributed to but the last.
Shown(r) == Len(contributed[r]) - (IF buffRequest[r] THEN 1 ELSE 0)
ResultOf(n) == IF n = 0 THEN Initial ELSE Combined(n)

\* Every variable has its type.
TypeOK ==
  /\ contributed \in [Ranks -> Seq(Values)]
  /\ buffRequest \in [Ranks -> BOOLEAN]
  /\ return_ret \in [Ranks -> {Initial} \cup [Ranks -> Values]]

\* No rank overtakes another by more than one reduction: the wait in update is
\* what keeps MPI from matching a call with one of another round.
CallsMatched ==
  \A r, s \in Ranks :
    /\ Len(contributed[r]) <= Len(contributed[s]) + 1
    /\ ~buffRequest[r] => Len(contributed[r]) <= Len(contributed[s])

\* What a rank reads is the result of one round, complete, and of no older
\* round than the one before its last contribution.
ReadsOneRound == \A r \in Ranks : return_ret[r] = ResultOf(Shown(r))

\* The ranks read one sequence of results, in order and without gaps.
CompleteRounds == {n \in 0 .. Len(contributed[CHOOSE r \in Ranks : TRUE]) :
                     \A s \in Ranks : n <= Len(contributed[s])}
Agreed == CHOOSE n \in CompleteRounds : \A m \in CompleteRounds : m <= n
Log == INSTANCE ResultLog WITH log <- [n \in 1 .. Agreed |-> Combined(n)],
                               pos <- [r \in Ranks |-> Shown(r)],
                               read <- return_ret, Guess <- Initial
ImplementsLog == Log!Spec
==============================================================================
