----------------------------- MODULE Parameters -----------------------------
(***************************************************************************)
(* The threads of a learner add up their gradients (reduceThreadsGrad): in *)
(* each turn a thread adds what it has to another slice of the sum, and    *)
(* they wait for each other after each.                                    *)
(*                                                                         *)
(* An element of the sum is the set of threads whose gradient is in it.    *)
(***************************************************************************)
EXTENDS Integers, FiniteSets

CONSTANTS
  nParams,    \* parameters of a network
  SimdWidth,  \* VEC_WIDTH / sizeof(nnReal)
  MaxThreads  \* bound: threads

Sizes ==
  nParams \in Nat /\ SimdWidth \in Nat \ {0} /\ MaxThreads \in Nat \ {0}

ASSUME ParametersAssumption == Sizes

VARIABLES
  thrN,     \* number of threads
  written,  \* threads that have a gradient
  dst,      \* the sum
  tpc,      \* next operation of a thread
  turn,     \* its turn
  pos,      \* the parameter it is at
  read      \* what it read of it

gradVars == <<thrN, written, dst, tpc, turn, pos, read>>

Grads == 0 .. thrN - 1
Params == 0 .. nParams - 1

\* Mutant of shift: rounded down.
ShiftDown == (nParams \div (thrN * SimdWidth)) * SimdWidth

\* The share of a thread, rounded up to whole vectors.
shift == ((nParams + thrN * SimdWidth - 1) \div (thrN * SimdWidth)) * SimdWidth

Slice(t, i) == (t + i) % thrN

startOf(s) == s * shift
endOf(s)   == IF nParams < (s + 1) * shift THEN nParams ELSE (s + 1) * shift

\* threads: those that have trained on a sample of the batch.
prepare_update(threads) ==
  /\ \A t \in Grads : tpc[t] = "idle"
  /\ written' = threads
  /\ tpc' = [t \in Grads |-> "add"]
  /\ turn' = [t \in Grads |-> 0]
  /\ pos' = [t \in Grads |-> startOf(Slice(t, 0))]
  /\ UNCHANGED <<thrN, dst, read>>

Read(t) ==
  /\ tpc[t] = "add" /\ t \in written /\ pos[t] < endOf(Slice(t, turn[t]))
  /\ read' = [read EXCEPT ![t] = dst[pos[t]]]
  /\ tpc' = [tpc EXCEPT ![t] = "store"]
  /\ UNCHANGED <<thrN, written, dst, turn, pos>>

Store(t) ==
  /\ tpc[t] = "store"
  /\ dst' = [dst EXCEPT ![pos[t]] = read[t] \cup {t}]
  /\ pos' = [pos EXCEPT ![t] = @ + 1]
  /\ tpc' = [tpc EXCEPT ![t] = "add"]
  /\ UNCHANGED <<thrN, written, turn, read>>

Arrive(t) ==
  /\ tpc[t] = "add"
  /\ t \notin written \/ pos[t] >= endOf(Slice(t, turn[t]))
  /\ tpc' = [tpc EXCEPT ![t] = "barrier"]
  /\ UNCHANGED <<thrN, written, dst, turn, pos, read>>

\* The last thread at the barrier releases all.
Barrier ==
  /\ \A t \in Grads : tpc[t] = "barrier"
  /\ turn' = [t \in Grads |-> turn[t] + 1]
  /\ pos' = [t \in Grads |-> startOf(Slice(t, turn[t] + 1))]
  /\ tpc' = [t \in Grads |-> IF turn[t] + 1 = thrN THEN "clear" ELSE "add"]
  /\ UNCHANGED <<thrN, written, dst, read>>

clear(t) ==
  /\ tpc[t] = "clear"
  /\ tpc' = [tpc EXCEPT ![t] = "done"]
  /\ UNCHANGED <<thrN, written, dst, turn, pos, read>>

gradInit ==
  /\ thrN \in 1 .. MaxThreads
  /\ written = {}
  /\ dst = [k \in Params |-> {}]
  /\ tpc = [t \in Grads |-> "idle"]
  /\ turn = [t \in Grads |-> 0] /\ pos = [t \in Grads |-> 0]
  /\ read = [t \in Grads |-> {}]

reduceThreadsGrad ==
  \/ \E t \in Grads : Read(t) \/ Store(t) \/ Arrive(t) \/ clear(t)
  \/ Barrier

gradNext == (\E threads \in SUBSET Grads : prepare_update(threads)) \/ reduceThreadsGrad

gradSpec == gradInit /\ [][gradNext]_gradVars

------------------------------------------------------------------------------
(* Properties                                                              *)

gradTypeOK ==
  /\ thrN \in 1 .. MaxThreads /\ written \subseteq Grads
  /\ dst \in [Params -> SUBSET Grads]
  /\ tpc \in [Grads -> {"idle", "add", "store", "barrier", "clear", "done"}]
  /\ turn \in [Grads -> 0 .. thrN] /\ pos \in [Grads -> Nat]
  /\ read \in [Grads -> SUBSET Grads]

\* When a thread clears its own gradient that gradient is in every element of the sum,
\* and so are those of all the others: none was lost to a thread that wrote the same
\* element, and none left out at the end of a slice.
GradientsSummed ==
  \A t \in Grads : tpc[t] \in {"clear", "done"} => \A k \in Params : dst[k] = written
==============================================================================
