----------------------------- MODULE Population -----------------------------
(***************************************************************************)
(* The weight vectors of CMA on one learner rank (CMA_Optimizer).  Every   *)
(* rank draws a slice of every vector and gathers the slices of the others *)
(* while it goes on: the threads that use a vector wait for its gather.    *)
(* What is known of a parameter is the generation it was drawn for.        *)
(***************************************************************************)
EXTENDS Integers

CONSTANTS
  ESpopSize,   \* vectors in the population; the first is the mean
  nParams,     \* parameters of a vector
  SimdWidth,   \* ARY_WIDTH
  learn_size,  \* learner ranks
  learn_rank,  \* this one
  UintRange    \* bound: lengths are unsigned and wrap at it

Sizes ==
  /\ ESpopSize \in Nat \ {0, 1} /\ nParams \in Nat
  /\ SimdWidth \in Nat \ {0} /\ learn_size \in Nat \ {0}
  /\ learn_rank \in 0 .. learn_size - 1
  /\ UintRange \in Nat /\ nParams + learn_size * SimdWidth <= UintRange

ASSUME PopulationAssumption == Sizes

VARIABLES
  sampled_weights,    \* the vectors as they are on this rank, weights for the mean
  weightsMPIrequests  \* vectors whose gather has not been waited for

populationVars == <<sampled_weights, weightsMPIrequests>>

WeightIDs == 0 .. ESpopSize - 1
Params == 0 .. nParams - 1
LearnRanks == 0 .. learn_size - 1

mpiDistribOpsStride ==
  ((nParams + learn_size * SimdWidth - 1) \div (learn_size * SimdWidth)) * SimdWidth

\* The slice of a rank that starts behind the last parameter has a negative number
\* of parameters, which wraps, and so does the end of its loop.
pStarts(r) == mpiDistribOpsStride * r
pCounts(r) ==
  LET upTo == mpiDistribOpsStride * (r + 1) IN
  ((IF upTo < nParams THEN upTo ELSE nParams) - pStarts(r)) % UintRange
Slice(r) ==
  {w \in Params : pStarts(r) <= w /\ w < (pStarts(r) + pCounts(r)) % UintRange}

\* What a rank sends in a gather.
Sent(r) == {w \in Params : pStarts(r) <= w /\ w < mpiDistribOpsStride * (r + 1)}

\* The slice of this rank drawn for generation g, ...
Drawn(vector, g) ==
  [w \in Params |-> IF w \in Slice(learn_rank) THEN g ELSE vector[w]]

\* ... and the gather of that generation completed: what another rank sends without
\* having drawn it is as old as it is here.
Gathered(vector, g) ==
  [w \in Params |-> IF \E r \in LearnRanks \ {learn_rank} : w \in Sent(r) \cap Slice(r)
                    THEN g ELSE vector[w]]

\* Mutant of getWeights: the vector is used as it is.
UseAtOnce(i, g) == UNCHANGED populationVars

\* A handler thread uses a vector; the generation is that of the pending gathers.
getWeights(i, g) ==
  /\ weightsMPIrequests' = weightsMPIrequests \ {i}
  /\ sampled_weights' = IF i \in weightsMPIrequests
                        THEN [sampled_weights EXCEPT ![i] = Gathered(@, g)]
                        ELSE sampled_weights

\* apply_update: the mean and all samples of generation g are drawn, ...
drawSamples(g) ==
  /\ sampled_weights' = [i \in WeightIDs |-> Drawn(sampled_weights[i], g)]
  /\ UNCHANGED weightsMPIrequests

\* ... and gathered.  A gather that is still pending is waited for, and that of the
\* mean is complete on exit.
startAllGather(g) ==
  /\ weightsMPIrequests' = IF learn_size < 2 THEN {} ELSE WeightIDs \ {0}
  /\ sampled_weights' =
       [i \in WeightIDs |->
          IF i = 0 THEN Gathered(sampled_weights[i], g)
          ELSE IF i \in weightsMPIrequests THEN Gathered(sampled_weights[i], g - 1)
          ELSE sampled_weights[i]]

\* The first samples are gathered by the constructor; the mean is broadcast.
populationInit ==
  /\ weightsMPIrequests = {}
  /\ sampled_weights =
       [i \in WeightIDs |-> IF i = 0 THEN [w \in Params |-> 0]
                            ELSE Gathered(Drawn([w \in Params |-> -1], 0), 0)]

populationTypeOK ==
  /\ weightsMPIrequests \subseteq WeightIDs \ {0}
  /\ sampled_weights \in [WeightIDs -> [Params -> Int]]

\* Every vector that is not being gathered is of generation g in all its parameters,
\* those of this rank and those of the others.
WholeIn(g) ==
  \A i \in WeightIDs \ weightsMPIrequests : \A w \in Params : sampled_weights[i][w] = g
==============================================================================
