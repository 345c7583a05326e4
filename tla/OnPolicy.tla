------------------------------ MODULE OnPolicy ------------------------------
(***************************************************************************)
(* The learners that discard their data after use, PPO and CMA, on one     *)
(* rank.  The handler threads of the environments store episodes until the *)
(* gate closes; the main thread then takes its gradient steps, empties the *)
(* data set (clearAll) and the gate opens again.  Episodes are under way   *)
(* all the while, and the ones that were begun before the data set was     *)
(* emptied are stored after it.                                            *)
(*                                                                         *)
(* CMA evaluates a population of weight vectors: every environment plays   *)
(* an episode with one of them, and the returns are added up per vector.   *)
(* What the vectors hold is in Population.                                 *)
(*                                                                         *)
(* The agents of an environment start and end together and send their      *)
(* states in turns.                                                        *)
(***************************************************************************)
EXTENDS Population, FiniteSets, FiniteSetsExt

CONSTANTS
  Envs,            \* environments of the rank, one handler thread each
  nOwnAgentsPerEnv,
  Algos,           \* the learners that are looked at
  BatchSize,       \* settings.batchSize
  nHorizon,        \* maxTotObsNum: the horizon of PPO, the size of the data set of CMA
  ObsPerStep,
  MaxLen,          \* bound, PPO: transitions of an episode (CMA only counts episodes: one)
  MaxSteps,        \* bound: gradient steps of PPO
  MaxGenerations   \* bound: gradient steps of CMA

ASSUME OnPolicyAssumption ==
  /\ IsFiniteSet(Envs) /\ Envs # {}
  /\ nOwnAgentsPerEnv \in Nat \ {0}
  /\ Algos \subseteq {"PPO", "CMA"}
  /\ BatchSize \in Nat \ {0}
  /\ nHorizon \in Nat \ {0} /\ ObsPerStep \in Nat \ {0}
  /\ MaxLen \in Nat \ {0} /\ MaxSteps \in Nat /\ MaxGenerations \in Nat

VARIABLES
  algo,
  hpc,           \* what each handler thread does: away, select, store
  turn,          \* agent whose state is next
  time,          \* time step of the episode
  ending,        \* the episode ends with this time step
  nEpisodes,     \* counters.nEpisodes
  nTransitions,  \* counters.nTransitions
  nSeen,         \* counters.nSeenTransitions_loc; no gate reads it: counted for PPO only
  curNumStartedPerEnv, curNumEndedPerEnv,
  weightIDs, lastWorkLoadStarted,
  Ns,            \* episodes played by each environment with each vector
  mpc,           \* what the main thread does
  algoSubStepID,
  allN,          \* prepareCMALoss: episodes played with each vector
  cntBatch, cntEpoch,
  nGradSteps

handlerVars == <<hpc, turn, time, ending>>
dataVars    == <<nEpisodes, nTransitions, nSeen>>
workVars    == <<curNumStartedPerEnv, curNumEndedPerEnv, weightIDs,
                 lastWorkLoadStarted, Ns, populationVars>>
stepVars    == <<algoSubStepID, allN, cntBatch, cntEpoch, nGradSteps>>
vars == <<algo, handlerVars, dataVars, workVars, mpc, stepVars>>

NoEpisodes == [w \in WeightIDs |-> 0]

\* Mutant: the batch is left as it was asked for.
BatchNotRounded == BatchSize

\* The factory makes the batch a multiple of the environments.
batchSize_local ==
  IF BatchSize % Cardinality(Envs) = 0 THEN BatchSize
  ELSE BatchSize + Cardinality(Envs) - (BatchSize % Cardinality(Envs))
workLoadSize == batchSize_local * ESpopSize
nSeqPerStep  == nOwnAgentsPerEnv * workLoadSize
nEpochs      == BatchSize \div ObsPerStep

LastTime == IF algo = "CMA" THEN 1 ELSE MaxLen
LastStep == IF algo = "CMA" THEN MaxGenerations ELSE MaxSteps

\* Mutants: the gate closes one episode, or observation, late or early.
GateLate  == IF algo = "CMA" THEN nEpisodes > nSeqPerStep ELSE nTransitions > nHorizon
GateEarly == IF algo = "CMA" THEN nEpisodes >= nSeqPerStep - 1
                             ELSE nTransitions >= nHorizon - 1

blockDataAcquisition == IF algo = "CMA" THEN nEpisodes >= nSeqPerStep
                                        ELSE nTransitions >= nHorizon
blockGradientUpdates == IF algo = "CMA" THEN nEpisodes < nSeqPerStep
                                        ELSE nTransitions < nHorizon

------------------------------------------------------------------------------
(* Handler threads                                                         *)

\* A state has arrived and the gate is open.
Gate(e) ==
  /\ hpc[e] = "away" /\ ~blockDataAcquisition
  /\ hpc' = [hpc EXCEPT ![e] = "select"]
  /\ UNCHANGED <<algo, turn, time, ending, dataVars, workVars, mpc, stepVars>>

\* The answer is sent; the last agent of a time step is followed by the first
\* one of the next.
Answer(e, over) ==
  /\ hpc' = [hpc EXCEPT ![e] = "away"]
  /\ turn' = [turn EXCEPT ![e] = (@ % nOwnAgentsPerEnv) + 1]
  /\ IF turn[e] < nOwnAgentsPerEnv THEN UNCHANGED <<time, ending>>
     ELSE \E ends \in BOOLEAN :
            LET t == IF over THEN 0 ELSE time[e] + 1 IN
            /\ t = 0 => ~ends
            /\ t = LastTime => ends
            /\ time' = [time EXCEPT ![e] = t]
            /\ ending' = [ending EXCEPT ![e] = ends]

\* The first agent of an environment to start is given the next vector.
assignWeightID(e) ==
  LET first == curNumStartedPerEnv[e] = 0 IN
  /\ curNumStartedPerEnv' = [curNumStartedPerEnv EXCEPT ![e] = @ + 1]
  /\ weightIDs' = IF first THEN [weightIDs EXCEPT ![e] = lastWorkLoadStarted % ESpopSize]
                  ELSE weightIDs
  /\ lastWorkLoadStarted' = lastWorkLoadStarted + (IF first THEN 1 ELSE 0)

selectAction(e) ==
  /\ hpc[e] = "select" /\ ~ending[e]
  /\ IF algo = "CMA" /\ time[e] = 0 THEN assignWeightID(e)
     ELSE UNCHANGED <<curNumStartedPerEnv, weightIDs, lastWorkLoadStarted>>
  /\ IF algo = "CMA" THEN getWeights(weightIDs'[e], nGradSteps) ELSE UNCHANGED populationVars
  /\ nSeen' = IF algo = "PPO" /\ time[e] > 0 THEN nSeen + 1 ELSE nSeen
  /\ Answer(e, FALSE)
  /\ UNCHANGED <<algo, nEpisodes, nTransitions, curNumEndedPerEnv, Ns, mpc, stepVars>>

\* CMA counts the return of the episode before it is stored.
processTerminal(e) ==
  /\ hpc[e] = "select" /\ ending[e]
  /\ Ns' = IF algo = "CMA" THEN [Ns EXCEPT ![e][weightIDs[e]] = @ + 1] ELSE Ns
  /\ hpc' = [hpc EXCEPT ![e] = "store"]
  /\ UNCHANGED <<algo, turn, time, ending, dataVars, curNumStartedPerEnv,
                 curNumEndedPerEnv, weightIDs, lastWorkLoadStarted, populationVars, mpc, stepVars>>

\* Mutant: the counter of ended agents is not reset.
countEndedOn(e) ==
  /\ curNumStartedPerEnv' = [curNumStartedPerEnv EXCEPT ![e] = 0]
  /\ curNumEndedPerEnv' = [curNumEndedPerEnv EXCEPT ![e] = @ + 1]

\* Counters of agents that started and ended an episode: both are back at zero
\* when all have ended it.
countEnded(e) ==
  LET ended == curNumEndedPerEnv[e] + 1 IN
  /\ curNumStartedPerEnv' = IF ended = 1 THEN [curNumStartedPerEnv EXCEPT ![e] = 0]
                                         ELSE curNumStartedPerEnv
  /\ curNumEndedPerEnv' = [curNumEndedPerEnv EXCEPT ![e] = ended % nOwnAgentsPerEnv]

terminateCurrentEpisode(e) ==
  /\ hpc[e] = "store"
  /\ nEpisodes' = nEpisodes + 1 /\ nTransitions' = nTransitions + time[e]
  /\ nSeen' = IF algo = "PPO" THEN nSeen + 1 ELSE nSeen
  /\ IF algo = "CMA" THEN countEnded(e)
     ELSE UNCHANGED <<curNumStartedPerEnv, curNumEndedPerEnv>>
  /\ Answer(e, TRUE)
  /\ UNCHANGED <<algo, weightIDs, lastWorkLoadStarted, Ns, populationVars, mpc, stepVars>>

Handler(e) == Gate(e) \/ selectAction(e) \/ processTerminal(e) \/ terminateCurrentEpisode(e)

------------------------------------------------------------------------------
(* Main thread                                                             *)

\* Mutant: the data set is kept.
clearNothing == UNCHANGED dataVars

clearAll == nEpisodes' = 0 /\ nTransitions' = 0 /\ UNCHANGED nSeen

\* PPO waits for its first horizon.
stepInit ==
  /\ mpc = "tasks" /\ algoSubStepID = -1 /\ nTransitions >= nHorizon
  /\ algoSubStepID' = 0
  /\ UNCHANGED <<algo, handlerVars, dataVars, workVars, mpc, allN, cntBatch, cntEpoch,
                 nGradSteps>>

\* PPO: spawnTrainTasks and the start of the reduction.
stepMainPPO ==
  /\ algo = "PPO" /\ mpc = "tasks" /\ algoSubStepID = 0 /\ ~blockGradientUpdates
  /\ nGradSteps < LastStep
  /\ algoSubStepID' = 1
  /\ UNCHANGED <<algo, handlerVars, dataVars, workVars, mpc, allN, cntBatch, cntEpoch,
                 nGradSteps>>

\* CMA: prepareCMALoss adds up the returns of all environments, ...
stepMainCMA ==
  /\ algo = "CMA" /\ mpc = "tasks" /\ algoSubStepID = 0 /\ ~blockGradientUpdates
  /\ nGradSteps < LastStep
  /\ allN' = [w \in WeightIDs |-> MapThenSumSet(LAMBDA e : Ns[e][w], Envs)]
  /\ mpc' = "reset"
  /\ UNCHANGED <<algo, handlerVars, dataVars, workVars, algoSubStepID, cntBatch, cntEpoch,
                 nGradSteps>>

\* ... and resets them.
resetLoss ==
  /\ mpc = "reset"
  /\ Ns' = [e \in Envs |-> NoEpisodes]
  /\ lastWorkLoadStarted' = lastWorkLoadStarted % workLoadSize
  /\ mpc' = "remove" /\ allN' = NoEpisodes   \* local to prepareCMALoss
  /\ UNCHANGED <<algo, handlerVars, dataVars, curNumStartedPerEnv, curNumEndedPerEnv,
                 weightIDs, populationVars, algoSubStepID, cntBatch, cntEpoch, nGradSteps>>

\* processMemoryBuffer: episodes that are too many are removed one by one, and the gate
\* of the handlers may open before the data set is emptied.
Surplus == Max({0, nTransitions - (LastTime + 1) - nHorizon})

applyEpisodesRemovalAlgo ==
  /\ mpc = "remove"
  /\ nEpisodes' = nEpisodes - Surplus /\ nTransitions' = nTransitions - Surplus
  /\ algoSubStepID' = 1 /\ mpc' = "tasks"
  /\ UNCHANGED <<algo, handlerVars, nSeen, workVars, allN, cntBatch, cntEpoch, nGradSteps>>

\* CMA: the losses are reduced, and the vectors of the next generation are drawn over
\* those of the last.
apply_update ==
  /\ algo = "CMA" /\ mpc = "tasks" /\ algoSubStepID = 1
  /\ drawSamples(nGradSteps + 1)
  /\ mpc' = "gather"
  /\ UNCHANGED <<algo, handlerVars, dataVars, curNumStartedPerEnv, curNumEndedPerEnv,
                 weightIDs, lastWorkLoadStarted, Ns, stepVars>>

\* The weights have changed, and data that has been used up is discarded.
stepComplete ==
  LET batches == cntBatch + BatchSize
      shift   == batches >= nHorizon
      epochs  == IF shift THEN cntEpoch + 1 ELSE cntEpoch
      done    == algo = "CMA" \/ epochs >= nEpochs
  IN
  /\ mpc = (IF algo = "CMA" THEN "gather" ELSE "tasks") /\ algoSubStepID = 1
  /\ IF algo = "CMA" THEN startAllGather(nGradSteps + 1) ELSE UNCHANGED populationVars
  /\ IF algo = "PPO"
     THEN /\ cntBatch' = IF shift \/ done THEN 0 ELSE batches
          /\ cntEpoch' = IF done THEN 0 ELSE epochs
     ELSE UNCHANGED <<cntBatch, cntEpoch>>
  /\ IF done THEN clearAll ELSE UNCHANGED dataVars
  /\ algoSubStepID' = 0 /\ mpc' = "tasks"
  /\ nGradSteps' = nGradSteps + 1
  /\ UNCHANGED <<algo, handlerVars, curNumStartedPerEnv, curNumEndedPerEnv, weightIDs,
                 lastWorkLoadStarted, Ns, allN>>

Main == \/ stepInit \/ stepMainPPO \/ stepMainCMA \/ resetLoss
        \/ applyEpisodesRemovalAlgo \/ apply_update \/ stepComplete

Init ==
  /\ algo \in Algos
  /\ hpc = [e \in Envs |-> "away"] /\ turn = [e \in Envs |-> 1]
  /\ time = [e \in Envs |-> 0] /\ ending = [e \in Envs |-> FALSE]
  /\ nEpisodes = 0 /\ nTransitions = 0 /\ nSeen = 0
  /\ curNumStartedPerEnv = [e \in Envs |-> 0] /\ curNumEndedPerEnv = [e \in Envs |-> 0]
  /\ weightIDs = [e \in Envs |-> 0] /\ lastWorkLoadStarted = 0
  /\ Ns = [e \in Envs |-> NoEpisodes] /\ allN = NoEpisodes
  /\ mpc = "tasks" /\ algoSubStepID = (IF algo = "PPO" THEN -1 ELSE 0)
  /\ cntBatch = 0 /\ cntEpoch = 0 /\ nGradSteps = 0
  /\ populationInit

Next == (\E e \in Envs : Handler(e)) \/ Main

\* Environments go on playing and all threads run.
Fairness == (\A e \in Envs : WF_vars(Handler(e))) /\ WF_vars(Main)

Spec == Init /\ [][Next]_vars
FairSpec == Spec /\ Fairness

------------------------------------------------------------------------------
(* Properties                                                              *)

\* Every variable has its type; the agents of an environment are never counted
\* as started or ended twice in an episode (the assertions of assignWeightID,
\* selectAction and processTerminal).
TypeOK ==
  /\ algo \in Algos
  /\ hpc \in [Envs -> {"away", "select", "store"}]
  /\ turn \in [Envs -> 1 .. nOwnAgentsPerEnv]
  /\ time \in [Envs -> 0 .. MaxLen] /\ ending \in [Envs -> BOOLEAN]
  /\ nEpisodes \in Nat /\ nTransitions \in Nat /\ nSeen \in Nat
  /\ curNumStartedPerEnv \in [Envs -> 0 .. nOwnAgentsPerEnv]
  /\ curNumEndedPerEnv \in [Envs -> 0 .. nOwnAgentsPerEnv - 1]
  /\ weightIDs \in [Envs -> WeightIDs] /\ lastWorkLoadStarted \in Nat
  /\ Ns \in [Envs -> [WeightIDs -> Nat]] /\ DOMAIN allN = WeightIDs
  /\ populationTypeOK
  /\ mpc \in {"tasks", "reset", "remove", "gather"} /\ algoSubStepID \in {-1, 0, 1}
  /\ cntBatch \in Nat /\ cntEpoch \in Nat /\ nGradSteps \in Nat

\* The mean return that CMA ranks its vectors by is over one episode at least, in
\* every generation, whatever the pace of the environments: prepareCMALoss divides
\* by the number of episodes.
EverySampleEvaluated ==
  mpc = "reset" => \A w \in WeightIDs : allN[w] > 0

\* The samples of a generation are drawn while no gather of the last one is pending,
\* which would send them in place of its own: that nobody waits for a gather there
\* relies on every vector being used in every generation, by some environment.  And once
\* they are drawn, a vector is of this generation in all its parameters, whoever drew them:
\* of the time of drawing, when a thread that has passed the gate may use one that is half
\* drawn, nothing is said.
SamplesWhole ==
  algo = "CMA" =>
    IF mpc = "gather" THEN weightsMPIrequests = {} ELSE WholeIn(nGradSteps)

\* The gate is tested before an episode is stored and not when it is: the data set
\* outgrows the quota by one episode for every environment at most.
StoredBounded ==
  IF algo = "CMA" THEN nEpisodes < nSeqPerStep + Cardinality(Envs)
                  ELSE nTransitions < nHorizon + Cardinality(Envs) * MaxLen

\* PPO counts batches and epochs instead of observations, and keeps to obsPerStep
\* up to the rounding of a horizon to whole batches.
batchesPerEpoch == (nHorizon + BatchSize - 1) \div BatchSize
GradientsBacked ==
  (algo = "PPO" /\ nEpochs > 0) =>
    nGradSteps * ObsPerStep * nHorizon <= nSeen * batchesPerEpoch * BatchSize

\* Neither gate stays closed: all gradient steps are taken.
StepsGoOn == <>(nGradSteps = LastStep)
==============================================================================
