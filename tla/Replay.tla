------------------------------- MODULE Replay -------------------------------
(***************************************************************************)
(* Sampling of the replay memory.  Master threads push episodes under the  *)
(* mutex of the data set; the main thread prepares the sampler and draws   *)
(* from it without the mutex, on counters that a push moves one after the  *)
(* other, and maps what it drew to episodes by their places in a vector    *)
(* that is sorted and pruned once in every gradient step.  The samples of  *)
(* a batch are trained by parallel threads that update the statistics of   *)
(* their episodes, which the main thread then adds up and, now and then,   *)
(* computes again.                                                         *)
(*                                                                         *)
(* One learner on one rank.  Importance weights have a few levels: a step  *)
(* is far-policy when its level exceeds CmaxRet, which is annealed.        *)
(***************************************************************************)
EXTENDS Integers, Sequences, FiniteSets, SequencesExt, FiniteSetsExt

CONSTANTS
  Pushers,         \* master threads
  Setups,          \* <<dataSamplingAlgo, bSampleEpisodes, ERoldSeqFilter>> looked at
  MaxLen,          \* bound: ndata of an episode
  MaxEpisodes,     \* bound: episodes pushed
  BatchSize,
  nObsB4StartTraining,
  maxTotObs,
  MaxSteps,        \* bound: gradient steps
  RecomputeEvery,  \* gradient steps between two recomputations (1000)
  Levels,          \* importance weights
  ClipFirst,       \* CmaxRet at first ...
  ClipLast,        \* ... and after annealing,
  AnnealedAt       \* as of this gradient step

ASSUME ReplayAssumption ==
  /\ IsFiniteSet(Pushers)
  /\ Setups \subseteq {"uniform", "PERrank", "PERerr", "PERseq"} \X BOOLEAN
                     \X {"oldest", "farpolfrac"}
  /\ \A x \in Setups : x[2] => x[1] \notin {"PERrank", "PERerr"}
  /\ MaxLen \in Nat \ {0} /\ MaxEpisodes \in Nat \ {0} /\ MaxSteps \in Nat
  /\ BatchSize \in Nat \ {0}
  /\ nObsB4StartTraining \in Nat /\ nObsB4StartTraining >= BatchSize
  /\ maxTotObs \in Nat /\ RecomputeEvery \in Nat \ {0} /\ AnnealedAt \in Nat
  /\ Levels \subseteq Nat /\ 1 \in Levels
  /\ ClipFirst \in Nat \ {0} /\ ClipLast \in 1 .. ClipFirst

VARIABLES
  setup,
  ppc,                      \* what each master thread does
  nBegun,                   \* episodes that have been pushed
  ndata, stamp, offPolicImpW, fracFar,   \* of every episode
  episodes,                 \* the vector, as a sequence of episodes
  nEpisodes, nTransitions,  \* counters
  mutex,                    \* dataset_mutex
  mpc,                      \* what the main thread does
  nSeqs, nData,             \* counters that it has read
  dist,                     \* distObs: entries, and the steps they were made for
  drawn, batch,             \* indices drawn, steps they are mapped to
  tpc, wasFarPol,           \* what the thread of each sample does, and has read
  CmaxRet, CmaxCounted,     \* CmaxRet, and its value when the fractions were last computed
  nGradSteps

pushVars  == <<ppc, nBegun>>
epsVars   == <<ndata, stamp, offPolicImpW, fracFar>>
setVars   == <<episodes, nEpisodes, nTransitions, mutex>>
drawVars  == <<nSeqs, nData, dist, drawn, batch>>
trainVars == <<tpc, wasFarPol>>
statVars  == <<CmaxRet, CmaxCounted, nGradSteps>>
vars == <<setup, pushVars, epsVars, setVars, mpc, drawVars, trainVars, statVars>>

Ids   == 1 .. MaxEpisodes
Batch == 1 .. BatchSize
nsteps(e) == ndata[e] + 1
algo == setup[1]
bSampleEpisodes == setup[2]
filter == setup[3]
bOverSteps == algo \in {"PERrank", "PERerr"}

isFar(w) == w > CmaxRet
FarSteps(e) == Cardinality({t \in 1 .. ndata[e] : isFar(offPolicImpW[e][t])})

\* Steps of the first n episodes of the vector, in their order.
StepsOf(e)  == [t \in 1 .. ndata[e] |-> <<e, t>>]
StepsIn(n)  == FlattenSeq([k \in 1 .. n |-> StepsOf(episodes[k])])

datasetFree == mutex = {}

------------------------------------------------------------------------------
(* Master threads                                                          *)

\* An episode is complete: it is pushed under the mutex, and the counter of
\* episodes moves first, ...
pushBackEpisode(p) ==
  LET e == nBegun + 1 IN
  /\ ppc[p] = "away" /\ nBegun < MaxEpisodes /\ datasetFree
  /\ \E n \in 1 .. MaxLen :
       /\ ndata' = [ndata EXCEPT ![e] = n]
       /\ offPolicImpW' = [offPolicImpW EXCEPT ![e] = [t \in 1 .. n |-> 1]]
  /\ stamp' = [stamp EXCEPT ![e] = IF mpc = "gather" THEN 0 ELSE nBegun]
  /\ mutex' = {p} /\ nBegun' = e
  /\ episodes' = Append(episodes, e) /\ nEpisodes' = nEpisodes + 1
  /\ ppc' = [ppc EXCEPT ![p] = "count"]
  /\ UNCHANGED <<setup, fracFar, nTransitions, mpc, drawVars, trainVars, statVars>>

\* ... the counter of transitions second.
countTransitions(p) ==
  /\ ppc[p] = "count"
  /\ nTransitions' = nTransitions + ndata[nBegun]
  /\ mutex' = {}
  /\ ppc' = [ppc EXCEPT ![p] = "away"]
  /\ UNCHANGED <<setup, nBegun, epsVars, episodes, nEpisodes, mpc, drawVars,
                 trainVars, statVars>>

Push(p) == pushBackEpisode(p) \/ countTransitions(p)

------------------------------------------------------------------------------
(* Main thread: the sampler                                                *)

MainGoto(pc) == mpc' = pc /\ UNCHANGED <<setup, pushVars>>

\* initializeLearner, once there is enough data.
stepInit ==
  /\ mpc = "gather" /\ nTransitions >= nObsB4StartTraining
  /\ MainGoto("prepare")
  /\ UNCHANGED <<epsVars, setVars, drawVars, trainVars, statVars>>

\* The sampler is prepared before the first gradient step and after each.
Prepared == IF tpc[1] = "done" THEN "complete" ELSE "sample"

\* prepare() of the prioritized samplers reads how many episodes there are, ...
prepare ==
  /\ mpc = "prepare"
  /\ nSeqs' = IF bOverSteps THEN nEpisodes ELSE 0
  /\ IF algo = "PERseq"
     THEN /\ dist' = [n |-> nEpisodes, at |-> [k \in 1 .. nEpisodes |-> <<episodes[k], 1>>]]
          /\ MainGoto(Prepared)
     ELSE /\ UNCHANGED dist
          /\ MainGoto(IF bOverSteps THEN "fill" ELSE Prepared)
  /\ UNCHANGED <<epsVars, setVars, nData, drawn, batch, trainVars, statVars>>

\* ... and how many transitions.  Entries that no episode has filled keep the
\* weight of a new step.  Episodes of more transitions than were read are written
\* past the end of the array: the program may go on with the entries it has, or
\* be brought down.
fill ==
  /\ mpc = "fill"
  /\ LET steps == StepsIn(nSeqs) IN
     /\ dist' = [n |-> nTransitions, at |-> SubSeq(steps, 1, Min({nTransitions, Len(steps)}))]
     /\ nSeqs' = 0
     /\ \/ MainGoto(Prepared)
        \/ Len(steps) > nTransitions /\ MainGoto("overrun")
  /\ UNCHANGED <<epsVars, setVars, nData, drawn, batch, trainVars, statVars>>

\* sample() begins with the first counter that it reads: transitions for the
\* uniform sampler of steps, episodes for the others.
sample ==
  /\ mpc = "sample" /\ nGradSteps < MaxSteps
  /\ nSeqs' = nEpisodes /\ nData' = nTransitions
  /\ IF bSampleEpisodes /\ nEpisodes < BatchSize
     THEN MainGoto("died")     \* Parameter minTotObsNum is too low for given problem
     ELSE MainGoto("draw")
  /\ UNCHANGED <<epsVars, setVars, dist, drawn, batch, trainVars, statVars>>

\* The uniform sampler reads the transitions first and the episodes, in which it
\* searches for the drawn steps, last.  Mutant: the other way round.
EpisodesReadFirst == [data |-> nTransitions, seqs |-> nSeqs]
UniformCounters == [data |-> nData, seqs |-> nEpisodes]

\* Draws are repeated until they are distinct: the thread stays here as long as
\* there are not enough entries to draw from.
Entries ==
  CASE algo # "uniform"                     -> 1 .. dist.n
    [] algo = "uniform" /\ bSampleEpisodes  -> 1 .. nSeqs
    [] algo = "uniform" /\ ~bSampleEpisodes -> 1 .. UniformCounters.data

SearchedSteps == StepsIn(IF algo = "uniform" THEN UniformCounters.seqs ELSE nSeqs)

\* The drawn indices against the prefix sums of the episodes; one that is not
\* reached is left at the first step of the first episode.
IDtoSeqStep(i) == IF i <= Len(SearchedSteps) THEN SearchedSteps[i] ELSE <<episodes[1], 1>>

\* PERseq draws an episode and then a step of it.
Drawable ==
  IF algo = "PERseq" /\ ~bSampleEpisodes
  THEN {x \in Entries \X (1 .. MaxLen) : x[2] <= ndata[episodes[x[1]]]}
  ELSE Entries

\* Mutant: repeated draws are not rejected.
DrawsRepeated == [Batch -> Drawable]

\* The order of the samples in the batch does not matter.
Draws == {SetToSeq(s) : s \in kSubset(BatchSize, Drawable)}

draw ==
  /\ mpc = "draw"
  /\ \E d \in Draws :
       IF bSampleEpisodes
       THEN drawn' = d /\ batch' = [b \in Batch |-> <<episodes[d[b]], 1>>]
       ELSE IF algo = "PERseq"
       THEN /\ drawn' = [b \in Batch |-> d[b][1]]
            /\ batch' = [b \in Batch |-> <<episodes[d[b][1]], d[b][2]>>]
       ELSE drawn' = d /\ batch' = [b \in Batch |-> IDtoSeqStep(d[b])]
  /\ tpc' = [b \in Batch |-> "read"]
  /\ nSeqs' = 0 /\ nData' = 0
  /\ MainGoto("train")
  /\ UNCHANGED <<epsVars, setVars, dist, wasFarPol, statVars>>

------------------------------------------------------------------------------
(* Training threads: updateCumulative_atomic for the sampled step          *)

ThreadGoto(b, pc) ==
  /\ mpc = "train" /\ tpc' = [tpc EXCEPT ![b] = pc]
  /\ UNCHANGED <<setup, pushVars, ndata, stamp, setVars, mpc, drawVars, statVars>>

\* Whether the step was far-policy is read without the mutex of the episode, ...
readImpW(b) ==
  /\ tpc[b] = "read" /\ ThreadGoto(b, "update")
  /\ wasFarPol' = [wasFarPol EXCEPT ![b] = isFar(offPolicImpW[batch[b][1]][batch[b][2]])]
  /\ UNCHANGED <<offPolicImpW, fracFar>>

\* ... the fraction is changed under it, and the weight right after.  Fractions are
\* counted in units of 1 / (nsteps * ndata): a step weighs 1 / nsteps here.
updateImpW(b) ==
  LET e == batch[b][1]
      One(x) == IF x THEN 1 ELSE 0
  IN
  /\ tpc[b] = "update" /\ ThreadGoto(b, "done")
  /\ \E W \in Levels :
       /\ fracFar' = [fracFar EXCEPT ![e] = @ + ndata[e] * (One(isFar(W)) - One(wasFarPol[b]))]
       /\ offPolicImpW' = [offPolicImpW EXCEPT ![e][batch[b][2]] = W]
  /\ wasFarPol' = [wasFarPol EXCEPT ![b] = FALSE]

Train(b) == readImpW(b) \/ updateImpW(b)

------------------------------------------------------------------------------
(* Main thread: statistics and removal                                     *)

\* CmaxRet is annealed in every step; now and then the fractions of the episodes
\* are computed again, a step then weighs 1 / ndata.
updateTrainingStatistics ==
  LET step == nGradSteps + 1
      C    == IF step < AnnealedAt THEN ClipFirst ELSE ClipLast
      Far(e) == Cardinality({t \in 1 .. ndata[e] : offPolicImpW[e][t] > C})
  IN
  /\ mpc = "train" /\ \A b \in Batch : tpc[b] = "done"
  /\ CmaxRet' = C
  /\ IF step % RecomputeEvery = 0
     THEN /\ CmaxCounted' = C
          /\ fracFar' = [e \in Ids |-> IF e \in ToSet(SubSeq(episodes, 1, nEpisodes))
                                       THEN nsteps(e) * Far(e) ELSE fracFar[e]]
     ELSE UNCHANGED <<CmaxCounted, fracFar>>
  /\ drawn' = [b \in Batch |-> 1] /\ batch' = [b \in Batch |-> <<1, 1>>]
  /\ MainGoto("remove")
  /\ UNCHANGED <<ndata, stamp, offPolicImpW, setVars, nSeqs, nData, dist, trainVars, nGradSteps>>

\* getERfilterAlgo: a is kept rather than b.
Before(a, b) ==
  IF filter = "oldest" THEN stamp[a] > stamp[b]
  ELSE fracFar[a] * nsteps(b) * ndata[b] < fracFar[b] * nsteps(a) * ndata[a]

Total(s, n) == FoldFunction(+, 0, [k \in 1 .. n |-> ndata[s[k]]])

\* Mutant: the episode at the back goes whatever is left without it.
KeptFewer(s) ==
  SubSeq(s, 1, Max({m \in 0 .. Len(s) : m = 0 \/ Total(s, m) <= maxTotObs}))

\* What is left when episodes at the back have been removed.
Kept(s) ==
  SubSeq(s, 1, Max({m \in 0 .. Len(s) : m = 0 \/ Total(s, m) - nsteps(s[m]) <= maxTotObs}))

\* Mutant: the sampler is not updated after the removal.
SamplerForgotten == "complete"

AfterRemoval == "prepare"

\* Sorted and pruned under the mutex.
applyEpisodesRemovalAlgo ==
  /\ mpc = "remove" /\ datasetFree
  /\ \E s \in SetToSeqs(ToSet(episodes)) :
       /\ \A i, j \in 1 .. Len(s) : i < j => ~Before(s[j], s[i])
       /\ episodes' = Kept(s)
       /\ nEpisodes' = Len(Kept(s)) /\ nTransitions' = Total(s, Len(Kept(s)))
       /\ LET gone == ToSet(s) \ ToSet(Kept(s)) IN
          /\ ndata'   = [e \in Ids |-> IF e \in gone THEN 0 ELSE ndata[e]]
          /\ stamp'   = [e \in Ids |-> IF e \in gone THEN 0 ELSE stamp[e]]
          /\ fracFar' = [e \in Ids |-> IF e \in gone THEN 0 ELSE fracFar[e]]
          /\ offPolicImpW' = [e \in Ids |-> IF e \in gone THEN <<>> ELSE offPolicImpW[e]]
  /\ MainGoto(AfterRemoval)
  /\ UNCHANGED <<mutex, drawVars, trainVars, statVars>>

stepComplete ==
  /\ mpc = "complete"
  /\ nGradSteps' = nGradSteps + 1
  /\ tpc' = [b \in Batch |-> "idle"]
  /\ MainGoto("sample")
  /\ UNCHANGED <<epsVars, setVars, drawVars, wasFarPol, CmaxRet, CmaxCounted>>

Main == \/ stepInit \/ prepare \/ fill \/ sample \/ draw
        \/ updateTrainingStatistics \/ applyEpisodesRemovalAlgo \/ stepComplete

Init ==
  /\ setup \in Setups
  /\ ppc = [p \in Pushers |-> "away"] /\ nBegun = 0
  /\ ndata = [e \in Ids |-> 0] /\ stamp = [e \in Ids |-> 0]
  /\ offPolicImpW = [e \in Ids |-> <<>>] /\ fracFar = [e \in Ids |-> 0]
  /\ episodes = <<>> /\ nEpisodes = 0 /\ nTransitions = 0 /\ mutex = {}
  /\ mpc = "gather" /\ nSeqs = 0 /\ nData = 0
  /\ dist = [n |-> 1, at |-> <<>>]   \* a distribution of no weights: always 0
  /\ drawn = [b \in Batch |-> 1] /\ batch = [b \in Batch |-> <<1, 1>>]
  /\ tpc = [b \in Batch |-> "idle"] /\ wasFarPol = [b \in Batch |-> FALSE]
  /\ CmaxRet = ClipFirst /\ CmaxCounted = ClipFirst /\ nGradSteps = 0

Next == (\E p \in Pushers : Push(p)) \/ Main \/ (\E b \in Batch : Train(b))

Spec == Init /\ [][Next]_vars

------------------------------------------------------------------------------
(* Properties                                                              *)

\* Every variable has its type, and the counters are those of the vector unless an
\* episode is being pushed (the assertions of pushBackEpisode and
\* removeBackEpisode).
TypeOK ==
  /\ setup \in Setups
  /\ ppc \in [Pushers -> {"away", "count"}]
  /\ nBegun \in 0 .. MaxEpisodes
  /\ ndata \in [Ids -> 0 .. MaxLen] /\ stamp \in [Ids -> 0 .. MaxEpisodes]
  /\ \A e \in Ids : offPolicImpW[e] \in [1 .. ndata[e] -> Levels] /\ fracFar[e] \in Int
  /\ episodes \in Seq(Ids) /\ IsInjective(episodes)
  /\ nEpisodes = Len(episodes)
  /\ mutex = {} => nTransitions = Total(episodes, nEpisodes)
  /\ mutex \subseteq Pushers /\ Cardinality(mutex) <= 1
  /\ mpc \in {"gather", "prepare", "fill", "overrun", "sample", "died", "draw", "train",
              "remove", "complete"}
  /\ nSeqs \in Nat /\ nData \in Nat /\ dist.n \in Nat /\ dist.at \in Seq(Ids \X Nat)
  /\ drawn \in [Batch -> Nat] /\ batch \in [Batch -> Ids \X Nat]
  /\ tpc \in [Batch -> {"idle", "read", "update", "done"}]
  /\ wasFarPol \in [Batch -> BOOLEAN]
  /\ CmaxRet \in {ClipFirst, ClipLast} /\ CmaxCounted \in {ClipFirst, ClipLast}
  /\ nGradSteps \in 0 .. MaxSteps

\* Whatever is pushed between the reads of the counters and the search, every
\* sample is a step of an episode of the data set, is the one that its index stands
\* for, and no step is sampled twice.
SamplesExist ==
  mpc = "train" =>
    /\ \A b \in Batch : /\ batch[b][1] \in ToSet(episodes)
                        /\ batch[b][2] \in 1 .. ndata[batch[b][1]]
    /\ Cardinality(ToSet(batch)) = BatchSize
    /\ algo # "PERseq" /\ ~bSampleEpisodes =>
         \A b \in Batch : drawn[b] <= Total(episodes, nEpisodes)

\* A step is drawn with the weight that prepare() computed for it: the vector has
\* not been sorted or pruned since, and the pushes have only made it longer.
PriorityOfDrawn ==
  mpc = "train" /\ algo # "uniform" =>
    \A b \in Batch : drawn[b] <= Len(dist.at) =>
      IF bOverSteps THEN batch[b] = dist.at[drawn[b]]
      ELSE batch[b][1] = dist.at[drawn[b]][1]

\* As long as CmaxRet has not moved since the fractions were computed, the updates of
\* the parallel threads keep the count of far-policy steps of every episode: exactly
\* at first, and up to one step when it has been computed anew, because a step then
\* weighs 1 / ndata and not 1 / nsteps.
FarCounted ==
  (CmaxRet = CmaxCounted /\ \A b \in Batch : tpc[b] \in {"idle", "done"}) =>
    \A e \in 1 .. nBegun :
      LET counted == ndata[e] * FarSteps(e) IN
      IF nGradSteps + 1 < RecomputeEvery THEN fracFar[e] = counted
      ELSE fracFar[e] \in counted .. counted + ndata[e]

\* The sampler finds as many distinct entries as it has to draw, however the data set
\* has been pruned: it draws until it has them.
EnoughToDraw == mpc = "draw" => Cardinality(Drawable) >= BatchSize
==============================================================================
