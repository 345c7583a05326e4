---------------------------- MODULE LearnerGroup ----------------------------
(***************************************************************************)
(* Several learner ranks (--nLearners) that train one policy.  Each rank   *)
(* gathers data from the environments it owns and runs the loop of         *)
(* LearnerLoop; the ranks meet in the reductions: of the gradients, which  *)
(* a step cannot be completed without, and of the counters and the         *)
(* statistics of the replay memory (DelayedReductor), which each rank      *)
(* waits for before the first step and afterwards only when it is one      *)
(* round ahead.  Where there are fewer environments than learners, the     *)
(* learners deal the episodes out among them (DataCoordinator): a thread   *)
(* of the master puts an episode in a list and counts it, the coordinator  *)
(* thread of the rank deals the list out and looks for what other ranks    *)
(* send.  With --learnersOnWorkers the policy runs on the worker of each   *)
(* environment: a worker sends whole episodes and waits for parameters     *)
(* after each (ParameterBlob), and the coordinator thread of its rank      *)
(* serves one worker at a time.                                            *)
(*                                                                         *)
(* An environment has one agent, an episode is one transition, and a       *)
(* contribution is the place in the algorithm it is made at.               *)
(***************************************************************************)
EXTENDS Integers, Sequences, FiniteSets, FiniteSetsExt

CONSTANTS
  nLearners,   \* ranks of learners_train_comm
  Arrangements, \* environments of each rank, and whether the workers learn
  NObsB4Start, \* nObsB4StartTraining (minTotObsNum_local)
  ObsNum,      \* obsPerStep is the rational ObsNum / ObsDen
  ObsDen,
  NTrainSteps, \* --nTrainSteps
  StatsFreq,   \* gradient steps between two updates of the state statistics
  DoneSteps,   \* gradient steps in the restart files of each rank; 0: no files
  MaxSeen,     \* bound: transitions that each rank gathers
  LongMax      \* numeric_limits<long>::max()

Ranks == 0 .. nLearners - 1

ASSUME GroupAssumption ==
  /\ nLearners \in Nat \ {0, 1}
  /\ Arrangements \subseteq [owned : [Ranks -> Nat], onWorkers : BOOLEAN]
  /\ \A a \in Arrangements : \E r \in Ranks : a.owned[r] > 0
  /\ NObsB4Start \in Nat \ {0}
  /\ ObsNum \in Nat /\ ObsDen \in Nat \ {0}
  /\ NTrainSteps \in Nat /\ MaxSeen \in [Ranks -> Nat] /\ StatsFreq \in Nat \ {0}
  /\ DoneSteps \in [Ranks -> Nat]
  /\ LongMax \in Nat /\ LongMax > NObsB4Start

VARIABLES
  nSeen,         \* counters.nSeenTransitions_loc
  nStored,       \* counters.nTransitions
  nGatheredB4Startup,
  nGradSteps,
  ended,         \* threads of the master that have an episode to hand over
  uncounted,     \* threads that have handed over one and not counted it
  cpc,           \* next operation of the coordinator thread of each rank
  episodes,      \* complete episodes in its list
  sharingDest,   \* rank that gets the next episode of each rank
  sharingReq,    \* ranks to which the last message is still in the buffer
  mail,          \* episodes on their way to each rank
  algoSubStepID,
  mpc,           \* next operation of the main thread of each rank
  gradRounds,    \* gradients each rank has handed to MPI_Iallreduce
  paramRequest,  \* paramRequest # MPI_REQUEST_NULL
  counterCalls, counterRequest, counterResult,  \* globalCounterRdx
  statCalls, statRequest, statResult,           \* StateRewRdx
  Owned,         \* nOwnedEnvironments of each rank
  nEnvironments,
  onWorkers      \* learnersOnWorkers

dataVars    == <<nSeen, nStored, ended, uncounted>>
sharingVars == <<cpc, episodes, sharingDest, sharingReq, mail>>
stepVars    == <<nGatheredB4Startup, nGradSteps, algoSubStepID>>
gradVars    == <<gradRounds, paramRequest>>
counterVars == <<counterCalls, counterRequest, counterResult>>
statVars    == <<statCalls, statRequest, statResult>>
setup       == <<Owned, nEnvironments, onWorkers>>
vars == <<dataVars, sharingVars, stepVars, gradVars, counterVars, statVars, mpc, setup>>

\* Where in the algorithm a reduction is called: in the constructor of
\* MemoryBuffer, in initializeLearner, or in a gradient step.
Ctor == -2
InitPlace == -1
Places == {Ctor, InitPlace} \cup Nat

globalCounterRdx == INSTANCE DelayedReductor
  WITH Values <- Places, Initial <- "zero", MaxRounds <- 0,
       contributed <- counterCalls, buffRequest <- counterRequest,
       return_ret <- counterResult
StateRewRdx == INSTANCE DelayedReductor
  WITH Values <- Places, Initial <- "zero", MaxRounds <- 0,
       contributed <- statCalls, buffRequest <- statRequest,
       return_ret <- statResult

------------------------------------------------------------------------------
(* The environments of a rank and the episodes it is sent                  *)

Sharing == nEnvironments < nLearners

\* obsPerStep_local = nOwnedEnvironments * obsPerStep / nEnvironments
nLocTimeStepsTrain(r) == nSeen[r] - nGatheredB4Startup[r]
Required(r, steps) == steps * ObsNum * Owned[r]
Available(r) == nLocTimeStepsTrain(r) * ObsDen * nEnvironments

blockDataAcquisition(r) ==
  /\ nStored[r] >= nGatheredB4Startup[r]
  /\ Available(r) > Required(r, nGradSteps[r] + 1)

\* Mutant of blockGradientUpdates: the data gathered before the start count.
BlockWithStartupData(r) ==
  nSeen[r] * ObsDen * nEnvironments < Required(r, nGradSteps[r])

blockGradientUpdates(r) == Available(r) < Required(r, nGradSteps[r])

\* A thread of the master lets its environment play on past the gate, to the end of an
\* episode, where the policy runs on the master.  The environments are taken to have a
\* thread each, which leaves them more orders than a thread for several.
Gather(r) ==
  /\ ~onWorkers /\ mpc[r] # "over"
  /\ ended[r] + uncounted[r] < Owned[r]
  /\ nSeen[r] + ended[r] + uncounted[r] < MaxSeen[r]
  /\ ~blockDataAcquisition(r)
  /\ ended' = [ended EXCEPT ![r] = @ + 1]
  /\ UNCHANGED <<nSeen, nStored, uncounted, sharingVars, stepVars, gradVars, counterVars,
                 statVars, mpc, setup>>

\* The thread hands the episode to the list of the coordinator, which may be taking
\* from it (complete_mutex), or stores it, which is one step under the mutex of the data.
addComplete(r) ==
  /\ ended[r] > 0 /\ cpc[r] # "distribute"
  /\ ended' = [ended EXCEPT ![r] = @ - 1]
  /\ uncounted' = [uncounted EXCEPT ![r] = @ + 1]
  /\ IF Sharing
     THEN episodes' = [episodes EXCEPT ![r] = @ + 1] /\ UNCHANGED nStored
     ELSE nStored' = [nStored EXCEPT ![r] = @ + 1] /\ UNCHANGED episodes
  /\ UNCHANGED <<nSeen, cpc, sharingDest, sharingReq, mail, stepVars, gradVars,
                 counterVars, statVars, mpc, setup>>

\* Only then it counts what the environment has done.
increaseLocalSeenSteps(r) ==
  /\ uncounted[r] > 0
  /\ uncounted' = [uncounted EXCEPT ![r] = @ - 1]
  /\ nSeen' = [nSeen EXCEPT ![r] = @ + 1]
  /\ UNCHANGED <<nStored, ended, sharingVars, stepVars, gradVars, counterVars, statVars,
                 mpc, setup>>

------------------------------------------------------------------------------
(* The coordinator thread of a rank runs the tasks of DataCoordinator over *)
(* and over: it deals out the list, looks for an episode of another rank   *)
(* and, if its gate is open, for one of a worker.  A worker plays an       *)
(* episode at any time, but waits for the parameters it asks for after it. *)

RunsServer(r) == onWorkers /\ Owned[r] > 0
HasTasks(r) == Sharing \/ RunsServer(r)

\* Where the coordinator goes after its list, and after the other masters.
AfterList(r) == IF Sharing THEN "receive" ELSE "workers"
AfterMasters(r) == IF RunsServer(r) THEN "workers" ELSE "begin"

Proceeds(r, from, to) == cpc[r] = from /\ cpc' = [cpc EXCEPT ![r] = to]

\* The rank keeps every nLearners-th episode and sends the others away, each once its last
\* message to that rank has left the buffer (MPI_Wait).  Nobody else reads
\* sharingDest, so that its turn is one with the push.
PassOn(r) ==
  LET dest == IF Sharing THEN sharingDest[r] ELSE r IN
  /\ dest \notin sharingReq[r]
  /\ IF dest = r
     THEN nStored' = [nStored EXCEPT ![r] = @ + 1] /\ UNCHANGED <<mail, sharingReq>>
     ELSE /\ mail' = [mail EXCEPT ![dest] = @ + 1]
          /\ sharingReq' = [sharingReq EXCEPT ![r] = @ \cup {dest}]
          /\ UNCHANGED nStored
  /\ sharingDest' = IF Sharing THEN [sharingDest EXCEPT ![r] = (@ + 1) % nLearners]
                               ELSE sharingDest

\* The loop looks whether training is over only here; the lock is held from "distribute" on.
lockQueue(r) ==
  /\ HasTasks(r) /\ mpc[r] # "over"
  /\ Proceeds(r, "begin", IF episodes[r] > 0 THEN "distribute" ELSE AfterList(r))
  /\ UNCHANGED <<dataVars, episodes, sharingDest, sharingReq, mail, stepVars, gradVars,
                 counterVars, statVars, mpc, setup>>

\* Mutant of distributePendingEpisodes: the list is emptied after the first episode.
DistributeAndClear(r) ==
  /\ Proceeds(r, "distribute", "receive")
  /\ PassOn(r)
  /\ episodes' = [episodes EXCEPT ![r] = 0]
  /\ UNCHANGED <<nSeen, ended, uncounted, stepVars, gradVars, counterVars, statVars,
                 mpc, setup>>

distributePendingEpisodes(r) ==
  /\ Proceeds(r, "distribute", IF episodes[r] > 1 THEN "distribute" ELSE AfterList(r))
  /\ PassOn(r)
  /\ episodes' = [episodes EXCEPT ![r] = @ - 1]
  /\ UNCHANGED <<nSeen, ended, uncounted, stepVars, gradVars, counterVars, statVars,
                 mpc, setup>>

\* An episode that another master has sent; the probe may come before it.
mastersRecvEpisodes(r, found) ==
  /\ found => mail[r] > 0
  /\ Proceeds(r, "receive", IF found THEN "store" ELSE AfterMasters(r))
  /\ mail' = IF found THEN [mail EXCEPT ![r] = @ - 1] ELSE mail
  /\ UNCHANGED <<dataVars, episodes, sharingDest, sharingReq, stepVars, gradVars,
                 counterVars, statVars, mpc, setup>>

storeReceived(r) ==
  /\ Proceeds(r, "store", AfterMasters(r))
  /\ nStored' = [nStored EXCEPT ![r] = @ + 1]
  /\ UNCHANGED <<nSeen, ended, uncounted, episodes, sharingDest, sharingReq, mail,
                 stepVars, gradVars, counterVars, statVars, mpc, setup>>

\* The workers are heard while the gate is open.
dataAcquisitionIsLocked(r) ==
  /\ Proceeds(r, "workers", IF blockDataAcquisition(r) THEN "begin" ELSE "probe")
  /\ UNCHANGED <<dataVars, episodes, sharingDest, sharingReq, mail, stepVars, gradVars,
                 counterVars, statVars, mpc, setup>>

recvWorkersEpisode(r, found) ==
  /\ found => nSeen[r] < MaxSeen[r]
  /\ Proceeds(r, "probe", IF found THEN "count" ELSE "begin")
  /\ UNCHANGED <<dataVars, episodes, sharingDest, sharingReq, mail, stepVars, gradVars,
                 counterVars, statVars, mpc, setup>>

countWorkersEpisode(r) ==
  /\ Proceeds(r, "count", "pass")
  /\ nSeen' = [nSeen EXCEPT ![r] = @ + 1]
  /\ UNCHANGED <<nStored, ended, uncounted, episodes, sharingDest, sharingReq, mail,
                 stepVars, gradVars, counterVars, statVars, mpc, setup>>

shareWorkersEpisode(r) ==
  /\ Proceeds(r, "pass", "answer")
  /\ PassOn(r)
  /\ UNCHANGED <<nSeen, ended, uncounted, episodes, stepVars, gradVars, counterVars,
                 statVars, mpc, setup>>

\* The coordinator polls the gate before it sends; the end of training does not stop it.
sendParams(r) ==
  /\ ~blockDataAcquisition(r)
  /\ Proceeds(r, "answer", "begin")
  /\ UNCHANGED <<dataVars, episodes, sharingDest, sharingReq, mail, stepVars, gradVars,
                 counterVars, statVars, mpc, setup>>

\* MPI may complete a send when it is received or as soon as it has buffered it.
sendCompletes(r, dest) ==
  /\ dest \in sharingReq[r]
  /\ sharingReq' = [sharingReq EXCEPT ![r] = @ \ {dest}]
  /\ UNCHANGED <<dataVars, cpc, episodes, sharingDest, mail, stepVars, gradVars,
                 counterVars, statVars, mpc, setup>>

------------------------------------------------------------------------------
(* The main thread of a rank                                               *)

Goto(r, from, to) == mpc[r] = from /\ mpc' = [mpc EXCEPT ![r] = to]

\* Mutant of stepInit: a rank that has more data than it needs does not take part
\* in the reductions of the initialization.
InitAlone(r) ==
  LET ready == algoSubStepID[r] = -1 /\ nStored[r] >= NObsB4Start
      skip  == ready /\ (nGradSteps[r] > 0 \/ nStored[r] > NObsB4Start)
  IN
  /\ Goto(r, "stepInit", IF ready /\ ~skip THEN "initCounters" ELSE "stepMain")
  /\ algoSubStepID' = IF skip THEN [algoSubStepID EXCEPT ![r] = 0] ELSE algoSubStepID
  /\ nGatheredB4Startup' =
       IF skip THEN [nGatheredB4Startup EXCEPT ![r] = NObsB4Start] ELSE nGatheredB4Startup
  /\ UNCHANGED <<dataVars, sharingVars, nGradSteps, gradVars, counterVars, statVars, setup>>

\* initializeLearner does nothing for a learner that was restarted.
stepInit(r) ==
  LET ready == algoSubStepID[r] = -1 /\ nStored[r] >= NObsB4Start
      skip  == ready /\ nGradSteps[r] > 0
  IN
  /\ Goto(r, "stepInit", IF ready /\ ~skip THEN "initCounters" ELSE "stepMain")
  /\ algoSubStepID' = IF skip THEN [algoSubStepID EXCEPT ![r] = 0] ELSE algoSubStepID
  /\ UNCHANGED <<dataVars, sharingVars, nGatheredB4Startup, nGradSteps, gradVars, counterVars,
                 statVars, setup>>

initUpdateCounters(r) ==
  /\ Goto(r, "initCounters", "awaitCounters")
  /\ globalCounterRdx!update(r, InitPlace)
  /\ UNCHANGED <<dataVars, sharingVars, stepVars, gradVars, statVars, setup>>

initGetCounters(r) ==
  /\ Goto(r, "awaitCounters", "initStats")
  /\ globalCounterRdx!get(r, TRUE)
  /\ UNCHANGED <<dataVars, sharingVars, stepVars, gradVars, statVars, setup>>

initUpdateStats(r) ==
  /\ Goto(r, "initStats", "awaitStats")
  /\ StateRewRdx!update(r, InitPlace)
  /\ UNCHANGED <<dataVars, sharingVars, stepVars, gradVars, counterVars, setup>>

initGetStats(r) ==
  /\ Goto(r, "awaitStats", "stepMain")
  /\ StateRewRdx!get(r, TRUE)
  /\ nGatheredB4Startup' = [nGatheredB4Startup EXCEPT ![r] = NObsB4Start]
  /\ algoSubStepID' = [algoSubStepID EXCEPT ![r] = 0]
  /\ UNCHANGED <<dataVars, sharingVars, nGradSteps, gradVars, counterVars, setup>>

\* spawnTrainTasks ends by starting the reduction of the gradients;
\* processMemoryBuffer follows, with the statistics of the states every now and
\* then.
stepMain(r) ==
  LET starts == algoSubStepID[r] = 0 /\ ~blockGradientUpdates(r) IN
  /\ Goto(r, "stepMain", IF ~starts THEN "stepComplete"
                         ELSE IF (nGradSteps[r] + 1) % StatsFreq = 0 THEN "updateStats"
                         ELSE "updateCounters")
  /\ gradRounds' = IF starts THEN [gradRounds EXCEPT ![r] = @ + 1] ELSE gradRounds
  /\ paramRequest' = IF starts THEN [paramRequest EXCEPT ![r] = TRUE] ELSE paramRequest
  /\ UNCHANGED <<dataVars, sharingVars, stepVars, counterVars, statVars, setup>>

updateRewardsStats(r) ==
  /\ Goto(r, "updateStats", "getStats")
  /\ StateRewRdx!update(r, nGradSteps[r])
  /\ UNCHANGED <<dataVars, sharingVars, stepVars, gradVars, counterVars, setup>>

getRewardsStats(r) ==
  /\ Goto(r, "getStats", "updateCounters")
  /\ StateRewRdx!get(r, FALSE)
  /\ UNCHANGED <<dataVars, sharingVars, stepVars, gradVars, counterVars, setup>>

updateCounters(r) ==
  /\ Goto(r, "updateCounters", "getCounters")
  /\ globalCounterRdx!update(r, nGradSteps[r])
  /\ UNCHANGED <<dataVars, sharingVars, stepVars, gradVars, statVars, setup>>

getCounters(r) ==
  /\ Goto(r, "getCounters", "stepComplete")
  /\ globalCounterRdx!get(r, FALSE)
  /\ algoSubStepID' = [algoSubStepID EXCEPT ![r] = 1]
  /\ UNCHANGED <<dataVars, sharingVars, nGatheredB4Startup, nGradSteps, gradVars, statVars, setup>>

\* Mutants of Reduced: a rank does not wait for the others; a rank waits for the
\* gradients of a further step.
ReducedAlone(r) == TRUE
ReducedLater(r) == \A s \in Ranks \ {r} : gradRounds[s] > gradRounds[r]

\* ready2UpdateWeights tests the request: MPI completes it some time after all
\* ranks have called.
Reduced(r) == \A s \in Ranks : gradRounds[s] >= gradRounds[r]

stepComplete(r, test) ==
  LET done == algoSubStepID[r] = 1 /\ test /\ (paramRequest[r] => Reduced(r)) IN
  /\ Goto(r, "stepComplete", "isOver")
  /\ nGradSteps' = IF done THEN [nGradSteps EXCEPT ![r] = @ + 1] ELSE nGradSteps
  /\ algoSubStepID' = IF done THEN [algoSubStepID EXCEPT ![r] = 0] ELSE algoSubStepID
  /\ paramRequest' = IF done THEN [paramRequest EXCEPT ![r] = FALSE] ELSE paramRequest
  /\ UNCHANGED <<dataVars, sharingVars, nGatheredB4Startup, gradRounds, counterVars, statVars, setup>>

\* Only rank 0 finds out that training has started (runTraining).
isOver(r) ==
  LET over == /\ r = 0 /\ nStored[r] >= NObsB4Start
              /\ nLocTimeStepsTrain(r) >= NTrainSteps
  IN
  /\ Goto(r, "isOver", IF over THEN "over" ELSE "stepInit")
  /\ UNCHANGED <<dataVars, sharingVars, stepVars, gradVars, counterVars, statVars, setup>>

MainStep(r) ==
  \/ stepInit(r)
  \/ initUpdateCounters(r) \/ initGetCounters(r)
  \/ initUpdateStats(r) \/ initGetStats(r)
  \/ stepMain(r) \/ updateRewardsStats(r) \/ getRewardsStats(r)
  \/ updateCounters(r) \/ getCounters(r)
  \/ \E test \in BOOLEAN : stepComplete(r, test)
  \/ isOver(r)

\* The constructor of MemoryBuffer has made the first call of each reductor.
\* A rank that finds its restart files had the data for the steps they count.
Init ==
  LET Restarted(n) == [r \in Ranks |->
        IF DoneSteps[r] = 0 THEN 0
        ELSE NObsB4Start + (DoneSteps[r] * ObsNum * Owned[r]) \div (ObsDen * nEnvironments)]
  IN
  /\ \E a \in Arrangements : Owned = a.owned /\ onWorkers = a.onWorkers
  /\ nEnvironments = MapThenSumSet(LAMBDA r : Owned[r], Ranks)
  /\ nSeen = Restarted(0) /\ nStored = Restarted(0)
  /\ nGatheredB4Startup =
       [r \in Ranks |-> IF DoneSteps[r] = 0 THEN LongMax ELSE NObsB4Start]
  /\ nGradSteps = DoneSteps
  /\ ended = [r \in Ranks |-> 0] /\ uncounted = ended /\ episodes = ended /\ mail = ended
  /\ cpc = [r \in Ranks |-> "begin"]
  /\ sharingDest = [r \in Ranks |-> r] /\ sharingReq = [r \in Ranks |-> {}]
  /\ algoSubStepID = [r \in Ranks |-> -1]
  /\ mpc = [r \in Ranks |-> "stepInit"]
  /\ gradRounds = [r \in Ranks |-> 0] /\ paramRequest = [r \in Ranks |-> FALSE]
  /\ counterCalls = [r \in Ranks |-> <<Ctor>>] /\ statCalls = counterCalls
  /\ counterRequest = [r \in Ranks |-> TRUE] /\ statRequest = counterRequest
  /\ counterResult = [r \in Ranks |-> "zero"] /\ statResult = counterResult

ThreadStep(r) == Gather(r) \/ addComplete(r) \/ increaseLocalSeenSteps(r)

CoordinatorStep(r) ==
  \/ lockQueue(r) \/ distributePendingEpisodes(r)
  \/ \E found \in BOOLEAN : mastersRecvEpisodes(r, found)
  \/ storeReceived(r) \/ dataAcquisitionIsLocked(r)
  \/ \E found \in BOOLEAN : recvWorkersEpisode(r, found)
  \/ countWorkersEpisode(r) \/ shareWorkersEpisode(r) \/ sendParams(r)

Next ==
  \E r \in Ranks :
    \/ ThreadStep(r) \/ CoordinatorStep(r) \/ MainStep(r)
    \/ \E dest \in Ranks : sendCompletes(r, dest)

\* The threads run, an environment ends its episodes, an episode of a worker is found
\* by some probe and a reduction that all ranks have called is completed.
Fairness ==
  \A r \in Ranks :
    /\ WF_vars(ThreadStep(r)) /\ WF_vars(CoordinatorStep(r))
    /\ SF_vars(recvWorkersEpisode(r, TRUE))
    /\ WF_vars(MainStep(r)) /\ SF_vars(stepComplete(r, TRUE))

Spec == Init /\ [][Next]_vars
FairSpec == Spec /\ Fairness

------------------------------------------------------------------------------
(* Properties                                                              *)

PCs == {"stepInit", "initCounters", "awaitCounters", "initStats", "awaitStats",
        "stepMain", "updateStats", "getStats", "updateCounters", "getCounters",
        "stepComplete", "isOver", "over"}
CPCs == {"begin", "distribute", "receive", "store", "workers", "probe", "count", "pass",
         "answer"}

\* Every variable has its type.
TypeOK ==
  /\ nSeen \in [Ranks -> Nat] /\ nStored \in [Ranks -> Nat]
  /\ nGatheredB4Startup \in [Ranks -> {NObsB4Start, LongMax}]
  /\ nGradSteps \in [Ranks -> Nat]
  /\ ended \in [Ranks -> Nat] /\ uncounted \in [Ranks -> Nat]
  /\ cpc \in [Ranks -> CPCs] /\ episodes \in [Ranks -> Nat] /\ mail \in [Ranks -> Nat]
  /\ sharingDest \in [Ranks -> Ranks] /\ sharingReq \in [Ranks -> SUBSET Ranks]
  /\ algoSubStepID \in [Ranks -> {-1, 0, 1}]
  /\ mpc \in [Ranks -> PCs]
  /\ gradRounds \in [Ranks -> Nat] /\ paramRequest \in [Ranks -> BOOLEAN]
  /\ Owned \in [Ranks -> Nat] /\ nEnvironments \in Nat
  /\ counterCalls \in [Ranks -> Seq(Places)] /\ statCalls \in [Ranks -> Seq(Places)]
  /\ counterRequest \in [Ranks -> BOOLEAN] /\ statRequest \in [Ranks -> BOOLEAN]
  /\ onWorkers \in BOOLEAN

\* Every rank takes the same gradient steps: none is ahead by more than one,
\* and none has taken a step that some rank did not give its gradients for.
StepsInLockstep ==
  \A r, s \in Ranks :
    LET taken == nGradSteps[r] - DoneSteps[r] IN
    /\ taken <= nGradSteps[s] - DoneSteps[s] + 1
    /\ taken <= gradRounds[s]

\* MPI adds up contributions of one and the same place of the algorithm: no
\* rank's step is reduced with another's initialization or other step.
CollectivesMatch ==
  \A calls \in {counterCalls, statCalls} : \A r, s \in Ranks :
    \A i \in 1 .. Len(calls[r]) : i <= Len(calls[s]) => calls[r][i] = calls[s][i]

\* obsPerStep is kept globally although each rank tests its own share only: the
\* gradient steps of any rank are backed by the observations of all.
GlobalRatio ==
  \A r \in Ranks :
    nGradSteps[r] > DoneSteps[r] =>
      (nGradSteps[r] - 1) * ObsNum
        <= MapThenSumSet(nLocTimeStepsTrain, Ranks) * ObsDen

\* Whatever the threads add, count and pass on meanwhile, no episode is lost or stored
\* twice: those in the lists, in the hands of a coordinator, on their way or stored are
\* those that were counted or are about to be.  And a sharing group gets them evenly, up
\* to one for each rank that deals out its own.
DealtTo(r) == nStored[r] + mail[r] + (IF cpc[r] = "store" THEN 1 ELSE 0)
InHand(r) == episodes[r] + (IF cpc[r] = "pass" THEN 1 ELSE 0) + DealtTo(r)
Owners == {r \in Ranks : Owned[r] > 0}
EpisodesDealt ==
  /\ MapThenSumSet(InHand, Ranks) = MapThenSumSet(LAMBDA r : nSeen[r] + uncounted[r], Ranks)
  /\ Sharing => \A r, s \in Ranks : DealtTo(r) <= DealtTo(s) + Cardinality(Owners)

\* A rank without environments keeps no count of observations: what it is sent
\* it has not seen, and its gate stays closed.
AllOwn == \A r \in Ranks : Owned[r] > 0

\* Where each rank has environments the required observations are reached: every rank
\* takes its gradient steps, for only they open the gates of the others, and where the
\* workers learn each gets the parameters it waits for between its episodes.
TrainingEnds == <>(AllOwn => mpc[0] = "over")
=============================================================================
