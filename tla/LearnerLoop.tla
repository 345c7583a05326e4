----------------------------- MODULE LearnerLoop -----------------------------
(***************************************************************************)
(* The training loop of one learner process, with the threads that answer  *)
(* its environments.                                                       *)
(*                                                                         *)
(* The main thread runs, for every learner, the tasks that setupTasks      *)
(* registered (stepInit, stepMain, stepComplete) until training is over.   *)
(* Concurrently one handler thread per share of the environments receives  *)
(* states, waits at the gate while all learners block data acquisition,    *)
(* stores the state, picks an action and answers.  The two sides meet only *)
(* in the atomic counters of the memory buffer and in its dataset_mutex.   *)
(* The process may crash and restart from the files its last save wrote.   *)
(*                                                                         *)
(* Data are abstracted to lengths: an episode is its number of transitions *)
(* and the stored data set is a bag of such lengths.                       *)
(***************************************************************************)
EXTENDS Integers, FiniteSets, FiniteSetsExt

CONSTANTS
  Envs,         \* environments owned by this process
  Handlers,     \* threads running waitForStateActionCallers
  HandlerOf,    \* which handler serves which environment
  AgentsPerEnv, \* agents of each environment
  NLearners,    \* one learner for all the agents, or one learner per agent
  NObsB4Start,  \* nObsB4StartTraining (minTotObsNum_local)
  MaxTotObs,    \* maxTotObsNum_local
  ObsNum,       \* obsPerStep_local is the rational ObsNum / ObsDen
  ObsDen,
  NTrainSteps,  \* --nTrainSteps
  NEvalEps,     \* --nEvalEpisodes
  SaveFreq,     \* settings.saveFreq
  Modes,        \* values of bTrain the command line may ask for
  LearnRank,    \* rank of this process among the learners
  LongMax,      \* numeric_limits<long>::max()
  MaxLen,       \* bound: states in an episode
  MaxSeen,      \* bound: observations of one learner the handlers produce
  MaxCrashes    \* bound: crashes of the process

Learners == 1 .. NLearners
Agents   == Envs \X (1 .. AgentsPerEnv)
Lengths  == 1 .. MaxLen - 1
Statuses == {"INIT", "CONT", "LAST"}

ASSUME LoopAssumption ==
  /\ IsFiniteSet(Envs) /\ IsFiniteSet(Handlers)
  /\ HandlerOf \in [Envs -> Handlers]
  /\ \A h \in Handlers : \E e \in Envs : HandlerOf[e] = h
  /\ AgentsPerEnv \in Nat \ {0}
  /\ NLearners \in {1, AgentsPerEnv}
  /\ NObsB4Start \in Nat \ {0}
  /\ MaxTotObs \in Nat /\ NObsB4Start <= MaxTotObs
  /\ ObsNum \in Nat /\ ObsDen \in Nat \ {0}
  /\ NTrainSteps \in Nat /\ NEvalEps \in Nat
  /\ SaveFreq \in Nat \ {0}
  /\ Modes \subseteq BOOLEAN
  /\ LearnRank \in Nat
  /\ MaxLen \in Nat /\ MaxLen >= 2
  /\ MaxSeen \in Nat
  /\ MaxCrashes \in Nat
  /\ LongMax \in Nat /\ LongMax > NObsB4Start

VARIABLES
  bTrain,       \* training, or evaluation of a restarted policy
  inProgress,   \* states stored in the open episode of each agent
  turn,         \* which agent of an environment sends its state next
  episodes,     \* data set: how many episodes of each number of transitions
  nEpisodes,             \* counters.nEpisodes
  nTransitions,          \* counters.nTransitions
  nSeenEpisodes_loc,     \* counters.nSeenEpisodes_loc
  nSeenTransitions_loc,  \* counters.nSeenTransitions_loc
  nGatheredB4Startup,    \* counters.nGatheredB4Startup
  nGradSteps,            \* counters.nGradSteps
  algoSubStepID,         \* scheduling state of each learner
  isTrainingStarted,     \* local of runTraining
  dataset_mutex,         \* learner whose data set the main thread has locked
  mpc,          \* next operation of the main thread
  cur,          \* learner whose tasks the main thread is running
  hpc,          \* next operation of each handler
  hagent,       \* agent whose state the handler is processing
  hstatus,      \* and the status of that state
  hdone,        \* transitions of the episode the handler is moving
  bExit,        \* flag read by the handlers
  saved,        \* what the restart files of each learner hold
  crashes,      \* number of crashes so far
  gone,         \* history: transitions counted but pruned or lost in a crash
  atStart       \* history: nLocTimeStepsTrain when the gate was armed

counterVars == <<nEpisodes, nTransitions, nSeenEpisodes_loc,
                 nSeenTransitions_loc, nGatheredB4Startup, nGradSteps>>
mainVars    == <<algoSubStepID, isTrainingStarted, dataset_mutex, mpc, cur>>
handlerVars == <<hpc, hagent, hstatus, hdone>>
bufferVars  == <<inProgress, turn, episodes>>
diskVars    == <<saved, crashes>>
histVars    == <<gone, atStart>>
loopVars == <<bufferVars, counterVars, mainVars, handlerVars, bExit, diskVars,
              histVars>>
vars == <<loopVars, bTrain>>

NoLearner == 0
NoSave == [present |-> FALSE]
EmptyBag == [n \in Lengths |-> 0]
LearnerOf(a) == IF NLearners > 1 THEN a[2] ELSE 1
Served(h) == {a \in Agents : HandlerOf[a[1]] = h}
MyLearner(h) == LearnerOf(hagent[h])

------------------------------------------------------------------------------
(* The gates                                                               *)

nLocTimeStepsTrain(l) == nSeenTransitions_loc[l] - nGatheredB4Startup[l]
\* Mutant of blockDataAcquisition: the transitions of open episodes, which are
\* not stored yet, are forgotten.
BlockOnStoredData(l) ==
  /\ nTransitions[l] >= nGatheredB4Startup[l]
  /\ (nTransitions[l] - nGatheredB4Startup[l]) * ObsDen
        > (nGradSteps[l] + 1) * ObsNum

blockDataAcquisition(l) ==
  /\ nTransitions[l] >= nGatheredB4Startup[l]
  /\ nLocTimeStepsTrain(l) * ObsDen > (nGradSteps[l] + 1) * ObsNum

blockGradientUpdates(l) ==
  nLocTimeStepsTrain(l) * ObsDen < nGradSteps[l] * ObsNum

learnersBlockingDataAcquisition == \A l \in Learners : blockDataAcquisition(l)

------------------------------------------------------------------------------
(* Handler threads                                                         *)

HandlerGoto(h, pc) == hpc' = [hpc EXCEPT ![h] = pc]

\* What an environment may send next for an agent: an initial state when no
\* episode is open, otherwise a further state (unless the episode reached its
\* bound) or its last one.
MaySend(a, status) ==
  CASE status = "INIT" -> inProgress[a] = 0
    [] status = "CONT" -> inProgress[a] > 0 /\ inProgress[a] + 2 <= MaxLen
    [] status = "LAST" -> inProgress[a] > 0

Receive(h, a, status) ==
  /\ hpc[h] = "test"
  /\ a[2] = turn[a[1]]
  /\ MaySend(a, status)
  /\ nSeenTransitions_loc[LearnerOf(a)] < MaxSeen \/ bExit
  /\ turn' = [turn EXCEPT ![a[1]] = (@ % AgentsPerEnv) + 1]
  /\ hagent' = [hagent EXCEPT ![h] = a]
  /\ hstatus' = [hstatus EXCEPT ![h] = status]
  /\ HandlerGoto(h, "gate")
  /\ UNCHANGED <<inProgress, episodes, hdone, counterVars, mainVars, bExit,
                 diskVars, histVars>>

\* while (bTrain && completed && learnersBlocking...) { if (bExit) return; }
PassGate(h) ==
  /\ hpc[h] = "gate"
  /\ ~(bTrain /\ learnersBlockingDataAcquisition)
  /\ HandlerGoto(h, "storeState")
  /\ UNCHANGED <<hagent, hstatus, hdone, bufferVars, counterVars, mainVars,
                 bExit, diskVars, histVars>>
\* Mutant of ExitAtGate: the loop at the gate does not test bExit.
StayAtGate(h) == FALSE

ExitAtGate(h) ==
  /\ hpc[h] = "gate"
  /\ bTrain /\ learnersBlockingDataAcquisition
  /\ bExit
  /\ HandlerGoto(h, "exit")
  /\ UNCHANGED <<hagent, hstatus, hdone, bufferVars, counterVars, mainVars,
                 bExit, diskVars, histVars>>

storeState(h) ==
  /\ hpc[h] = "storeState"
  /\ inProgress' = [inProgress EXCEPT ![hagent[h]] = @ + 1]
  /\ HandlerGoto(h, IF hstatus[h] = "LAST" THEN "terminate" ELSE "storeAction")
  /\ UNCHANGED <<turn, episodes, hagent, hstatus, hdone, counterVars, mainVars,
                 bExit, diskVars, histVars>>
\* Mutant of storeAction: the action of an initial state counts as a transition.
CountInitialAction(h) ==
  /\ hpc[h] = "storeAction"
  /\ nSeenTransitions_loc' =
       [nSeenTransitions_loc EXCEPT ![MyLearner(h)] = @ + 1]
  /\ HandlerGoto(h, "reply")
  /\ UNCHANGED <<hagent, hstatus, hdone, bufferVars, nEpisodes, nTransitions,
                 nSeenEpisodes_loc, nGatheredB4Startup, nGradSteps, mainVars,
                 bExit, diskVars, histVars>>

\* An action completes the transition that led to a state: none for s_0.
storeAction(h) ==
  /\ hpc[h] = "storeAction"
  /\ nSeenTransitions_loc' =
       IF hstatus[h] # "INIT"
       THEN [nSeenTransitions_loc EXCEPT ![MyLearner(h)] = @ + 1]
       ELSE nSeenTransitions_loc
  /\ HandlerGoto(h, "reply")
  /\ UNCHANGED <<hagent, hstatus, hdone, bufferVars, nEpisodes, nTransitions,
                 nSeenEpisodes_loc, nGatheredB4Startup, nGradSteps, mainVars,
                 bExit, diskVars, histVars>>

\* terminateCurrentEpisode swaps the episode out of inProgress ...
terminateCurrentEpisode(h) ==
  /\ hpc[h] = "terminate"
  /\ hdone' = [hdone EXCEPT ![h] = inProgress[hagent[h]] - 1]
  /\ inProgress' = [inProgress EXCEPT ![hagent[h]] = 0]
  /\ HandlerGoto(h, "pushBack")
  /\ UNCHANGED <<turn, episodes, hagent, hstatus, counterVars, mainVars, bExit,
                 diskVars, histVars>>

\* ... pushes it onto the data set under dataset_mutex ...
pushBackEpisode(h) ==
  LET l == MyLearner(h) IN
  /\ hpc[h] = "pushBack"
  /\ dataset_mutex # l
  /\ episodes' = [episodes EXCEPT ![l][hdone[h]] = @ + 1]
  /\ nEpisodes' = [nEpisodes EXCEPT ![l] = @ + 1]
  /\ nTransitions' = [nTransitions EXCEPT ![l] = @ + hdone[h]]
  /\ HandlerGoto(h, "seenStep")
  /\ UNCHANGED <<inProgress, turn, hagent, hstatus, hdone, nSeenEpisodes_loc,
                 nSeenTransitions_loc, nGatheredB4Startup, nGradSteps,
                 mainVars, bExit, diskVars, histVars>>

\* ... and only then counts its last transition and the episode.
increaseLocalSeenSteps(h) ==
  /\ hpc[h] = "seenStep"
  /\ nSeenTransitions_loc' =
       [nSeenTransitions_loc EXCEPT ![MyLearner(h)] = @ + 1]
  /\ HandlerGoto(h, "seenEps")
  /\ UNCHANGED <<hagent, hstatus, hdone, bufferVars, nEpisodes, nTransitions,
                 nSeenEpisodes_loc, nGatheredB4Startup, nGradSteps, mainVars,
                 bExit, diskVars, histVars>>

increaseLocalSeenEps(h) ==
  /\ hpc[h] = "seenEps"
  /\ nSeenEpisodes_loc' = [nSeenEpisodes_loc EXCEPT ![MyLearner(h)] = @ + 1]
  /\ hdone' = [hdone EXCEPT ![h] = 0]
  /\ HandlerGoto(h, "reply")
  /\ UNCHANGED <<hagent, hstatus, bufferVars, nEpisodes, nTransitions,
                 nSeenTransitions_loc, nGatheredB4Startup, nGradSteps, mainVars,
                 bExit, diskVars, histVars>>
Reply(h) ==
  /\ hpc[h] = "reply"
  /\ HandlerGoto(h, IF bExit THEN "exit" ELSE "test")
  /\ hstatus' = [hstatus EXCEPT ![h] = "INIT"]
  /\ UNCHANGED <<hagent, hdone, bufferVars, counterVars, mainVars,
                 bExit, diskVars, histVars>>

Answer(h) ==
  \/ PassGate(h) \/ ExitAtGate(h) \/ storeState(h) \/ storeAction(h)
  \/ terminateCurrentEpisode(h) \/ pushBackEpisode(h)
  \/ increaseLocalSeenSteps(h) \/ increaseLocalSeenEps(h) \/ Reply(h)

------------------------------------------------------------------------------
(* Main thread: algoTasks.run() visits stepInit, stepMain and stepComplete *)
(* of each learner in order, then isOver() decides whether to go round.    *)

MainGoto(pc) == mpc' = pc /\ cur' = cur
Untouched == UNCHANGED <<handlerVars, bufferVars, diskVars>>

\* initializeLearner: a restarted learner keeps the counters of its files.
stepInit ==
  LET ready == algoSubStepID[cur] = -1 /\ nTransitions[cur] >= NObsB4Start
      fresh == nGradSteps[cur] = 0
  IN
  /\ mpc = "stepInit"
  /\ algoSubStepID' = IF ready THEN [algoSubStepID EXCEPT ![cur] = 0]
                               ELSE algoSubStepID
  /\ nGatheredB4Startup' =
       IF ready /\ fresh
       THEN [nGatheredB4Startup EXCEPT ![cur] = NObsB4Start]
       ELSE nGatheredB4Startup
  /\ atStart' =
       IF ready
       THEN [atStart EXCEPT ![cur] = nSeenTransitions_loc[cur]
                                       - nGatheredB4Startup'[cur]]
       ELSE atStart
  /\ MainGoto("stepMain")
  /\ UNCHANGED <<nEpisodes, nTransitions, nSeenEpisodes_loc,
                 nSeenTransitions_loc, nGradSteps, isTrainingStarted,
                 dataset_mutex, bExit, gone>>
  /\ Untouched

\* The minibatch, the gradients and the statistics of the step do not change
\* this state: what is left of spawnTrainTasks and processMemoryBuffer is the
\* removal of episodes, which starts by locking the data set.
stepMain ==
  LET starts == algoSubStepID[cur] = 0 /\ ~blockGradientUpdates(cur) IN
  /\ mpc = "stepMain"
  /\ dataset_mutex' = IF starts THEN cur ELSE NoLearner
  /\ MainGoto(IF starts THEN "removal" ELSE "stepComplete")
  /\ UNCHANGED <<counterVars, algoSubStepID, isTrainingStarted, bExit,
                 histVars>>
  /\ Untouched

\* Mutants of Removable: the length of the episode is left out of the test; so
\* is, besides, that there is such an episode.
RemovableToNothing(n) ==
  /\ episodes[cur][n] > 0
  /\ nTransitions[cur] > MaxTotObs
RemovableAbsent(n) == nTransitions[cur] > MaxTotObs

\* The filter (ERoldSeqFilter) decides which episode is at the back; here it
\* may be any stored one.
Removable(n) ==
  /\ episodes[cur][n] > 0
  /\ nTransitions[cur] - (n + 1) > MaxTotObs

removeBackEpisode(n) ==
  /\ mpc = "removal"
  /\ Removable(n)
  /\ episodes' = [episodes EXCEPT ![cur][n] = @ - 1]
  /\ nEpisodes' = [nEpisodes EXCEPT ![cur] = @ - 1]
  /\ nTransitions' = [nTransitions EXCEPT ![cur] = @ - n]
  /\ gone' = [gone EXCEPT ![cur] = @ + n]
  /\ UNCHANGED <<inProgress, turn, nSeenEpisodes_loc, nSeenTransitions_loc,
                 nGatheredB4Startup, nGradSteps, mainVars, handlerVars, bExit,
                 diskVars, atStart>>

\* The episode at the back must stay: unlock.
removalDone ==
  /\ mpc = "removal"
  /\ \E n \in Lengths : episodes[cur][n] > 0 /\ ~Removable(n)
  /\ dataset_mutex' = NoLearner
  /\ MainGoto("logStats")
  /\ UNCHANGED <<counterVars, algoSubStepID, isTrainingStarted, bExit,
                 histVars>>
  /\ Untouched

\* Mutant of Snapshot: the stored transitions are written for the seen ones.
SnapshotStoredAsSeen(l) ==
  [present |-> TRUE, episodes |-> episodes[l], nEpisodes |-> nEpisodes[l],
   nTransitions |-> nTransitions[l],
   nSeenEpisodes_loc |-> nSeenEpisodes_loc[l],
   nSeenTransitions_loc |-> nTransitions[l],
   nGatheredB4Startup |-> nGatheredB4Startup[l],
   nGradSteps |-> nGradSteps[l] + 1]

\* The files record the gradient step that is about to be completed, and what
\* the counters hold: at one moment here, one by one in Checkpoint.
Snapshot(l) ==
  [present |-> TRUE, episodes |-> episodes[l], nEpisodes |-> nEpisodes[l],
   nTransitions |-> nTransitions[l],
   nSeenEpisodes_loc |-> nSeenEpisodes_loc[l],
   nSeenTransitions_loc |-> nSeenTransitions_loc[l],
   nGatheredB4Startup |-> nGatheredB4Startup[l],
   nGradSteps |-> nGradSteps[l] + 1]

logStats ==
  /\ mpc = "logStats"
  /\ saved' = IF (nGradSteps[cur] + 1) % SaveFreq = 0 /\ LearnRank = 0
              THEN [saved EXCEPT ![cur] = Snapshot(cur)]
              ELSE saved
  /\ algoSubStepID' = [algoSubStepID EXCEPT ![cur] = 1]
  /\ MainGoto("stepComplete")
  /\ UNCHANGED <<bufferVars, counterVars, handlerVars, isTrainingStarted,
                 dataset_mutex, bExit, crashes, histVars>>

\* ready2ApplyUpdate() tests the reduction of the gradients, which other
\* ranks may hold back.
stepComplete(reduced) ==
  LET done == algoSubStepID[cur] = 1 /\ reduced IN
  /\ mpc = "stepComplete"
  /\ nGradSteps' = IF done THEN [nGradSteps EXCEPT ![cur] = @ + 1]
                           ELSE nGradSteps
  /\ algoSubStepID' = IF done THEN [algoSubStepID EXCEPT ![cur] = 0]
                              ELSE algoSubStepID
  /\ mpc' = IF cur < NLearners THEN "stepInit" ELSE "isOver"
  /\ cur' = IF cur < NLearners THEN cur + 1 ELSE 1
  /\ UNCHANGED <<nEpisodes, nTransitions, nSeenEpisodes_loc,
                 nSeenTransitions_loc, nGatheredB4Startup, isTrainingStarted,
                 dataset_mutex, bExit, histVars>>
  /\ Untouched

isOverTraining(started) ==
  LET agentSteps == IF NLearners = 1 THEN AgentsPerEnv ELSE 1 IN
  /\ started
  /\ \A l \in Learners : nLocTimeStepsTrain(l) >= NTrainSteps * agentSteps

isOverTesting ==
  LET agentEps == IF NLearners = 1 THEN AgentsPerEnv ELSE 1 IN
  \A l \in Learners : nSeenEpisodes_loc[l] \div agentEps >= NEvalEps

\* All learners start after the same number of observations, so that the
\* first one is the one isOverTraining waits for.  An evaluation registers no
\* tasks: the loop only tests isOverTesting.
isOver ==
  LET started == isTrainingStarted \/ (LearnRank = 0 /\ nTransitions[1] >= NObsB4Start)
      over    == IF bTrain THEN isOverTraining(started) ELSE isOverTesting
  IN
  /\ mpc = "isOver"
  /\ isTrainingStarted' = (bTrain /\ started)
  /\ bExit' = over
  /\ MainGoto(IF over THEN "join" ELSE IF bTrain THEN "stepInit" ELSE "isOver")
  /\ UNCHANGED <<counterVars, algoSubStepID, dataset_mutex, histVars>>
  /\ Untouched

\* ~Master joins the handlers.
Join ==
  /\ mpc = "join"
  /\ \A h \in Handlers : hpc[h] = "exit"
  /\ MainGoto("over")
  /\ UNCHANGED <<counterVars, algoSubStepID, isTrainingStarted, dataset_mutex,
                 bExit, histVars>>
  /\ Untouched

MainStep ==
  \/ stepInit \/ stepMain \/ removalDone \/ logStats \/ isOver \/ Join
  \/ \E n \in Lengths : removeBackEpisode(n)

------------------------------------------------------------------------------
(* Crash of the process and restart from the files, if there are any.      *)

Loaded(field, default) ==
  [l \in Learners |-> IF saved[l].present THEN saved[l][field] ELSE default]

CrashAndRestart ==
  /\ mpc # "over" /\ crashes < MaxCrashes
  /\ crashes' = crashes + 1
  /\ episodes' = Loaded("episodes", EmptyBag)
  /\ nEpisodes' = Loaded("nEpisodes", 0)
  /\ nTransitions' = Loaded("nTransitions", 0)
  /\ nSeenEpisodes_loc' = Loaded("nSeenEpisodes_loc", 0)
  /\ nSeenTransitions_loc' = Loaded("nSeenTransitions_loc", 0)
  /\ nGatheredB4Startup' = Loaded("nGatheredB4Startup", LongMax)
  /\ nGradSteps' = Loaded("nGradSteps", 0)
  /\ gone' = [l \in Learners |-> nSeenTransitions_loc'[l] - nTransitions'[l]]
  /\ atStart' = [l \in Learners |-> 0]
  /\ inProgress' = [a \in Agents |-> 0]
  /\ turn' = [e \in Envs |-> 1]
  /\ algoSubStepID' = [l \in Learners |-> -1]
  /\ isTrainingStarted' = FALSE
  /\ dataset_mutex' = NoLearner
  /\ mpc' = IF bTrain THEN "stepInit" ELSE "isOver"
  /\ cur' = 1
  /\ hpc' = [h \in Handlers |-> "test"]
  /\ hdone' = [h \in Handlers |-> 0]
  /\ bExit' = FALSE
  /\ UNCHANGED <<hagent, hstatus, saved>>

------------------------------------------------------------------------------
Init ==
  /\ bTrain \in Modes
  /\ inProgress = [a \in Agents |-> 0]
  /\ turn = [e \in Envs |-> 1]
  /\ episodes = [l \in Learners |-> EmptyBag]
  /\ nEpisodes = [l \in Learners |-> 0]
  /\ nTransitions = [l \in Learners |-> 0]
  /\ nSeenEpisodes_loc = [l \in Learners |-> 0]
  /\ nSeenTransitions_loc = [l \in Learners |-> 0]
  /\ nGatheredB4Startup = [l \in Learners |-> LongMax]
  /\ nGradSteps = [l \in Learners |-> 0]
  /\ algoSubStepID = [l \in Learners |-> -1]
  /\ isTrainingStarted = FALSE
  /\ dataset_mutex = NoLearner
  /\ mpc = IF bTrain THEN "stepInit" ELSE "isOver"
  /\ cur = 1
  /\ hpc = [h \in Handlers |-> "test"]
  /\ hagent = [h \in Handlers |-> CHOOSE a \in Served(h) : TRUE]
  /\ hstatus = [h \in Handlers |-> "INIT"]
  /\ hdone = [h \in Handlers |-> 0]
  /\ bExit = FALSE
  /\ saved = [l \in Learners |-> NoSave]
  /\ crashes = 0
  /\ gone = [l \in Learners |-> 0]
  /\ atStart = [l \in Learners |-> 0]

Step ==
  \/ MainStep
  \/ \E reduced \in BOOLEAN : stepComplete(reduced)
  \/ \E h \in Handlers : Answer(h)
  \/ \E h \in Handlers, status \in Statuses : \E a \in Served(h) :
       Receive(h, a, status)
  \/ CrashAndRestart
  \/ mpc = "over" /\ UNCHANGED loopVars

Next == Step /\ UNCHANGED bTrain

\* The handlers and the main thread keep running, a reduction that was started
\* ends, and a handler polls its environments round robin, so that an
\* environment whose state is ready is served.
Fairness ==
  /\ WF_loopVars(MainStep)
  /\ WF_loopVars(\E reduced \in BOOLEAN : stepComplete(reduced))
  /\ SF_loopVars(stepComplete(TRUE))
  /\ \A h \in Handlers : WF_loopVars(Answer(h))
  /\ \A a \in Agents :
       SF_loopVars(\E status \in Statuses : Receive(HandlerOf[a[1]], a, status))

Spec == Init /\ [][Next]_vars
FairSpec == Spec /\ Fairness

------------------------------------------------------------------------------
(* Properties                                                              *)

MainPCs == {"stepInit", "stepMain", "removal", "logStats", "stepComplete",
            "isOver", "join", "over"}
HandlerPCs == {"test", "gate", "storeState", "storeAction", "terminate",
               "pushBack", "seenStep", "seenEps", "reply", "exit"}
Files ==
  [present : {TRUE}, episodes : [Lengths -> Nat], nEpisodes : Int,
   nTransitions : Int, nSeenEpisodes_loc : Nat, nSeenTransitions_loc : Nat,
   nGatheredB4Startup : {NObsB4Start, LongMax}, nGradSteps : Nat]

\* Every variable has its type.
TypeOK ==
  /\ bTrain \in BOOLEAN
  /\ inProgress \in [Agents -> Nat]
  /\ turn \in [Envs -> 1 .. AgentsPerEnv]
  /\ episodes \in [Learners -> [Lengths -> Nat]]
  /\ nEpisodes \in [Learners -> Int]
  /\ nTransitions \in [Learners -> Int]
  /\ nSeenEpisodes_loc \in [Learners -> Nat]
  /\ nSeenTransitions_loc \in [Learners -> Nat]
  /\ nGatheredB4Startup \in [Learners -> {NObsB4Start, LongMax}]
  /\ nGradSteps \in [Learners -> Nat]
  /\ algoSubStepID \in [Learners -> {-1, 0, 1}]
  /\ isTrainingStarted \in BOOLEAN
  /\ dataset_mutex \in Learners \cup {NoLearner}
  /\ mpc \in MainPCs
  /\ cur \in Learners
  /\ hpc \in [Handlers -> HandlerPCs]
  /\ hagent \in [Handlers -> Agents]
  /\ hstatus \in [Handlers -> Statuses]
  /\ hdone \in [Handlers -> Int]
  /\ bExit \in BOOLEAN
  /\ saved \in [Learners -> {NoSave} \cup Files]
  /\ crashes \in Nat
  /\ gone \in [Learners -> Int]
  /\ atStart \in [Learners -> Int]

\* States of learner l that a handler let through the gate and that
\* nSeenTransitions_loc does not count yet.
InFlightPCs == {"storeState", "storeAction", "terminate", "pushBack",
                "seenStep"}
InFlight(l) == {h \in Handlers : hpc[h] \in InFlightPCs /\ MyLearner(h) = l}

\* Once all learners train, the gate of waitForStateActionCallers holds the
\* environments back: of the observations of some learner (the only one, when
\* the agents share it), counted and in flight, at most one per handler thread
\* is beyond what obsPerStep allows for the next gradient step, or beyond what
\* had already been gathered when the gate was armed.
WithinQuota(l) ==
  LET n == nLocTimeStepsTrain(l) + Cardinality(InFlight(l))
              - Cardinality(Handlers) IN
  \/ n <= atStart[l]
  \/ n * ObsDen <= (nGradSteps[l] + 1) * ObsNum
AcquisitionBounded ==
  (\A l \in Learners : algoSubStepID[l] # -1) => \E l \in Learners : WithinQuota(l)

\* No gradient step is taken without the observations obsPerStep asks for, and
\* a restart from the saved files (which already count the step being taken)
\* does not win any.
GradientsBackedByData ==
  \A l \in Learners :
    nGradSteps[l] > 0 =>
      (nGradSteps[l] - 1) * ObsNum <= nLocTimeStepsTrain(l) * ObsDen

\* From the moment training starts, through every removal of episodes and
\* every restart, the data set never shrinks below the observations that were
\* required to start: the gate stays armed and the sampler has data.
DataSetFloor ==
  \A l \in Learners :
    algoSubStepID[l] # -1 =>
      /\ nGatheredB4Startup[l] = NObsB4Start
      /\ nTransitions[l] >= NObsB4Start

\* checkNData of MemoryBuffer.cpp: the counters describe the stored episodes,
\* and every transition ever counted is stored, in progress, on its way
\* from the one to the other, or gone.
SumOver(S, f(_)) == MapThenSumSet(f, S)
Stored(l) == SumOver(Lengths, LAMBDA n : n * episodes[l][n])
Open(l) == SumOver({a \in Agents : LearnerOf(a) = l /\ inProgress[a] > 0},
                   LAMBDA a : inProgress[a] - 1)
Moving(l) == SumOver({h \in Handlers : hpc[h] = "pushBack" /\ MyLearner(h) = l},
                     LAMBDA h : hdone[h])
NotCounted(l) ==
  {h \in InFlight(l) : \/ hpc[h] \in {"terminate", "pushBack", "seenStep"}
                       \/ hpc[h] = "storeAction" /\ hstatus[h] = "CONT"}
TransitionsAccounted ==
  \A l \in Learners :
    /\ nTransitions[l] = Stored(l)
    /\ nEpisodes[l] = SumOver(Lengths, LAMBDA n : episodes[l][n])
    /\ nSeenTransitions_loc[l] + Cardinality(NotCounted(l))
         = nTransitions[l] + gone[l] + Open(l) + Moving(l)

\* Data acquisition and gradient steps never wait for each other for ever: the
\* required time steps are reached and every thread is joined.
TrainingEnds == <>(mpc = "over")
==============================================================================
