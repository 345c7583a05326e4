------------------------- MODULE LearnerLoop_proofs -------------------------
(* Proofs about LearnerLoop, for every number of environments, handlers,   *)
(* learners and every value of the parameters that LoopAssumption allows.  *)
EXTENDS LearnerLoop, FiniteSums, FiniteSetTheorems, TLAPS

\* What the parameters say of learners, agents and handlers: every agent has a
\* learner, every handler serves some agents.
LEMMA AgentFacts ==
  /\ Learners \subseteq Nat \ {0} /\ 1 \in Learners
  /\ \A a \in Agents : LearnerOf(a) \in Learners
  /\ \A a \in Agents : a[1] \in Envs /\ a[2] \in 1 .. AgentsPerEnv
  /\ \A h \in Handlers : Served(h) # {} /\ Served(h) \subseteq Agents
<1>1. NLearners \in Nat \ {0}
  BY LoopAssumption
<1>2. Learners \subseteq Nat \ {0} /\ 1 \in Learners
  BY <1>1 DEF Learners
<1>3. ASSUME NEW a \in Agents
      PROVE  a[1] \in Envs /\ a[2] \in 1 .. AgentsPerEnv /\ LearnerOf(a) \in Learners
  <2>1. a[1] \in Envs /\ a[2] \in 1 .. AgentsPerEnv
    BY DEF Agents
  <2>2. CASE NLearners > 1
    BY <2>1, <2>2, LoopAssumption DEF LearnerOf, Learners
  <2>3. CASE ~(NLearners > 1)
    BY <2>1, <2>3, <1>2 DEF LearnerOf
  <2> QED BY <2>1, <2>2, <2>3
<1>4. ASSUME NEW h \in Handlers
      PROVE  Served(h) # {} /\ Served(h) \subseteq Agents
  <2>1. PICK e \in Envs : HandlerOf[e] = h
    BY LoopAssumption
  <2>2. <<e, 1>> \in Agents
    BY LoopAssumption DEF Agents
  <2> QED BY <2>1, <2>2 DEF Served
<1> QED BY <1>2, <1>3, <1>4

\* A run begins well typed, trained from scratch or restarted.
LEMMA InitTypeOK == Init => TypeOK
<1> SUFFICES ASSUME Init PROVE TypeOK
  OBVIOUS
<1> USE LoopAssumption, AgentFacts
<1>0. bTrain \in BOOLEAN
  BY DEF Init
<1>1. hagent \in [Handlers -> Agents]
  BY DEF Init
<1>2. turn \in [Envs -> 1 .. AgentsPerEnv]
  BY DEF Init
<1>3. episodes \in [Learners -> [Lengths -> Nat]]
  BY DEF Init, EmptyBag
<1>4. saved \in [Learners -> {NoSave} \cup Files]
  BY DEF Init
<1>5. cur \in Learners /\ mpc \in MainPCs /\ hpc \in [Handlers -> HandlerPCs]
  BY DEF Init, MainPCs, HandlerPCs
<1>6. hstatus \in [Handlers -> Statuses] /\ dataset_mutex \in Learners \cup {NoLearner}
  BY DEF Init, Statuses
<1>7. /\ inProgress \in [Agents -> Nat]
      /\ isTrainingStarted \in BOOLEAN /\ bExit \in BOOLEAN /\ crashes \in Nat
  BY DEF Init
<1>9. hdone \in [Handlers -> Int]
  BY DEF Init
<1>8. /\ nEpisodes \in [Learners -> Int]
      /\ nTransitions \in [Learners -> Int]
      /\ nSeenEpisodes_loc \in [Learners -> Nat]
      /\ nSeenTransitions_loc \in [Learners -> Nat]
      /\ nGatheredB4Startup \in [Learners -> {NObsB4Start, LongMax}]
      /\ nGradSteps \in [Learners -> Nat]
      /\ algoSubStepID \in [Learners -> {-1, 0, 1}]
      /\ gone \in [Learners -> Int]
      /\ atStart \in [Learners -> Int]
  BY DEF Init
<1> QED BY <1>0, <1>1, <1>2, <1>3, <1>4, <1>5, <1>6, <1>7, <1>8, <1>9 DEF TypeOK

\* Counting one episode more of some length leaves a bag a bag.
LEMMA BumpType ==
  ASSUME NEW f \in [Lengths -> Nat], NEW d
  PROVE  [f EXCEPT ![d] = @ + 1] \in [Lengths -> Nat]
<1>1. CASE d \in Lengths
  BY <1>1
<1>2. CASE d \notin Lengths
  BY <1>2
<1> QED BY <1>1, <1>2

\* No step of a handler, of the main loop or of a crash breaks a type.
LEMMA TypeStep == TypeOK /\ [Next]_vars => TypeOK'
<1> SUFFICES ASSUME TypeOK, [Next]_vars PROVE TypeOK'
  OBVIOUS
<1> USE DEF TypeOK, HandlerGoto, MainGoto, Untouched, counterVars,
        mainVars, handlerVars, bufferVars, diskVars, histVars
<1>m. bTrain' = bTrain
  BY DEF Next, vars
<1> USE <1>m
<1>0. \A h \in Handlers : MyLearner(h) \in Learners
  BY AgentFacts DEF MyLearner
<1>1. ASSUME NEW h \in Handlers, PassGate(h) PROVE TypeOK'
  <2>1. hpc' \in [Handlers -> HandlerPCs]
    BY <1>1 DEF PassGate, HandlerPCs
  <2> QED
    BY <1>1, <2>1 DEF PassGate
<1>2. ASSUME NEW h \in Handlers, ExitAtGate(h) PROVE TypeOK'
  <2>1. hpc' \in [Handlers -> HandlerPCs]
    BY <1>2 DEF ExitAtGate, HandlerPCs
  <2> QED
    BY <1>2, <2>1 DEF ExitAtGate
<1>3. ASSUME NEW h \in Handlers, storeState(h) PROVE TypeOK'
  <2>1. hpc' \in [Handlers -> HandlerPCs]
    BY <1>3 DEF storeState, HandlerPCs
  <2>2. inProgress' \in [Agents -> Nat]
    BY <1>3 DEF storeState
  <2> QED
    BY <1>3, <2>1, <2>2 DEF storeState
<1>4. ASSUME NEW h \in Handlers, storeAction(h) PROVE TypeOK'
  <2>1. hpc' \in [Handlers -> HandlerPCs]
    BY <1>4 DEF storeAction, HandlerPCs
  <2>2. nSeenTransitions_loc' \in [Learners -> Nat]
    BY <1>4, <1>0 DEF storeAction
  <2> QED
    BY <1>4, <2>1, <2>2 DEF storeAction
<1>5. ASSUME NEW h \in Handlers, terminateCurrentEpisode(h) PROVE TypeOK'
  <2>1. hpc' \in [Handlers -> HandlerPCs]
    BY <1>5 DEF terminateCurrentEpisode, HandlerPCs
  <2>2. inProgress' \in [Agents -> Nat] /\ hdone' \in [Handlers -> Int]
    BY <1>5 DEF terminateCurrentEpisode
  <2> QED
    BY <1>5, <2>1, <2>2 DEF terminateCurrentEpisode
<1>6. ASSUME NEW h \in Handlers, pushBackEpisode(h) PROVE TypeOK'
  <2>1. hpc' \in [Handlers -> HandlerPCs]
    BY <1>6 DEF pushBackEpisode, HandlerPCs
  <2>2. episodes' \in [Learners -> [Lengths -> Nat]]
    BY <1>6, <1>0, BumpType DEF pushBackEpisode
  <2>3. nEpisodes' \in [Learners -> Int] /\ nTransitions' \in [Learners -> Int]
    BY <1>6, <1>0 DEF pushBackEpisode
  <2> QED
    BY <1>6, <2>1, <2>2, <2>3 DEF pushBackEpisode
<1>7. ASSUME NEW h \in Handlers, increaseLocalSeenSteps(h) PROVE TypeOK'
  <2>1. hpc' \in [Handlers -> HandlerPCs]
    BY <1>7 DEF increaseLocalSeenSteps, HandlerPCs
  <2>2. nSeenTransitions_loc' \in [Learners -> Nat]
    BY <1>7, <1>0 DEF increaseLocalSeenSteps
  <2> QED
    BY <1>7, <2>1, <2>2 DEF increaseLocalSeenSteps
<1>8. ASSUME NEW h \in Handlers, increaseLocalSeenEps(h) PROVE TypeOK'
  <2>1. hpc' \in [Handlers -> HandlerPCs]
    BY <1>8 DEF increaseLocalSeenEps, HandlerPCs
  <2>2. nSeenEpisodes_loc' \in [Learners -> Nat] /\ hdone' \in [Handlers -> Int]
    BY <1>8, <1>0 DEF increaseLocalSeenEps
  <2> QED
    BY <1>8, <2>1, <2>2 DEF increaseLocalSeenEps
<1>9. ASSUME NEW h \in Handlers, Reply(h) PROVE TypeOK'
  <2>1. hpc' \in [Handlers -> HandlerPCs]
    BY <1>9 DEF Reply, HandlerPCs
  <2>2. hstatus' \in [Handlers -> Statuses]
    BY <1>9 DEF Reply, Statuses
  <2> QED
    BY <1>9, <2>1, <2>2 DEF Reply
<1>10. ASSUME NEW h \in Handlers, NEW status \in Statuses, NEW a \in Served(h),
           Receive(h, a, status)
      PROVE  TypeOK'
  <2>1. hpc' \in [Handlers -> HandlerPCs]
    BY <1>10 DEF Receive, HandlerPCs
  <2>2. hagent' \in [Handlers -> Agents] /\ hstatus' \in [Handlers -> Statuses]
    BY <1>10, AgentFacts DEF Receive
  <2>3. \A t \in 1 .. AgentsPerEnv : (t % AgentsPerEnv) + 1 \in 1 .. AgentsPerEnv
    BY <1>10, LoopAssumption DEF Receive
  <2>4. turn' \in [Envs -> 1 .. AgentsPerEnv]
    BY <1>10, <2>3 DEF Receive
  <2> QED
    BY <1>10, <2>1, <2>2, <2>3, <2>4 DEF Receive
<1>11. CASE stepInit
  <2>1. mpc' \in MainPCs
    BY <1>11 DEF stepInit, MainPCs
  <2>2. algoSubStepID' \in [Learners -> {-1, 0, 1}]
    BY <1>11 DEF stepInit
  <2>3. nGatheredB4Startup' \in [Learners -> {NObsB4Start, LongMax}]
    BY <1>11 DEF stepInit
  <2>4. atStart' \in [Learners -> Int]
    BY <1>11, <2>3, LoopAssumption DEF stepInit
  <2> QED
    BY <1>11, <2>1, <2>2, <2>3, <2>4 DEF stepInit
<1>12. CASE stepMain
  <2>1. mpc' \in MainPCs
    BY <1>12 DEF stepMain, MainPCs
  <2>2. dataset_mutex' \in Learners \cup {NoLearner}
    BY <1>12 DEF stepMain
  <2> QED
    BY <1>12, <2>1, <2>2 DEF stepMain
<1>13. CASE removalDone
  <2>1. mpc' \in MainPCs
    BY <1>13 DEF removalDone, MainPCs
  <2>2. dataset_mutex' \in Learners \cup {NoLearner}
    BY <1>13 DEF removalDone
  <2> QED
    BY <1>13, <2>1, <2>2 DEF removalDone
<1>14. CASE logStats
  <2>1. mpc' \in MainPCs
    BY <1>14 DEF logStats, MainPCs
  <2>2. Snapshot(cur) \in Files
    BY <1>14 DEF logStats, Snapshot, Files
  <2>3. saved' \in [Learners -> {NoSave} \cup Files]
    BY <1>14, <2>2 DEF logStats
  <2>4. algoSubStepID' \in [Learners -> {-1, 0, 1}]
    BY <1>14 DEF logStats
  <2> QED
    BY <1>14, <2>1, <2>2, <2>3, <2>4 DEF logStats
<1>15. CASE isOver
  <2>1. mpc' \in MainPCs
    BY <1>15 DEF isOver, MainPCs
  <2>2. isTrainingStarted' \in BOOLEAN
    BY <1>15 DEF isOver
  <2>3. bExit' \in BOOLEAN
    BY <1>15, LoopAssumption DEF isOver, isOverTraining, isOverTesting
  <2> QED
    BY <1>15, <2>1, <2>2, <2>3 DEF isOver
<1>16. CASE Join
  <2>1. mpc' \in MainPCs
    BY <1>16 DEF Join, MainPCs
  <2> QED
    BY <1>16, <2>1 DEF Join
<1>17. ASSUME NEW k \in Lengths, removeBackEpisode(k) PROVE TypeOK'
  <2>1. k \in Int
    BY <1>17, LoopAssumption DEF removeBackEpisode, Lengths
  <2>2. episodes' \in [Learners -> [Lengths -> Nat]]
    BY <1>17 DEF removeBackEpisode, Removable
  <2>3. nEpisodes' \in [Learners -> Int] /\ nTransitions' \in [Learners -> Int]
    BY <1>17, <2>1 DEF removeBackEpisode
  <2>4. gone' \in [Learners -> Int]
    BY <1>17, <2>1 DEF removeBackEpisode
  <2> QED
    BY <1>17, <2>1, <2>2, <2>3, <2>4 DEF removeBackEpisode
<1>18. ASSUME NEW reduced \in BOOLEAN, stepComplete(reduced) PROVE TypeOK'
  <2>1. mpc' \in MainPCs
    BY <1>18 DEF stepComplete, MainPCs
  <2>2. cur' \in Learners
    BY <1>18, LoopAssumption DEF stepComplete, Learners
  <2>3. nGradSteps' \in [Learners -> Nat]
    BY <1>18 DEF stepComplete
  <2>4. algoSubStepID' \in [Learners -> {-1, 0, 1}]
    BY <1>18 DEF stepComplete
  <2> QED
    BY <1>18, <2>1, <2>2, <2>3, <2>4 DEF stepComplete
<1>19. CASE CrashAndRestart
  <2>1. \A l \in Learners : saved[l].present => saved[l] \in Files
    BY <1>19 DEF CrashAndRestart, NoSave
  <2>2. \A l \in Learners : saved[l].present =>
        saved[l].nEpisodes \in Int /\ saved[l].nTransitions \in Int
    BY <1>19, <2>1 DEF CrashAndRestart, Files
  <2>3. episodes' \in [Learners -> [Lengths -> Nat]]
    BY <1>19, <2>1 DEF CrashAndRestart, Loaded, Files, EmptyBag
  <2>4. nEpisodes' \in [Learners -> Int]
    BY <1>19, <2>2 DEF CrashAndRestart, Loaded
  <2>5. nTransitions' \in [Learners -> Int]
    BY <1>19, <2>2 DEF CrashAndRestart, Loaded
  <2>6. nSeenEpisodes_loc' \in [Learners -> Nat] /\ nSeenTransitions_loc' \in [Learners -> Nat]
    BY <1>19, <2>1 DEF CrashAndRestart, Loaded, Files
  <2>7. nGatheredB4Startup' \in [Learners -> {NObsB4Start, LongMax}]
    BY <1>19, <2>1 DEF CrashAndRestart, Loaded, Files
  <2>8. nGradSteps' \in [Learners -> Nat]
    BY <1>19, <2>1 DEF CrashAndRestart, Loaded, Files
  <2>9. gone' \in [Learners -> Int] /\ atStart' \in [Learners -> Int]
    BY <1>19, <2>5, <2>6, <2>7, LoopAssumption DEF CrashAndRestart
  <2>10. inProgress' \in [Agents -> Nat] /\ turn' \in [Envs -> 1 .. AgentsPerEnv]
    BY <1>19, LoopAssumption DEF CrashAndRestart
  <2>11. algoSubStepID' \in [Learners -> {-1, 0, 1}]
    BY <1>19 DEF CrashAndRestart
  <2>12. mpc' \in MainPCs /\ cur' \in Learners /\ dataset_mutex' \in Learners \cup {NoLearner}
    BY <1>19, AgentFacts DEF CrashAndRestart, MainPCs
  <2>13. hpc' \in [Handlers -> HandlerPCs] /\ hdone' \in [Handlers -> Int]
    BY <1>19 DEF CrashAndRestart, HandlerPCs
  <2>14. isTrainingStarted' \in BOOLEAN /\ bExit' \in BOOLEAN /\ crashes' \in Nat
    <3>1. isTrainingStarted' \in BOOLEAN /\ bExit' \in BOOLEAN
      BY <1>19, Zenon DEF CrashAndRestart
    <3>2. crashes' \in Nat
      BY <1>19 DEF CrashAndRestart
    <3> QED BY <3>1, <3>2
  <2>15. /\ hagent' \in [Handlers -> Agents] /\ hstatus' \in [Handlers -> Statuses]
         /\ saved' \in [Learners -> {NoSave} \cup Files]
    BY <1>19 DEF CrashAndRestart
  <2> QED
    BY <2>3, <2>4, <2>5, <2>6, <2>7, <2>8, <2>9, <2>10, <2>11, <2>12, <2>13,
       <2>14, <2>15
<1>20. CASE UNCHANGED vars
  BY <1>20 DEF vars, loopVars
<1> QED
  BY <1>1, <1>2, <1>3, <1>4, <1>5, <1>6, <1>7, <1>8, <1>9, <1>10, <1>11, <1>12, <1>13, <1>14, <1>15, <1>16, <1>17, <1>18, <1>19, <1>20
  DEF Next, Step, MainStep, vars, Answer

\* Every variable keeps its type in every behaviour, crashes included.
THEOREM TypeCorrect == Spec => []TypeOK
<1>1. Init => TypeOK
  BY InitTypeOK
<1>2. TypeOK /\ [Next]_vars => TypeOK'
  BY TypeStep
<1> QED
  BY <1>1, <1>2, PTL DEF Spec

------------------------------------------------------------------------------
(* The inductive invariant.  DataSetFloor and GradientsBackedByData are not  *)
(* inductive: a gradient step is completed long after stepMain tested the    *)
(* gate, and a restart takes its counters from the files.                    *)

\* A handler works for its own environments, on an episode that has a state.
HandlerInv ==
  \A h \in Handlers :
    /\ hagent[h] \in Served(h)
    /\ hpc[h] = "terminate" => inProgress[hagent[h]] >= 1
    /\ hpc[h] = "pushBack" => hdone[h] >= 0

\* Learner l is between the test of blockGradientUpdates and the update.
Stepping(l) ==
  algoSubStepID[l] = 1 \/ (mpc \in {"removal", "logStats"} /\ cur = l)

Backed(grads, obs) == grads * ObsNum <= obs * ObsDen

StepInv ==
  \A l \in Learners :
    /\ Stepping(l) => /\ algoSubStepID[l] # -1
                      /\ Backed(nGradSteps[l], nLocTimeStepsTrain(l))
    /\ nGradSteps[l] > 0 => nGatheredB4Startup[l] = NObsB4Start

\* The files of a learner hold a state from which the invariant holds.
SavedInv ==
  \A l \in Learners :
    saved[l].present =>
      /\ saved[l] \in Files
      /\ saved[l].nGatheredB4Startup = NObsB4Start
      /\ Backed(saved[l].nGradSteps - 1, saved[l].nSeenTransitions_loc - NObsB4Start)

\* An evaluation never runs a learner's tasks.
EvaluationInv ==
  ~bTrain => /\ mpc \in {"isOver", "join", "over"}
             /\ \A l \in Learners : algoSubStepID[l] = -1

IInv ==
  /\ TypeOK
  /\ HandlerInv
  /\ StepInv
  /\ SavedInv
  /\ EvaluationInv
  /\ DataSetFloor
  /\ GradientsBackedByData

\* No agent is served by two handlers (the shares of shareWorkers).
LEMMA ServedApart ==
  \A h, k \in Handlers : \A a \in Served(h), b \in Served(k) : a = b => h = k
BY DEF Served

\* A handler serves its own agents only, and the episode that it terminates or
\* pushes back is there: other handlers do not touch it.
LEMMA HandlerStep == TypeOK /\ HandlerInv /\ [Next]_vars => HandlerInv'
<1> SUFFICES ASSUME TypeOK, HandlerInv, [Next]_vars,
                    NEW k \in Handlers
             PROVE  /\ hagent'[k] \in Served(k)
                    /\ hpc'[k] = "terminate" => inProgress'[hagent'[k]] >= 1
                    /\ hpc'[k] = "pushBack" => hdone'[k] >= 0
  BY DEF HandlerInv
<1>0. /\ hpc \in [Handlers -> HandlerPCs] /\ hdone \in [Handlers -> Int]
      /\ inProgress \in [Agents -> Nat] /\ hagent \in [Handlers -> Agents]
  BY DEF TypeOK
<1>1. \A h \in Handlers :
        /\ hagent[h] \in Served(h)
        /\ hpc[h] = "terminate" => inProgress[hagent[h]] >= 1
        /\ hpc[h] = "pushBack" => hdone[h] >= 0
  BY DEF HandlerInv
<1>a. UNCHANGED <<hpc, hagent, hdone, inProgress>> =>
        /\ hagent'[k] \in Served(k)
        /\ hpc'[k] = "terminate" => inProgress'[hagent'[k]] >= 1
        /\ hpc'[k] = "pushBack" => hdone'[k] >= 0
  BY <1>1
<1>2. ASSUME NEW h \in Handlers, PassGate(h) \/ ExitAtGate(h)
                 \/ pushBackEpisode(h) \/ increaseLocalSeenSteps(h)
      PROVE  HandlerInv'
  BY <1>0, <1>1, <1>2
  DEF HandlerInv, PassGate, ExitAtGate, pushBackEpisode, increaseLocalSeenSteps,
      HandlerGoto, bufferVars
<1>3. ASSUME NEW h \in Handlers, storeState(h)
      PROVE  HandlerInv'
  <2>1. inProgress' = [inProgress EXCEPT ![hagent[h]] = @ + 1]
        /\ UNCHANGED <<hagent, hdone>>
        /\ \A i \in Handlers : i # h => hpc'[i] = hpc[i]
        /\ hpc'[h] \in {"terminate", "storeAction"}
    BY <1>3, <1>0 DEF storeState, HandlerGoto
  <2>2. \A a \in Agents : inProgress'[a] >= inProgress[a]
                          /\ inProgress[a] \in Nat /\ inProgress'[a] \in Nat
    BY <2>1, <1>0
  <2>3. inProgress'[hagent[h]] >= 1
    BY <2>1, <1>0
  <2>4. ASSUME NEW i \in Handlers
        PROVE  /\ hagent'[i] \in Served(i)
               /\ hpc'[i] = "terminate" => inProgress'[hagent'[i]] >= 1
               /\ hpc'[i] = "pushBack" => hdone'[i] >= 0
    <3>1. CASE i = h
      <4>1. hagent'[h] \in Served(h) /\ inProgress'[hagent'[h]] >= 1
        BY <2>1, <2>3, <1>1
      <4>2. hpc'[h] # "pushBack"
        BY <1>3, <1>0 DEF storeState, HandlerGoto
      <4> QED BY <3>1, <4>1, <4>2
    <3>2. CASE i # h
      <4>1. hagent[i] \in Agents
        BY <1>0
      <4> QED BY <3>2, <4>1, <2>1, <2>2, <1>1
    <3> QED BY <3>1, <3>2
  <2> QED BY <2>4 DEF HandlerInv
<1>4. ASSUME NEW h \in Handlers, storeAction(h) \/ increaseLocalSeenEps(h) \/ Reply(h)
      PROVE  HandlerInv'
  BY <1>0, <1>1, <1>4
  DEF HandlerInv, storeAction, increaseLocalSeenEps, Reply, HandlerGoto, bufferVars
<1>5. ASSUME NEW h \in Handlers, terminateCurrentEpisode(h)
      PROVE  HandlerInv'
  <2>1. /\ hpc[h] = "terminate"
        /\ hdone' = [hdone EXCEPT ![h] = inProgress[hagent[h]] - 1]
        /\ inProgress' = [inProgress EXCEPT ![hagent[h]] = 0]
        /\ hpc' = [hpc EXCEPT ![h] = "pushBack"]
        /\ hagent' = hagent
    BY <1>5 DEF terminateCurrentEpisode, HandlerGoto
  <2>2. hdone'[h] >= 0
    BY <2>1, <1>0, <1>1
  <2>3. ASSUME NEW i \in Handlers, i # h
        PROVE  inProgress'[hagent[i]] = inProgress[hagent[i]]
    <3>1. hagent[i] # hagent[h]
      BY <2>3, <1>1, ServedApart
    <3> QED BY <3>1, <2>1, <1>0
  <2>4. ASSUME NEW i \in Handlers
        PROVE  /\ hagent'[i] \in Served(i)
               /\ hpc'[i] = "terminate" => inProgress'[hagent'[i]] >= 1
               /\ hpc'[i] = "pushBack" => hdone'[i] >= 0
    <3>1. CASE i = h
      BY <3>1, <2>1, <2>2, <1>0, <1>1
    <3>2. CASE i # h
      BY <3>2, <2>1, <2>3, <1>0, <1>1
    <3> QED BY <3>1, <3>2
  <2> QED BY <2>4 DEF HandlerInv
<1>6. ASSUME NEW h \in Handlers, NEW status \in Statuses, NEW a \in Served(h),
             Receive(h, a, status)
      PROVE  HandlerInv'
  <2>1. /\ hpc[h] = "test" /\ hpc' = [hpc EXCEPT ![h] = "gate"]
        /\ hagent' = [hagent EXCEPT ![h] = a]
        /\ UNCHANGED <<inProgress, hdone>>
    BY <1>6 DEF Receive, HandlerGoto
  <2> QED BY <2>1, <1>0, <1>1, <1>6 DEF HandlerInv
<1>7. CASE CrashAndRestart
  <2>1. /\ hpc' = [h \in Handlers |-> "test"]
        /\ hagent' = hagent
    BY <1>7 DEF CrashAndRestart
  <2> QED BY <2>1, <1>1
<1>8. ASSUME NEW n \in Lengths, removeBackEpisode(n)
      PROVE  UNCHANGED <<hpc, hagent, hdone, inProgress>>
  BY <1>8 DEF removeBackEpisode, handlerVars
<1>9. ASSUME NEW reduced \in BOOLEAN, stepComplete(reduced)
      PROVE  UNCHANGED <<hpc, hagent, hdone, inProgress>>
  BY <1>9 DEF stepComplete, Untouched, handlerVars, bufferVars
<1>10. ASSUME stepInit \/ stepMain \/ removalDone \/ logStats \/ isOver \/ Join
       PROVE  UNCHANGED <<hpc, hagent, hdone, inProgress>>
  BY <1>10 DEF stepInit, stepMain, removalDone, logStats, isOver, Join, Untouched,
               handlerVars, bufferVars
<1>11. CASE UNCHANGED vars
  BY <1>11, <1>a DEF vars, loopVars, handlerVars, bufferVars
<1>12. ASSUME HandlerInv'
       PROVE  /\ hagent'[k] \in Served(k)
              /\ hpc'[k] = "terminate" => inProgress'[hagent'[k]] >= 1
              /\ hpc'[k] = "pushBack" => hdone'[k] >= 0
  BY <1>12 DEF HandlerInv
<1> QED
  BY <1>a, <1>2, <1>3, <1>4, <1>5, <1>6, <1>7, <1>8, <1>9, <1>10, <1>11, <1>12
  DEF Next, Step, MainStep, vars, Answer

\* More observations are worth more steps.
LEMMA TimesMono ==
  ASSUME NEW o \in Int, NEW p \in Int, NEW d \in Nat, o <= p
  PROVE  o * d <= p * d
<1>1. (p - o) * d >= 0
  BY SMT
<1> QED BY <1>1, SMT

\* A number of steps backed by the data stays so when more data is seen.
LEMMA BackedMono ==
  ASSUME NEW g \in Int, NEW o \in Int, NEW p \in Int, o <= p, Backed(g, o)
  PROVE  Backed(g, p)
<1>1. o * ObsDen <= p * ObsDen
  BY TimesMono, LoopAssumption
<1>2. /\ g * ObsNum \in Int /\ o * ObsDen \in Int /\ p * ObsDen \in Int
  BY LoopAssumption
<1> QED BY <1>1, <1>2 DEF Backed

Core ==
  StepInv /\ SavedInv /\ EvaluationInv /\ DataSetFloor /\ GradientsBackedByData

\* Steps that leave the scheduling alone: observations are only added, and the
\* data set does not fall below its floor.
LEMMA Quiet ==
  ASSUME TypeOK, TypeOK', Core,
         UNCHANGED <<nGatheredB4Startup, nGradSteps, algoSubStepID, saved>>,
         EvaluationInv',
         \A l \in Learners :
           /\ nSeenTransitions_loc'[l] >= nSeenTransitions_loc[l]
           /\ nTransitions[l] >= NObsB4Start => nTransitions'[l] >= NObsB4Start
           /\ Stepping(l)' => Stepping(l)
  PROVE  Core'
<1>1. \A l \in Learners :
        /\ nLocTimeStepsTrain(l) \in Int /\ nLocTimeStepsTrain(l)' \in Int
        /\ nLocTimeStepsTrain(l) <= nLocTimeStepsTrain(l)'
        /\ nGradSteps[l] \in Nat
  <2> SUFFICES ASSUME NEW l \in Learners
               PROVE  /\ nLocTimeStepsTrain(l) \in Int /\ nLocTimeStepsTrain(l)' \in Int
                      /\ nLocTimeStepsTrain(l) <= nLocTimeStepsTrain(l)'
                      /\ nGradSteps[l] \in Nat
    OBVIOUS
  <2>1. nSeenTransitions_loc[l] \in Nat /\ nGradSteps[l] \in Nat
        /\ nGatheredB4Startup[l] \in {NObsB4Start, LongMax}
    BY DEF TypeOK
  <2>2. nSeenTransitions_loc'[l] \in Nat
    BY DEF TypeOK
  <2> QED BY <2>1, <2>2, LoopAssumption DEF nLocTimeStepsTrain
<1>2. StepInv'
  BY <1>1, BackedMono DEF Core, StepInv
<1>3. SavedInv'
  BY DEF Core, SavedInv
<1>4. DataSetFloor'
  BY DEF Core, DataSetFloor
<1>5. GradientsBackedByData'
  <2>1. ASSUME NEW l \in Learners, nGradSteps'[l] > 0
        PROVE  Backed(nGradSteps[l] - 1, nLocTimeStepsTrain(l))
    BY <2>1, <1>1 DEF Core, GradientsBackedByData, Backed
  <2>2. ASSUME NEW l \in Learners, nGradSteps'[l] > 0
        PROVE  Backed(nGradSteps[l] - 1, nLocTimeStepsTrain(l)')
    BY <2>1, <2>2, <1>1, BackedMono
  <2> QED BY <2>2 DEF GradientsBackedByData, Backed
<1> QED BY <1>2, <1>3, <1>4, <1>5 DEF Core

\* The types of what the scheduling reads, learner by learner.
LEMMA Typed ==
  TypeOK => \A l \in Learners :
              /\ nSeenTransitions_loc[l] \in Nat /\ nGradSteps[l] \in Nat
              /\ nTransitions[l] \in Int
              /\ nGatheredB4Startup[l] \in {NObsB4Start, LongMax}
              /\ nLocTimeStepsTrain(l) \in Int
              /\ algoSubStepID[l] \in {-1, 0, 1}
<1> SUFFICES ASSUME TypeOK, NEW l \in Learners
             PROVE  /\ nSeenTransitions_loc[l] \in Nat /\ nGradSteps[l] \in Nat
                    /\ nTransitions[l] \in Int
                    /\ nGatheredB4Startup[l] \in {NObsB4Start, LongMax}
                    /\ nLocTimeStepsTrain(l) \in Int
                    /\ algoSubStepID[l] \in {-1, 0, 1}
  OBVIOUS
<1>1. /\ nSeenTransitions_loc[l] \in Nat /\ nGradSteps[l] \in Nat
      /\ nTransitions[l] \in Int
      /\ nGatheredB4Startup[l] \in {NObsB4Start, LongMax}
      /\ algoSubStepID[l] \in {-1, 0, 1}
  BY DEF TypeOK
<1> QED BY <1>1, LoopAssumption DEF nLocTimeStepsTrain

\* What every step of a handler does to the scheduling.
LEMMA HandlerQuiet ==
  ASSUME TypeOK, HandlerInv, NEW h \in Handlers,
         Answer(h) \/ \E status \in Statuses : \E a \in Served(h) : Receive(h, a, status)
  PROVE  /\ UNCHANGED <<nGatheredB4Startup, nGradSteps, algoSubStepID, saved, mpc,
                        cur, atStart, dataset_mutex, crashes>>
         /\ \A l \in Learners : nSeenTransitions_loc'[l] >= nSeenTransitions_loc[l]
         /\ \A l \in Learners : nTransitions'[l] >= nTransitions[l]
<1> USE DEF counterVars, mainVars, diskVars, histVars, bufferVars
<1>0. /\ nSeenTransitions_loc \in [Learners -> Nat]
      /\ nTransitions \in [Learners -> Int]
      /\ hdone \in [Handlers -> Int]
  BY DEF TypeOK
<1>1. CASE PassGate(h) \/ ExitAtGate(h)
  BY <1>0, <1>1 DEF PassGate, ExitAtGate
<1>2. CASE storeState(h) \/ terminateCurrentEpisode(h) \/ Reply(h)
  BY <1>0, <1>2 DEF storeState, terminateCurrentEpisode, Reply
<1>3. CASE storeAction(h)
  BY <1>0, <1>3 DEF storeAction
<1>4. CASE increaseLocalSeenSteps(h) \/ increaseLocalSeenEps(h)
  BY <1>0, <1>4 DEF increaseLocalSeenSteps, increaseLocalSeenEps
<1>5. CASE pushBackEpisode(h)
  <2>1. hdone[h] >= 0 /\ hdone[h] \in Int
    BY <1>0, <1>5 DEF HandlerInv, pushBackEpisode
  <2> QED BY <1>0, <1>5, <2>1 DEF pushBackEpisode
<1>6. CASE \E status \in Statuses : \E a \in Served(h) : Receive(h, a, status)
  BY <1>0, <1>6 DEF Receive
<1> QED BY <1>1, <1>2, <1>3, <1>4, <1>5, <1>6 DEF Answer

LEMMA CoreStep == TypeOK /\ HandlerInv /\ Core /\ [Next]_vars => Core'
<1> SUFFICES ASSUME TypeOK, HandlerInv, Core, [Next]_vars PROVE Core'
  OBVIOUS
<1>m. bTrain' = bTrain
  BY DEF Next, vars
<1> USE <1>m
<1>t. TypeOK'
  BY TypeStep
<1>u. /\ nSeenTransitions_loc \in [Learners -> Nat]
      /\ nGradSteps \in [Learners -> Nat]
      /\ nTransitions \in [Learners -> Int]
      /\ nGatheredB4Startup \in [Learners -> {NObsB4Start, LongMax}]
      /\ algoSubStepID \in [Learners -> {-1, 0, 1}]
      /\ cur \in Learners
  BY DEF TypeOK
<1>v. /\ \A l \in Learners :
           /\ Stepping(l) => /\ algoSubStepID[l] # -1
                             /\ Backed(nGradSteps[l], nLocTimeStepsTrain(l))
           /\ nGradSteps[l] > 0 => nGatheredB4Startup[l] = NObsB4Start
      /\ \A l \in Learners : algoSubStepID[l] # -1 =>
           nGatheredB4Startup[l] = NObsB4Start /\ nTransitions[l] >= NObsB4Start
      /\ \A l \in Learners : nGradSteps[l] > 0 =>
           Backed(nGradSteps[l] - 1, nLocTimeStepsTrain(l))
  BY DEF Core, StepInv, DataSetFloor, GradientsBackedByData, Backed
<1>w. /\ ~bTrain => /\ mpc \in {"isOver", "join", "over"}
                    /\ \A l \in Learners : algoSubStepID[l] = -1
      /\ SavedInv
  BY DEF Core, EvaluationInv
<1>1. ASSUME NEW h \in Handlers,
             Answer(h) \/ \E status \in Statuses : \E a \in Served(h) : Receive(h, a, status)
      PROVE  Core'
  <2>1. /\ UNCHANGED <<nGatheredB4Startup, nGradSteps, algoSubStepID, saved, mpc, cur>>
        /\ \A l \in Learners : nSeenTransitions_loc'[l] >= nSeenTransitions_loc[l]
        /\ \A l \in Learners : nTransitions'[l] >= nTransitions[l]
    BY <1>1, HandlerQuiet
  <2>2. \A l \in Learners : Stepping(l)' => Stepping(l)
    BY <2>1 DEF Stepping
  <2>3. EvaluationInv'
    BY <2>1, <1>w DEF EvaluationInv
  <2>4. \A l \in Learners : nTransitions[l] >= NObsB4Start => nTransitions'[l] >= NObsB4Start
    <3>1. \A l \in Learners : nTransitions[l] \in Int /\ nTransitions'[l] \in Int
      BY <1>t, Typed DEF TypeOK
    <3> QED BY <2>1, <3>1, LoopAssumption
  <2> QED BY <2>1, <2>2, <2>3, <2>4, <1>t, Quiet
<1>2. ASSUME NEW n \in Lengths, removeBackEpisode(n)
      PROVE  Core'
  <2>1. /\ mpc = "removal"
        /\ nTransitions[cur] - (n + 1) > MaxTotObs
        /\ nTransitions' = [nTransitions EXCEPT ![cur] = @ - n]
        /\ UNCHANGED <<nGatheredB4Startup, nGradSteps, algoSubStepID, saved, mpc, cur,
                       nSeenTransitions_loc>>
    BY <1>2 DEF removeBackEpisode, Removable, mainVars, diskVars
  <2>2. \A l \in Learners : Stepping(l)' => Stepping(l)
    BY <2>1 DEF Stepping
  <2>3. EvaluationInv'
    BY <2>1, <1>w DEF EvaluationInv
  <2>4. ASSUME NEW l \in Learners, nTransitions[l] >= NObsB4Start
        PROVE  nTransitions'[l] >= NObsB4Start
    <3>1. n \in Int /\ nTransitions[cur] \in Int
      BY <1>u, LoopAssumption DEF Lengths
    <3> QED BY <2>1, <2>4, <3>1, <1>u, LoopAssumption
  <2>5. \A l \in Learners : nSeenTransitions_loc'[l] >= nSeenTransitions_loc[l]
    BY <2>1, <1>u
  <2> QED BY <2>1, <2>2, <2>3, <2>4, <2>5, <1>t, Quiet
<1>3. CASE removalDone \/ isOver \/ Join
  <2>1. /\ mpc \in {"removal", "isOver", "join"}
        /\ mpc = "removal" => mpc' = "logStats"
        /\ mpc = "isOver" => mpc' \in {"join", "stepInit", "isOver"}
                             /\ (mpc' = "stepInit" => bTrain)
        /\ mpc = "join" => mpc' = "over"
        /\ UNCHANGED <<nGatheredB4Startup, nGradSteps, algoSubStepID, saved, cur,
                       nSeenTransitions_loc, nTransitions>>
    BY <1>3 DEF removalDone, isOver, Join, MainGoto, Untouched, counterVars, diskVars
  <2>2. \A l \in Learners : Stepping(l)' => Stepping(l)
    BY <2>1 DEF Stepping
  <2>3. EvaluationInv'
    BY <2>1, <1>w DEF EvaluationInv
  <2>4. \A l \in Learners : nSeenTransitions_loc'[l] >= nSeenTransitions_loc[l]
    BY <2>1, <1>u
  <2> QED BY <2>1, <2>2, <2>3, <2>4, <1>t, Quiet
<1>4. CASE stepInit
  <2>1. /\ mpc = "stepInit" /\ mpc' = "stepMain" /\ cur' = cur
        /\ UNCHANGED <<nGradSteps, saved, nSeenTransitions_loc, nTransitions>>
    BY <1>4 DEF stepInit, MainGoto, Untouched, diskVars
  <2>2. bTrain
    BY <2>1, <1>w
  <2>3. CASE ~(algoSubStepID[cur] = -1 /\ nTransitions[cur] >= NObsB4Start)
    <3>1. UNCHANGED <<nGatheredB4Startup, algoSubStepID>>
      BY <1>4, <2>3 DEF stepInit
    <3>2. \A l \in Learners : Stepping(l)' => Stepping(l)
      BY <2>1, <3>1 DEF Stepping
    <3>3. EvaluationInv'
      BY <2>2 DEF EvaluationInv
    <3>4. \A l \in Learners : nSeenTransitions_loc'[l] >= nSeenTransitions_loc[l]
      BY <2>1, <1>u
    <3> QED BY <2>1, <3>1, <3>2, <3>3, <3>4, <1>t, Quiet
  <2>4. CASE algoSubStepID[cur] = -1 /\ nTransitions[cur] >= NObsB4Start
    <3>1. algoSubStepID' = [algoSubStepID EXCEPT ![cur] = 0]
      BY <1>4, <2>4 DEF stepInit
    <3>2. nGatheredB4Startup' =
            IF nGradSteps[cur] = 0 THEN [nGatheredB4Startup EXCEPT ![cur] = NObsB4Start]
                                   ELSE nGatheredB4Startup
      BY <1>4, <2>4 DEF stepInit
    <3>3. /\ \A l \in Learners : l # cur =>
               /\ algoSubStepID'[l] = algoSubStepID[l]
               /\ nGatheredB4Startup'[l] = nGatheredB4Startup[l]
               /\ nLocTimeStepsTrain(l)' = nLocTimeStepsTrain(l)
          /\ algoSubStepID'[cur] = 0
          /\ nGatheredB4Startup'[cur] = NObsB4Start
      BY <2>1, <3>1, <3>2, <1>u, <1>v DEF nLocTimeStepsTrain
    <3>4. \A l \in Learners : l = cur /\ nGradSteps[l] > 0 =>
            nLocTimeStepsTrain(l)' = nLocTimeStepsTrain(l)
      BY <2>1, <3>2, <1>u DEF nLocTimeStepsTrain
    <3>5. \A l \in Learners : Stepping(l)' => l # cur /\ Stepping(l)
      BY <2>1, <3>3 DEF Stepping
    <3>6. StepInv'
      BY <2>1, <3>3, <3>5, <1>v DEF StepInv, Backed
    <3>7. SavedInv'
      BY <2>1, <1>w DEF SavedInv
    <3>8. EvaluationInv'
      BY <2>2 DEF EvaluationInv
    <3>9. DataSetFloor'
      BY <2>1, <2>4, <3>3, <1>v DEF DataSetFloor
    <3>10. GradientsBackedByData'
      <4>1. ASSUME NEW l \in Learners, nGradSteps[l] > 0
            PROVE  nLocTimeStepsTrain(l)' = nLocTimeStepsTrain(l)
        <5>1. CASE l = cur
          BY <3>4, <4>1, <5>1
        <5>2. CASE l # cur
          BY <3>3, <5>2
        <5> QED BY <5>1, <5>2
      <4> QED BY <2>1, <4>1, <1>v DEF GradientsBackedByData, Backed
    <3> QED BY <3>6, <3>7, <3>8, <3>9, <3>10 DEF Core
  <2> QED BY <2>3, <2>4
<1>5. CASE stepMain
  <2>1. /\ mpc = "stepMain" /\ cur' = cur
        /\ mpc' \in {"removal", "stepComplete"}
        /\ mpc' = "removal" => algoSubStepID[cur] = 0 /\ ~blockGradientUpdates(cur)
        /\ UNCHANGED <<nGradSteps, saved, nSeenTransitions_loc, nTransitions,
                       nGatheredB4Startup, algoSubStepID>>
    BY <1>5 DEF stepMain, MainGoto, Untouched, counterVars, diskVars
  <2>2. bTrain
    BY <2>1, <1>w
  <2>3. /\ nLocTimeStepsTrain(cur) * ObsDen \in Int /\ nGradSteps[cur] * ObsNum \in Int
    <3>1. nLocTimeStepsTrain(cur) \in Int /\ nGradSteps[cur] \in Int
      BY <1>u, Typed
    <3> QED BY <3>1, LoopAssumption
  <2>4. mpc' = "removal" => Backed(nGradSteps[cur], nLocTimeStepsTrain(cur))
    BY <2>1, <2>3 DEF Backed, blockGradientUpdates
  <2>5. \A l \in Learners : nLocTimeStepsTrain(l)' = nLocTimeStepsTrain(l)
    BY <2>1 DEF nLocTimeStepsTrain
  <2>6. \A l \in Learners : Stepping(l)' => Stepping(l) \/ (l = cur /\ mpc' = "removal")
    BY <2>1 DEF Stepping
  <2>7. StepInv'
    BY <2>1, <2>4, <2>5, <2>6, <1>v DEF StepInv, Backed
  <2>8. SavedInv'
    BY <2>1, <1>w DEF SavedInv
  <2>9. EvaluationInv'
    BY <2>2 DEF EvaluationInv
  <2>10. DataSetFloor'
    BY <2>1, <1>v DEF DataSetFloor
  <2>11. GradientsBackedByData'
    BY <2>1, <2>5, <1>v DEF GradientsBackedByData, Backed
  <2> QED BY <2>7, <2>8, <2>9, <2>10, <2>11 DEF Core
<1>6. CASE logStats
  <2>1. /\ mpc = "logStats" /\ mpc' = "stepComplete" /\ cur' = cur
        /\ algoSubStepID' = [algoSubStepID EXCEPT ![cur] = 1]
        /\ saved' = saved \/ saved' = [saved EXCEPT ![cur] = Snapshot(cur)]
        /\ UNCHANGED <<nGradSteps, nSeenTransitions_loc, nTransitions,
                       nGatheredB4Startup>>
    BY <1>6 DEF logStats, MainGoto, counterVars
  <2>2. bTrain
    BY <2>1, <1>w
  <2>3. Stepping(cur)
    BY <2>1 DEF Stepping
  <2>4. /\ nGatheredB4Startup[cur] = NObsB4Start /\ algoSubStepID[cur] # -1
        /\ Backed(nGradSteps[cur], nSeenTransitions_loc[cur] - NObsB4Start)
    BY <2>3, <1>u, <1>v DEF nLocTimeStepsTrain
  <2>5. \A l \in Learners : nLocTimeStepsTrain(l)' = nLocTimeStepsTrain(l)
    BY <2>1 DEF nLocTimeStepsTrain
  <2>6. \A l \in Learners : l # cur => algoSubStepID'[l] = algoSubStepID[l]
    BY <2>1, <1>u
  <2>7. \A l \in Learners : Stepping(l)' => Stepping(l)
    BY <2>1, <2>3, <2>6 DEF Stepping
  <2>8. StepInv'
    <3>1. \A l \in Learners : algoSubStepID[l] # -1 => algoSubStepID'[l] # -1
      BY <2>1, <1>u
    <3> QED BY <2>1, <2>5, <2>7, <3>1, <1>v DEF StepInv, Backed
  <2>9. SavedInv'
    <3>1. /\ Snapshot(cur).nGatheredB4Startup = NObsB4Start
          /\ Snapshot(cur).nGradSteps - 1 = nGradSteps[cur]
          /\ Snapshot(cur).nSeenTransitions_loc = nSeenTransitions_loc[cur]
      BY <2>4, <1>u DEF Snapshot
    <3>2. Snapshot(cur) \in Files
      BY DEF Snapshot, Files, TypeOK
    <3>3. DOMAIN saved = Learners
      BY DEF TypeOK
    <3>4. CASE saved' = saved
      BY <3>4, <1>w DEF SavedInv
    <3>5. CASE saved' = [saved EXCEPT ![cur] = Snapshot(cur)]
      <4>1. \A l \in Learners : saved'[l] = IF l = cur THEN Snapshot(cur) ELSE saved[l]
        BY <3>3, <3>5
      <4> QED BY <3>1, <3>2, <4>1, <2>4, <1>w DEF SavedInv
    <3> QED BY <2>1, <3>4, <3>5
  <2>10. EvaluationInv'
    BY <2>2 DEF EvaluationInv
  <2>11. DataSetFloor'
    BY <2>1, <2>4, <2>6, <1>u, <1>v DEF DataSetFloor
  <2>12. GradientsBackedByData'
    BY <2>1, <2>5, <1>v DEF GradientsBackedByData, Backed
  <2> QED BY <2>8, <2>9, <2>10, <2>11, <2>12 DEF Core
<1>7. ASSUME NEW reduced \in BOOLEAN, stepComplete(reduced)
      PROVE  Core'
  <2>1. /\ mpc = "stepComplete" /\ mpc' \in {"stepInit", "isOver"}
        /\ UNCHANGED <<saved, nSeenTransitions_loc, nTransitions, nGatheredB4Startup>>
    BY <1>7 DEF stepComplete, Untouched, diskVars
  <2>2. bTrain
    BY <2>1, <1>w
  <2>3. \/ UNCHANGED <<nGradSteps, algoSubStepID>>
        \/ /\ algoSubStepID[cur] = 1
           /\ nGradSteps' = [nGradSteps EXCEPT ![cur] = @ + 1]
           /\ algoSubStepID' = [algoSubStepID EXCEPT ![cur] = 0]
    BY <1>7 DEF stepComplete
  <2>4. EvaluationInv'
    BY <2>2 DEF EvaluationInv
  <2>5. CASE UNCHANGED <<nGradSteps, algoSubStepID>>
    <3>1. \A l \in Learners : Stepping(l)' => Stepping(l)
      BY <2>1, <2>5 DEF Stepping
    <3>2. \A l \in Learners : nSeenTransitions_loc'[l] >= nSeenTransitions_loc[l]
      BY <2>1, <1>u
    <3> QED BY <2>1, <2>4, <2>5, <3>1, <3>2, <1>t, Quiet
  <2>6. CASE /\ algoSubStepID[cur] = 1
             /\ nGradSteps' = [nGradSteps EXCEPT ![cur] = @ + 1]
             /\ algoSubStepID' = [algoSubStepID EXCEPT ![cur] = 0]
    <3>1. Stepping(cur)
      BY <2>6 DEF Stepping
    <3>2. /\ nGradSteps'[cur] - 1 = nGradSteps[cur]
          /\ algoSubStepID'[cur] = 0
          /\ \A l \in Learners : l # cur => /\ nGradSteps'[l] = nGradSteps[l]
                                            /\ algoSubStepID'[l] = algoSubStepID[l]
      BY <2>6, <1>u
    <3>3. \A l \in Learners : nLocTimeStepsTrain(l)' = nLocTimeStepsTrain(l)
      BY <2>1 DEF nLocTimeStepsTrain
    <3>4. \A l \in Learners : Stepping(l)' => l # cur /\ Stepping(l)
      BY <2>1, <3>2 DEF Stepping
    <3>5. \A l \in Learners : algoSubStepID'[l] # -1 <=> algoSubStepID[l] # -1
      BY <2>6, <3>2
    <3>6. StepInv'
      <4>1. nGatheredB4Startup[cur] = NObsB4Start
        BY <2>6, <1>v, <1>u
      <4> QED BY <2>1, <3>2, <3>3, <3>4, <3>5, <4>1, <1>v DEF StepInv, Backed
    <3>7. SavedInv'
      BY <2>1, <1>w DEF SavedInv
    <3>8. DataSetFloor'
      BY <2>1, <3>5, <1>v DEF DataSetFloor
    <3>9. GradientsBackedByData'
      <4>1. Backed(nGradSteps[cur], nLocTimeStepsTrain(cur))
        BY <3>1, <1>u, <1>v
      <4>2. ASSUME NEW l \in Learners, nGradSteps'[l] > 0
            PROVE  Backed(nGradSteps'[l] - 1, nLocTimeStepsTrain(l)')
        <5>1. CASE l = cur
          <6>1. /\ nLocTimeStepsTrain(l)' = nLocTimeStepsTrain(l)
                /\ nGradSteps'[l] - 1 = nGradSteps[l]
            BY <3>2, <3>3, <5>1
          <6> QED BY <6>1, <5>1, <4>1
        <5>2. CASE l # cur
          <6>1. nGradSteps[l] > 0 /\ nGradSteps'[l] = nGradSteps[l]
            BY <3>2, <4>2, <5>2
          <6>2. Backed(nGradSteps[l] - 1, nLocTimeStepsTrain(l))
            BY <6>1, <1>v
          <6>3. nLocTimeStepsTrain(l)' = nLocTimeStepsTrain(l)
            BY <3>3
          <6> QED BY <6>1, <6>2, <6>3
        <5> QED BY <5>1, <5>2
      <4> QED BY <4>2 DEF GradientsBackedByData, Backed
    <3> QED BY <3>6, <3>7, <2>4, <3>8, <3>9 DEF Core
  <2> QED BY <2>3, <2>5, <2>6
<1>8. CASE CrashAndRestart
  <2>1. /\ algoSubStepID' = [l \in Learners |-> -1]
        /\ mpc' = IF bTrain THEN "stepInit" ELSE "isOver"
        /\ saved' = saved
        /\ nGradSteps' = Loaded("nGradSteps", 0)
        /\ nGatheredB4Startup' = Loaded("nGatheredB4Startup", LongMax)
        /\ nSeenTransitions_loc' = Loaded("nSeenTransitions_loc", 0)
    BY <1>8 DEF CrashAndRestart
  <2>2. \A l \in Learners : algoSubStepID'[l] = -1 /\ ~Stepping(l)'
    BY <2>1 DEF Stepping
  <2>3. ASSUME NEW l \in Learners, nGradSteps'[l] > 0
        PROVE  /\ nGatheredB4Startup'[l] = NObsB4Start
               /\ Backed(nGradSteps'[l] - 1, nLocTimeStepsTrain(l)')
    <3>1. saved[l].present
      BY <2>1, <2>3 DEF Loaded
    <3>2. /\ nGradSteps'[l] = saved[l].nGradSteps
          /\ nGatheredB4Startup'[l] = saved[l].nGatheredB4Startup
          /\ nSeenTransitions_loc'[l] = saved[l].nSeenTransitions_loc
      BY <2>1, <3>1 DEF Loaded
    <3> QED BY <3>1, <3>2, <1>w DEF SavedInv, nLocTimeStepsTrain
  <2>4. StepInv'
    BY <2>2, <2>3 DEF StepInv
  <2>5. SavedInv'
    BY <2>1, <1>w DEF SavedInv
  <2>6. EvaluationInv'
    BY <2>1, <2>2 DEF EvaluationInv
  <2>7. DataSetFloor'
    BY <2>2 DEF DataSetFloor
  <2>8. GradientsBackedByData'
    BY <2>3 DEF GradientsBackedByData, Backed
  <2> QED BY <2>4, <2>5, <2>6, <2>7, <2>8 DEF Core
<1>9. CASE UNCHANGED vars
  BY <1>9
  DEF vars, loopVars, counterVars, mainVars, diskVars, Core, StepInv, SavedInv, EvaluationInv,
      DataSetFloor, GradientsBackedByData, Stepping, Backed, nLocTimeStepsTrain
<1> QED
  BY <1>1, <1>2, <1>3, <1>4, <1>5, <1>6, <1>7, <1>8, <1>9 DEF Next, Step, MainStep, vars

\* The inductive invariant holds when training begins.
LEMMA InitIInv == Init => IInv
<1> SUFFICES ASSUME Init PROVE IInv
  OBVIOUS
<1>1. TypeOK
  BY InitTypeOK
<1>2. /\ algoSubStepID = [l \in Learners |-> -1] /\ saved = [l \in Learners |-> NoSave]
      /\ mpc = IF bTrain THEN "stepInit" ELSE "isOver"
      /\ nGradSteps = [l \in Learners |-> 0]
  BY DEF Init
<1>3. HandlerInv
  <2>1. /\ hpc = [h \in Handlers |-> "test"]
        /\ hagent = [h \in Handlers |-> CHOOSE a \in Served(h) : TRUE]
    BY DEF Init
  <2> QED BY <2>1, AgentFacts DEF HandlerInv
<1>4. StepInv /\ EvaluationInv
  BY <1>2 DEF StepInv, EvaluationInv, Stepping
<1>5. SavedInv
  BY <1>2 DEF SavedInv, NoSave
<1>6. DataSetFloor /\ GradientsBackedByData
  BY <1>2 DEF DataSetFloor, GradientsBackedByData
<1> QED BY <1>1, <1>3, <1>4, <1>5, <1>6 DEF IInv

\* Types, the handlers' part and the scheduling's part of the invariant hold
\* together in every behaviour: each step needs them all.
THEOREM Inductive == Spec => []IInv
<1>1. Init => IInv
  BY InitIInv
<1>2. IInv /\ [Next]_vars => IInv'
  BY TypeStep, HandlerStep, CoreStep DEF IInv, Core
<1> QED
  BY <1>1, <1>2, PTL DEF Spec

\* From the first gradient step on the data set never holds fewer transitions
\* than training required to start, whatever is removed, saved and restored.
THEOREM DataSetFloorHolds == Spec => []DataSetFloor
<1>1. IInv => DataSetFloor
  BY DEF IInv
<1> QED BY Inductive, <1>1, PTL

\* Every gradient step was backed by the observations obsPerStep asks for.
THEOREM GradientsBackedHolds == Spec => []GradientsBackedByData
<1>1. IInv => GradientsBackedByData
  BY DEF IInv
<1> QED BY Inductive, <1>1, PTL

------------------------------------------------------------------------------
(* AcquisitionBounded: the gate is tested before the state is stored and the *)
(* observation is counted later still; the bound holds because each handler  *)
(* has at most one state between the gate and the counter.                   *)

Excess(l) == nLocTimeStepsTrain(l) + Cardinality(InFlight(l)) - Cardinality(Handlers)

\* Those of the handlers that are between gate and counter are finitely many.
LEMMA InFlightFacts ==
  /\ Cardinality(Handlers) \in Nat
  /\ \A l \in Learners : /\ InFlight(l) \subseteq Handlers
                         /\ IsFiniteSet(InFlight(l))
                         /\ Cardinality(InFlight(l)) \in Nat
                         /\ Cardinality(InFlight(l)) <= Cardinality(Handlers)
<1>1. Cardinality(Handlers) \in Nat
  BY FS_CardinalityType, LoopAssumption
<1>2. ASSUME NEW l \in Learners
      PROVE  /\ InFlight(l) \subseteq Handlers
             /\ IsFiniteSet(InFlight(l))
             /\ Cardinality(InFlight(l)) \in Nat
             /\ Cardinality(InFlight(l)) <= Cardinality(Handlers)
  <2>1. InFlight(l) \subseteq Handlers
    BY DEF InFlight
  <2>2. IsFiniteSet(InFlight(l)) /\ Cardinality(InFlight(l)) <= Cardinality(Handlers)
    BY <2>1, FS_Subset, LoopAssumption
  <2> QED BY <2>1, <2>2, FS_CardinalityType
<1> QED BY <1>1, <1>2

\* The observations gathered ahead are counted by an integer that the handlers
\* on their way can only lower.
LEMMA ExcessTyped ==
  TypeOK => \A l \in Learners : Excess(l) \in Int /\ Excess(l) <= nLocTimeStepsTrain(l)
BY Typed, InFlightFacts DEF Excess

\* A learner stays within its quota when its excess does not grow.
LEMMA QuotaKept ==
  ASSUME TypeOK, TypeOK', NEW l \in Learners, WithinQuota(l),
         Excess(l)' <= Excess(l), atStart'[l] = atStart[l],
         nGradSteps'[l] >= nGradSteps[l]
  PROVE  WithinQuota(l)'
<1>1. /\ Excess(l) \in Int /\ Excess(l)' \in Int
      /\ atStart[l] \in Int
      /\ nGradSteps[l] \in Nat /\ nGradSteps'[l] \in Nat
  <2>1. Excess(l) \in Int
    BY ExcessTyped
  <2>2. Excess(l)' \in Int
    <3>1. InFlight(l)' \subseteq Handlers
      BY DEF InFlight
    <3>2. Cardinality(InFlight(l)') \in Nat /\ Cardinality(Handlers) \in Nat
      BY <3>1, FS_Subset, FS_CardinalityType, LoopAssumption
    <3>3. /\ nSeenTransitions_loc'[l] \in Nat
          /\ nGatheredB4Startup'[l] \in {NObsB4Start, LongMax}
      BY DEF TypeOK
    <3> QED BY <3>2, <3>3, LoopAssumption DEF Excess, nLocTimeStepsTrain
  <2> QED BY <2>1, <2>2 DEF TypeOK
<1>2. CASE Excess(l) <= atStart[l]
  <2>1. Excess(l)' <= atStart'[l]
    BY <1>1, <1>2
  <2> QED BY <2>1 DEF WithinQuota, Excess
<1>3. CASE Excess(l) * ObsDen <= (nGradSteps[l] + 1) * ObsNum
  <2>1. Excess(l)' * ObsDen <= Excess(l) * ObsDen
    BY <1>1, TimesMono, LoopAssumption
  <2>2. (nGradSteps[l] + 1) * ObsNum <= (nGradSteps'[l] + 1) * ObsNum
    BY <1>1, TimesMono, LoopAssumption
  <2>3. /\ Excess(l)' * ObsDen \in Int /\ Excess(l) * ObsDen \in Int
        /\ (nGradSteps[l] + 1) * ObsNum \in Int /\ (nGradSteps'[l] + 1) * ObsNum \in Int
    BY <1>1, LoopAssumption
  <2>4. Excess(l)' * ObsDen <= (nGradSteps'[l] + 1) * ObsNum
    BY <1>3, <2>1, <2>2, <2>3
  <2> QED BY <2>4 DEF WithinQuota, Excess
<1> QED BY <1>2, <1>3 DEF WithinQuota, Excess

\* A handler that leaves the stretch between gate and counter takes one off.
LEMMA InFlightLeave ==
  ASSUME TypeOK, NEW h \in Handlers, NEW l \in Learners,
         h \in InFlight(l), hagent' = hagent,
         NEW pc, pc \notin InFlightPCs, hpc' = [hpc EXCEPT ![h] = pc]
  PROVE  Cardinality(InFlight(l)') = Cardinality(InFlight(l)) - 1
<1>1. hpc \in [Handlers -> HandlerPCs]
  BY DEF TypeOK
<1>2. InFlight(l)' = InFlight(l) \ {h}
  BY <1>1 DEF InFlight, MyLearner
<1>3. IsFiniteSet(InFlight(l))
  BY InFlightFacts
<1> QED BY <1>2, <1>3, FS_RemoveElement

\* No step takes the last learner within its quota beyond it: a handler passes
\* the gate only when some learner is within it.
LEMMA AcquisitionStep == IInv /\ AcquisitionBounded /\ [Next]_vars => AcquisitionBounded'
<1> SUFFICES ASSUME IInv, AcquisitionBounded, [Next]_vars,
                    \A l \in Learners : algoSubStepID'[l] # -1
             PROVE  \E l \in Learners : WithinQuota(l)'
  BY DEF AcquisitionBounded
<1>t. TypeOK /\ TypeOK'
  BY TypeStep DEF IInv
<1>h. HandlerInv
  BY DEF IInv
<1>u. /\ nSeenTransitions_loc \in [Learners -> Nat]
      /\ nGradSteps \in [Learners -> Nat]
      /\ nGatheredB4Startup \in [Learners -> {NObsB4Start, LongMax}]
      /\ algoSubStepID \in [Learners -> {-1, 0, 1}]
      /\ hpc \in [Handlers -> HandlerPCs]
      /\ cur \in Learners
  BY <1>t DEF TypeOK
<1>a. (\A l \in Learners : algoSubStepID[l] # -1) => \E l \in Learners : WithinQuota(l)
  BY DEF AcquisitionBounded
\* What most steps have to show.
<1>k. ASSUME \A l \in Learners : /\ algoSubStepID'[l] = algoSubStepID[l]
                                 /\ Excess(l)' <= Excess(l)
                                 /\ atStart'[l] = atStart[l]
                                 /\ nGradSteps'[l] >= nGradSteps[l]
      PROVE  \E l \in Learners : WithinQuota(l)'
  <2>1. PICK l \in Learners : WithinQuota(l)
    BY <1>k, <1>a
  <2>2. WithinQuota(l)'
    BY <1>k, <1>t, <2>1, QuotaKept
  <2> QED BY <2>2
<1>s. ASSUME \A l \in Learners : InFlight(l)' = InFlight(l),
             UNCHANGED <<nSeenTransitions_loc, nGatheredB4Startup>>
      PROVE  \A l \in Learners : Excess(l)' <= Excess(l)
  <2>1. ASSUME NEW l \in Learners PROVE Excess(l)' <= Excess(l)
    <3>1. Excess(l)' = Excess(l)
      BY <1>s DEF Excess, nLocTimeStepsTrain
    <3>2. Excess(l) \in Int
      BY <1>t, ExcessTyped
    <3> QED BY <3>1, <3>2
  <2> QED BY <2>1
<1>1. ASSUME NEW h \in Handlers,
             Answer(h) \/ \E status \in Statuses : \E a \in Served(h) : Receive(h, a, status)
      PROVE  \E l \in Learners : WithinQuota(l)'
  <2>1. /\ UNCHANGED <<nGatheredB4Startup, nGradSteps, algoSubStepID, atStart>>
    BY <1>1, <1>t, <1>h, HandlerQuiet
  <2>2. \A l \in Learners : /\ algoSubStepID'[l] = algoSubStepID[l]
                            /\ atStart'[l] = atStart[l]
                            /\ nGradSteps'[l] >= nGradSteps[l]
    BY <2>1, <1>u
  <2>3. CASE PassGate(h)
    <3>1. bTrain
      BY <2>2, AgentFacts DEF IInv, EvaluationInv
    <3>2. PICK l \in Learners : ~blockDataAcquisition(l)
      BY <2>3, <3>1 DEF PassGate, learnersBlockingDataAcquisition
    <3>3. nTransitions[l] >= nGatheredB4Startup[l]
      BY <2>2 DEF IInv, DataSetFloor
    <3>4. /\ nLocTimeStepsTrain(l) \in Int /\ nGradSteps[l] \in Nat
      BY <1>t, Typed
    <3>5. nLocTimeStepsTrain(l) * ObsDen <= (nGradSteps[l] + 1) * ObsNum
      <4>1. ~(nLocTimeStepsTrain(l) * ObsDen > (nGradSteps[l] + 1) * ObsNum)
        BY <3>2, <3>3 DEF blockDataAcquisition
      <4>2. /\ nLocTimeStepsTrain(l) * ObsDen \in Int
            /\ (nGradSteps[l] + 1) * ObsNum \in Int
        BY <3>4, LoopAssumption
      <4> QED BY <4>1, <4>2
    <3>6. Excess(l)' \in Int /\ Excess(l)' <= nLocTimeStepsTrain(l)
      <4>1. InFlight(l)' \subseteq Handlers
        BY DEF InFlight
      <4>2. /\ Cardinality(InFlight(l)') \in Nat /\ Cardinality(Handlers) \in Nat
            /\ Cardinality(InFlight(l)') <= Cardinality(Handlers)
        BY <4>1, FS_Subset, FS_CardinalityType, LoopAssumption
      <4>3. nLocTimeStepsTrain(l)' = nLocTimeStepsTrain(l)
        BY <2>3 DEF PassGate, counterVars, nLocTimeStepsTrain
      <4> QED BY <4>2, <4>3, <3>4 DEF Excess
    <3>7. Excess(l)' * ObsDen <= nLocTimeStepsTrain(l) * ObsDen
      BY <3>4, <3>6, TimesMono, LoopAssumption
    <3>8. /\ Excess(l)' * ObsDen \in Int /\ nLocTimeStepsTrain(l) * ObsDen \in Int
          /\ (nGradSteps[l] + 1) * ObsNum \in Int
      BY <3>4, <3>6, LoopAssumption
    <3>9. Excess(l)' * ObsDen <= (nGradSteps'[l] + 1) * ObsNum
      BY <2>1, <3>5, <3>7, <3>8
    <3> QED BY <3>9 DEF WithinQuota, Excess
  <2>4. CASE storeAction(h) \/ increaseLocalSeenSteps(h)
    <3>1. PICK pc \in {"reply", "seenEps"} : hpc' = [hpc EXCEPT ![h] = pc]
      BY <2>4 DEF storeAction, increaseLocalSeenSteps, HandlerGoto
    <3>2. hagent' = hagent /\ hpc[h] \in InFlightPCs
      BY <2>4 DEF storeAction, increaseLocalSeenSteps, InFlightPCs
    <3>3. nSeenTransitions_loc' = nSeenTransitions_loc
          \/ nSeenTransitions_loc' = [nSeenTransitions_loc EXCEPT ![MyLearner(h)] = @ + 1]
      BY <2>4 DEF storeAction, increaseLocalSeenSteps
    <3>4. ASSUME NEW l \in Learners PROVE Excess(l)' <= Excess(l)
      <4>0. /\ Cardinality(InFlight(l)) \in Nat /\ Cardinality(Handlers) \in Nat
            /\ nLocTimeStepsTrain(l) \in Int
        BY InFlightFacts, Typed, <1>t
      <4>1. CASE MyLearner(h) = l
        <5>1. h \in InFlight(l)
          BY <3>2, <4>1 DEF InFlight
        <5>2. pc \notin InFlightPCs
          BY DEF InFlightPCs
        <5>3. Cardinality(InFlight(l)') = Cardinality(InFlight(l)) - 1
          BY <1>t, <3>1, <3>2, <5>1, <5>2, InFlightLeave
        <5>4. nLocTimeStepsTrain(l)' <= nLocTimeStepsTrain(l) + 1
              /\ nLocTimeStepsTrain(l)' \in Int
          BY <2>1, <3>3, <1>u, <4>1, LoopAssumption DEF nLocTimeStepsTrain
        <5> QED BY <4>0, <5>3, <5>4 DEF Excess
      <4>2. CASE MyLearner(h) # l
        <5>1. InFlight(l)' = InFlight(l)
          BY <3>1, <3>2, <4>2, <1>u DEF InFlight, MyLearner
        <5>2. nLocTimeStepsTrain(l)' = nLocTimeStepsTrain(l)
          BY <2>1, <3>3, <1>u, <4>2 DEF nLocTimeStepsTrain
        <5> QED BY <4>0, <5>1, <5>2 DEF Excess
      <4> QED BY <4>1, <4>2
    <3> QED BY <2>2, <3>4, <1>k
  <2>5. CASE \/ ExitAtGate(h) \/ storeState(h) \/ terminateCurrentEpisode(h)
             \/ pushBackEpisode(h) \/ increaseLocalSeenEps(h) \/ Reply(h)
    <3>1. /\ UNCHANGED <<hagent, nSeenTransitions_loc, nGatheredB4Startup>>
          /\ \E pc : /\ hpc' = [hpc EXCEPT ![h] = pc]
                     /\ hpc[h] \in InFlightPCs <=> pc \in InFlightPCs
      <4>1. CASE ExitAtGate(h)
        <5>1. PICK pc \in {"exit"} : hpc' = [hpc EXCEPT ![h] = pc]
          BY <4>1 DEF ExitAtGate, HandlerGoto
        <5>2. hpc[h] \notin InFlightPCs /\ pc \notin InFlightPCs
          BY <4>1 DEF ExitAtGate, InFlightPCs
        <5> QED BY <4>1, <5>1, <5>2 DEF ExitAtGate, counterVars
      <4>2. CASE storeState(h)
        BY <4>2 DEF storeState, HandlerGoto, InFlightPCs, counterVars
      <4>3. CASE terminateCurrentEpisode(h)
        BY <4>3 DEF terminateCurrentEpisode, HandlerGoto, InFlightPCs, counterVars
      <4>4. CASE pushBackEpisode(h)
        BY <4>4 DEF pushBackEpisode, HandlerGoto, InFlightPCs
      <4>5. CASE increaseLocalSeenEps(h)
        <5>1. PICK pc \in {"reply"} : hpc' = [hpc EXCEPT ![h] = pc]
          BY <4>5 DEF increaseLocalSeenEps, HandlerGoto
        <5>2. hpc[h] \notin InFlightPCs /\ pc \notin InFlightPCs
          BY <4>5 DEF increaseLocalSeenEps, InFlightPCs
        <5> QED BY <4>5, <5>1, <5>2 DEF increaseLocalSeenEps
      <4>6. CASE Reply(h)
        <5>1. PICK pc \in {"exit", "test"} : hpc' = [hpc EXCEPT ![h] = pc]
          BY <4>6 DEF Reply, HandlerGoto
        <5>2. hpc[h] \notin InFlightPCs /\ pc \notin InFlightPCs
          BY <4>6 DEF Reply, InFlightPCs
        <5> QED BY <4>6, <5>1, <5>2 DEF Reply, counterVars
      <4> QED BY <2>5, <4>1, <4>2, <4>3, <4>4, <4>5, <4>6
    <3>2. \A l \in Learners : InFlight(l)' = InFlight(l)
      BY <3>1, <1>u DEF InFlight, MyLearner
    <3> QED BY <2>2, <3>1, <3>2, <1>s, <1>k
  <2>6. CASE \E status \in Statuses : \E a \in Served(h) : Receive(h, a, status)
    <3>1. /\ UNCHANGED <<nSeenTransitions_loc, nGatheredB4Startup>>
          /\ hpc[h] = "test" /\ hpc' = [hpc EXCEPT ![h] = "gate"]
          /\ \A k \in Handlers : k # h => hagent'[k] = hagent[k]
      <4>1. hagent \in [Handlers -> Agents]
        BY <1>t DEF TypeOK
      <4> QED BY <2>6, <4>1 DEF Receive, HandlerGoto, counterVars
    <3>2. hpc[h] \notin InFlightPCs /\ hpc'[h] \notin InFlightPCs
      BY <3>1, <1>u DEF InFlightPCs
    <3>3. \A l \in Learners : InFlight(l)' = InFlight(l)
      BY <3>1, <3>2, <1>u DEF InFlight, MyLearner
    <3> QED BY <2>2, <3>1, <3>3, <1>s, <1>k
  <2> QED BY <1>1, <2>3, <2>4, <2>5, <2>6 DEF Answer
<1>2. ASSUME \/ stepMain \/ removalDone \/ logStats \/ isOver \/ Join
             \/ (\E n \in Lengths : removeBackEpisode(n))
             \/ (\E reduced \in BOOLEAN : stepComplete(reduced))
             \/ UNCHANGED vars
      PROVE  \E l \in Learners : WithinQuota(l)'
  <2>1. /\ UNCHANGED <<hpc, hagent, nSeenTransitions_loc, nGatheredB4Startup, atStart>>
        /\ \A l \in Learners : nGradSteps'[l] >= nGradSteps[l]
        /\ \A l \in Learners : algoSubStepID'[l] # -1 => algoSubStepID[l] # -1
    <3>1. CASE stepMain \/ removalDone \/ isOver \/ Join
      BY <3>1, <1>u DEF stepMain, removalDone, isOver, Join, Untouched, handlerVars,
         counterVars, histVars
    <3>2. CASE logStats
      <4>1. Stepping(cur)
        BY <3>2 DEF logStats, Stepping
      <4>2. algoSubStepID[cur] # -1
        BY <4>1, <1>u DEF IInv, StepInv
      <4>3. algoSubStepID' = [algoSubStepID EXCEPT ![cur] = 1]
            /\ UNCHANGED <<hpc, hagent, nSeenTransitions_loc, nGatheredB4Startup, atStart,
                           nGradSteps>>
        BY <3>2 DEF logStats, handlerVars, counterVars, histVars
      <4> QED BY <4>2, <4>3, <1>u
    <3>3. CASE \E n \in Lengths : removeBackEpisode(n)
      BY <3>3, <1>u DEF removeBackEpisode, handlerVars, mainVars
    <3>4. ASSUME NEW reduced \in BOOLEAN, stepComplete(reduced)
          PROVE  <2>1!:
      BY <3>4, <1>u DEF stepComplete, Untouched, handlerVars, histVars
    <3>5. CASE UNCHANGED vars
      BY <3>5, <1>u DEF vars, loopVars, handlerVars, counterVars, mainVars, histVars
    <3> QED BY <1>2, <3>1, <3>2, <3>3, <3>4, <3>5
  <2>2. \A l \in Learners : InFlight(l)' = InFlight(l)
    BY <2>1 DEF InFlight, MyLearner
  <2>3. \A l \in Learners : Excess(l)' <= Excess(l)
    BY <2>1, <2>2, <1>s
  <2>4. PICK l \in Learners : WithinQuota(l)
    BY <2>1, <1>a
  <2>5. WithinQuota(l)'
    BY <2>1, <2>3, <2>4, <1>t, QuotaKept
  <2> QED BY <2>5
<1>3. CASE stepInit
  <2>1. /\ UNCHANGED <<hpc, hagent, nSeenTransitions_loc, nGradSteps>>
        /\ cur' = cur
    BY <1>3 DEF stepInit, Untouched, handlerVars, MainGoto
  <2>2. \A l \in Learners : InFlight(l)' = InFlight(l)
    BY <2>1 DEF InFlight, MyLearner
  <2>3. CASE ~(algoSubStepID[cur] = -1 /\ nTransitions[cur] >= NObsB4Start)
    <3>1. UNCHANGED <<nGatheredB4Startup, algoSubStepID, atStart>>
      BY <1>3, <2>3 DEF stepInit
    <3>2. \A l \in Learners : /\ algoSubStepID'[l] = algoSubStepID[l]
                              /\ atStart'[l] = atStart[l]
                              /\ nGradSteps'[l] >= nGradSteps[l]
      BY <2>1, <3>1, <1>u
    <3> QED BY <2>1, <2>2, <3>1, <3>2, <1>s, <1>k
  <2>4. CASE algoSubStepID[cur] = -1 /\ nTransitions[cur] >= NObsB4Start
    <3>1. atStart' = [atStart EXCEPT ![cur] = nSeenTransitions_loc[cur]
                                                - nGatheredB4Startup'[cur]]
      BY <1>3, <2>4 DEF stepInit
    <3>2. PICK l \in Learners : l = cur
      BY <1>u
    <3>3. atStart'[l] = nLocTimeStepsTrain(l)'
      <4>1. atStart \in [Learners -> Int]
        BY <1>t DEF TypeOK
      <4> QED BY <2>1, <3>1, <3>2, <4>1 DEF nLocTimeStepsTrain
    <3>4. Excess(l)' <= nLocTimeStepsTrain(l)'
      <4>1. InFlight(l)' \subseteq Handlers
        BY DEF InFlight
      <4>2. /\ Cardinality(InFlight(l)') \in Nat /\ Cardinality(Handlers) \in Nat
            /\ Cardinality(InFlight(l)') <= Cardinality(Handlers)
        BY <4>1, FS_Subset, FS_CardinalityType, LoopAssumption
      <4>3. nLocTimeStepsTrain(l)' \in Int
        <5>1. /\ nSeenTransitions_loc'[l] \in Nat
              /\ nGatheredB4Startup'[l] \in {NObsB4Start, LongMax}
          BY <1>t DEF TypeOK
        <5> QED BY <5>1, LoopAssumption DEF nLocTimeStepsTrain
      <4> QED BY <4>2, <4>3 DEF Excess
    <3> QED BY <3>3, <3>4 DEF WithinQuota, Excess
  <2> QED BY <2>3, <2>4
<1>4. CASE CrashAndRestart
  <2>1. algoSubStepID'[1] = -1
    BY <1>4, AgentFacts DEF CrashAndRestart
  <2> QED BY <2>1, AgentFacts
<1> QED
  BY <1>1, <1>2, <1>3, <1>4 DEF Next, Step, MainStep, vars

\* However many threads serve the environments, the gate bounds the
\* observations that are gathered ahead of the gradient steps.
THEOREM AcquisitionBoundedHolds == Spec => []AcquisitionBounded
<1>1. Init => AcquisitionBounded
  <2>1. Init => algoSubStepID[1] = -1
    BY AgentFacts DEF Init
  <2> QED BY <2>1, AgentFacts DEF AcquisitionBounded
<1>2. IInv /\ AcquisitionBounded /\ [Next]_vars => AcquisitionBounded'
  BY AcquisitionStep
<1> QED
  BY <1>1, <1>2, Inductive, PTL DEF Spec

------------------------------------------------------------------------------
(* The accounts.  The counters are compared with four sums: over the lengths *)
(* of the stored episodes, over the agents and over the handlers.  Each step *)
(* changes one summand of each, so that the sums are those of functions on   *)
(* all lengths, agents and handlers, most of whose values are 0.             *)

\* The transitions in the stored episodes of each length.
Weighted(bag) == [n \in Lengths |-> n * bag[n]]

\* The transitions of learner l in the open episode of each agent.
OpenOf(l) == [a \in Agents |-> IF LearnerOf(a) = l /\ inProgress[a] > 0
                               THEN inProgress[a] - 1 ELSE 0]

\* The transitions that each handler is moving to the data set of learner l.
MovingOf(l) == [h \in Handlers |-> IF hpc[h] = "pushBack" /\ MyLearner(h) = l
                                   THEN hdone[h] ELSE 0]

\* The transition that each handler has still to count for learner l.
OwedOf(l) == [h \in Handlers |-> IF h \in NotCounted(l) THEN 1 ELSE 0]
Debt(l) == [h \in Handlers |-> OwedOf(l)[h] - MovingOf(l)[h]]

Described(transitions, number, bag) ==
  /\ transitions = SumOf(Weighted(bag), Lengths)
  /\ number = SumOf(bag, Lengths)
Balanced(l) ==
  nSeenTransitions_loc[l] + SumOf(Debt(l), Handlers)
    = nTransitions[l] + gone[l] + SumOf(OpenOf(l), Agents)

\* What a handler that has a state in hand relies on: whether the state may be the next
\* of its agent's episode, and that the episode it pushes has a length.
EpisodeInv ==
  \A h \in Handlers :
    /\ hpc[h] \in {"gate", "storeState"} =>
         \/ hstatus[h] = "INIT" /\ inProgress[hagent[h]] = 0
         \/ hstatus[h] = "CONT" /\ inProgress[hagent[h]] > 0
                                /\ inProgress[hagent[h]] + 2 <= MaxLen
         \/ hstatus[h] = "LAST" /\ inProgress[hagent[h]] > 0
    /\ hpc[h] = "storeAction" => hstatus[h] # "LAST"
    /\ hpc[h] = "terminate" => inProgress[hagent[h]] >= 2
    /\ hpc[h] = "pushBack" => hdone[h] \in Lengths
    /\ \A a \in Served(h) :
         \/ inProgress[a] < MaxLen
         \/ hpc[h] = "terminate" /\ a = hagent[h] /\ inProgress[a] = MaxLen

\* The files describe a data set as the counters do.
SavedDescribed ==
  \A l \in Learners : saved[l].present =>
    Described(saved[l].nTransitions, saved[l].nEpisodes, saved[l].episodes)

Accounts ==
  /\ \A l \in Learners : Described(nTransitions[l], nEpisodes[l], episodes[l])
  /\ \A l \in Learners : Balanced(l)
  /\ SavedDescribed

\* Agents, handlers and lengths are finitely many, and all summands are numbers.
LEMMA Summands ==
  /\ IsFiniteSet(Agents) /\ IsFiniteSet(Handlers) /\ IsFiniteSet(Lengths)
  /\ Lengths \subseteq Nat
<1>1. IsFiniteSet(1 .. AgentsPerEnv) /\ IsFiniteSet(Lengths)
  BY LoopAssumption, FS_Interval DEF Lengths
<1>2. IsFiniteSet(Agents)
  BY <1>1, LoopAssumption, FS_Product DEF Agents
<1> QED BY <1>1, <1>2, LoopAssumption DEF Lengths

LEMMA SummandTypes ==
  ASSUME TypeOK, NEW l \in Learners
  PROVE  /\ OpenOf(l) \in [Agents -> Int] /\ MovingOf(l) \in [Handlers -> Int]
         /\ OwedOf(l) \in [Handlers -> Int] /\ Debt(l) \in [Handlers -> Int]
         /\ episodes[l] \in [Lengths -> Int] /\ Weighted(episodes[l]) \in [Lengths -> Int]
<1>1. /\ inProgress \in [Agents -> Nat] /\ hdone \in [Handlers -> Int]
      /\ episodes[l] \in [Lengths -> Nat]
  BY DEF TypeOK
<1>2. \A n \in Lengths : n * episodes[l][n] \in Int
  BY <1>1, Summands
<1>3. OpenOf(l) \in [Agents -> Int]
  BY <1>1 DEF OpenOf
<1>4. MovingOf(l) \in [Handlers -> Int] /\ OwedOf(l) \in [Handlers -> Int]
  BY <1>1 DEF MovingOf, OwedOf
<1>5. Debt(l) \in [Handlers -> Int]
  BY <1>4 DEF Debt
<1> QED BY <1>1, <1>2, <1>3, <1>4, <1>5 DEF Weighted

\* Stored, Open and Moving are sums of these functions.
LEMMA StoredIsSum ==
  ASSUME TypeOK, NEW l \in Learners
  PROVE  Stored(l) = SumOf(Weighted(episodes[l]), Lengths)
<1> DEFINE f == Weighted(episodes[l])
           Def(iter) == iter = [s \in SUBSET Lengths |-> IF s = {} THEN 0
               ELSE AnyOf(s) * episodes[l][AnyOf(s)] + iter[s \ {AnyOf(s)}]]
<1>1. Stored(l) = (CHOOSE iter : Def(iter))[Lengths]
  BY DEF Stored, SumOver, MapThenSumSet, MapThenFoldSet, AnyOf
<1>2. ASSUME NEW iter PROVE Def(iter) <=> Adds(iter, f, Lengths)
  <2>1. \A s \in SUBSET Lengths : s # {} => f[AnyOf(s)] = AnyOf(s) * episodes[l][AnyOf(s)]
    BY AnyFacts DEF Weighted
  <2> HIDE DEF f
  <2> QED BY <2>1 DEF Adds
<1>3. IsFiniteSet(Lengths) /\ f \in [Lengths -> Int]
  BY Summands, SummandTypes
<1> HIDE DEF f, Def
<1>4. Adds(CHOOSE iter : Def(iter), f, Lengths)
  BY <1>2, <1>3, AddsExists
<1>5. SumOf(f, Lengths) = (CHOOSE iter : Def(iter))[Lengths]
  BY <1>3, <1>4, SumIs
<1> QED BY <1>1, <1>5 DEF f

LEMMA CountIsSum ==
  ASSUME TypeOK, NEW l \in Learners
  PROVE  SumOver(Lengths, LAMBDA n : episodes[l][n]) = SumOf(episodes[l], Lengths)
BY DEF SumOver, SumOf

LEMMA OpenIsSum ==
  ASSUME TypeOK, NEW l \in Learners
  PROVE  Open(l) = SumOf(OpenOf(l), Agents)
<1> DEFINE S == {a \in Agents : LearnerOf(a) = l /\ inProgress[a] > 0}
           f == [a \in S |-> inProgress[a] - 1]
           Def(iter) == iter = [s \in SUBSET S |-> IF s = {} THEN 0
               ELSE inProgress[AnyOf(s)] - 1 + iter[s \ {AnyOf(s)}]]
<1>1. Open(l) = (CHOOSE iter : Def(iter))[S]
  BY DEF Open, SumOver, MapThenSumSet, MapThenFoldSet, AnyOf
<1>2. ASSUME NEW iter PROVE Def(iter) <=> Adds(iter, f, S)
  <2>1. \A s \in SUBSET S : s # {} => f[AnyOf(s)] = inProgress[AnyOf(s)] - 1
    BY AnyFacts
  <2> HIDE DEF f, S
  <2> QED BY <2>1 DEF Adds
<1>3. IsFiniteSet(S) /\ f \in [S -> Int] /\ S \in SUBSET Agents
  BY Summands, FS_Subset DEF TypeOK
<1>4. /\ \A a \in S : OpenOf(l)[a] = f[a]
      /\ \A a \in Agents \ S : OpenOf(l)[a] = 0
  BY DEF OpenOf
<1> HIDE DEF f, S, Def
<1>5. Adds(CHOOSE iter : Def(iter), f, S)
  BY <1>2, <1>3, AddsExists
<1>6. SumOf(f, S) = (CHOOSE iter : Def(iter))[S]
  BY <1>3, <1>5, SumIs
<1>7. SumOf(OpenOf(l), Agents) = SumOf(OpenOf(l), S)
  BY <1>3, <1>4, Summands, SummandTypes, SumOfNonzero
<1>8. SumOf(OpenOf(l), S) = SumOf(f, S)
  BY <1>3, <1>4, Summands, SummandTypes, SumAgree
<1> QED BY <1>1, <1>6, <1>7, <1>8

LEMMA MovingIsSum ==
  ASSUME TypeOK, NEW l \in Learners
  PROVE  Moving(l) = SumOf(MovingOf(l), Handlers)
<1> DEFINE S == {h \in Handlers : hpc[h] = "pushBack" /\ MyLearner(h) = l}
           f == [h \in S |-> hdone[h]]
           Def(iter) == iter = [s \in SUBSET S |-> IF s = {} THEN 0
               ELSE hdone[AnyOf(s)] + iter[s \ {AnyOf(s)}]]
<1>1. Moving(l) = (CHOOSE iter : Def(iter))[S]
  BY DEF Moving, SumOver, MapThenSumSet, MapThenFoldSet, AnyOf
<1>2. ASSUME NEW iter PROVE Def(iter) <=> Adds(iter, f, S)
  <2>1. \A s \in SUBSET S : s # {} => f[AnyOf(s)] = hdone[AnyOf(s)]
    BY AnyFacts
  <2> HIDE DEF f, S
  <2> QED BY <2>1 DEF Adds
<1>3. IsFiniteSet(S) /\ f \in [S -> Int] /\ S \in SUBSET Handlers
  BY Summands, FS_Subset DEF TypeOK
<1>4. /\ \A h \in S : MovingOf(l)[h] = f[h]
      /\ \A h \in Handlers \ S : MovingOf(l)[h] = 0
  BY DEF MovingOf
<1> HIDE DEF f, S, Def
<1>5. Adds(CHOOSE iter : Def(iter), f, S)
  BY <1>2, <1>3, AddsExists
<1>6. SumOf(f, S) = (CHOOSE iter : Def(iter))[S]
  BY <1>3, <1>5, SumIs
<1>7. SumOf(MovingOf(l), Handlers) = SumOf(MovingOf(l), S)
  BY <1>3, <1>4, Summands, SummandTypes, SumOfNonzero
<1>8. SumOf(MovingOf(l), S) = SumOf(f, S)
  BY <1>3, <1>4, Summands, SummandTypes, SumAgree
<1> QED BY <1>1, <1>6, <1>7, <1>8

\* The accounts are what TransitionsAccounted says.
LEMMA AccountsSuffice ==
  ASSUME TypeOK, Accounts
  PROVE  TransitionsAccounted
<1> SUFFICES ASSUME NEW l \in Learners
             PROVE  /\ nTransitions[l] = Stored(l)
                    /\ nEpisodes[l] = SumOver(Lengths, LAMBDA n : episodes[l][n])
                    /\ nSeenTransitions_loc[l] + Cardinality(NotCounted(l))
                         = nTransitions[l] + gone[l] + Open(l) + Moving(l)
  BY DEF TransitionsAccounted
<1>1. nTransitions[l] = Stored(l)
  BY StoredIsSum DEF Accounts, Described
<1>2. nEpisodes[l] = SumOver(Lengths, LAMBDA n : episodes[l][n])
  BY CountIsSum DEF Accounts, Described
<1>3. NotCounted(l) \in SUBSET Handlers
  BY DEF NotCounted, InFlight
<1>4. Cardinality(NotCounted(l)) = SumOf(OwedOf(l), Handlers)
  <2>1. \A h \in Handlers : OwedOf(l)[h] = IF h \in NotCounted(l) THEN 1 ELSE 0
    BY DEF OwedOf
  <2> QED BY <1>3, <2>1, Summands, SummandTypes, SumOfOnes
<1>5. SumOf(OwedOf(l), Handlers) = SumOf(Debt(l), Handlers) + SumOf(MovingOf(l), Handlers)
  <2>1. \A h \in Handlers : OwedOf(l)[h] = Debt(l)[h] + MovingOf(l)[h]
    BY SummandTypes DEF Debt
  <2> QED BY <2>1, Summands, SummandTypes, SumAdd
<1>6. /\ SumOf(Debt(l), Handlers) \in Int /\ SumOf(MovingOf(l), Handlers) \in Int
      /\ SumOf(OpenOf(l), Agents) \in Int
  BY Summands, SummandTypes, SumType
<1>7. nSeenTransitions_loc[l] \in Int /\ nTransitions[l] \in Int /\ gone[l] \in Int
  BY DEF TypeOK
<1>8. Balanced(l)
  BY DEF Accounts
<1>9. Open(l) = SumOf(OpenOf(l), Agents) /\ Moving(l) = SumOf(MovingOf(l), Handlers)
  BY OpenIsSum, MovingIsSum
<1> QED BY <1>1, <1>2, <1>4, <1>5, <1>6, <1>7, <1>8, <1>9 DEF Balanced

\* A data set with c episodes of d transitions more.
LEMMA DescribedMore ==
  ASSUME NEW bag \in [Lengths -> Nat], NEW d \in Lengths, NEW c \in Int, bag[d] + c \in Nat,
         NEW t \in Int, NEW n \in Int, Described(t, n, bag)
  PROVE  Described(t + c * d, n + c, [bag EXCEPT ![d] = @ + c])
<1> DEFINE more == [bag EXCEPT ![d] = @ + c]
<1>1. more \in [Lengths -> Nat] /\ more[d] = bag[d] + c /\ \A k \in Lengths \ {d} : more[k] = bag[k]
  OBVIOUS
<1> HIDE DEF more
<1>2. IsFiniteSet(Lengths) /\ Lengths \subseteq Nat /\ d \in Nat
  BY Summands
<1>3. bag \in [Lengths -> Int] /\ more \in [Lengths -> Int]
  BY <1>1
<1>4. /\ Weighted(bag) \in [Lengths -> Int] /\ Weighted(more) \in [Lengths -> Int]
      /\ \A k \in Lengths \ {d} : Weighted(more)[k] = Weighted(bag)[k]
      /\ Weighted(bag)[d] = d * bag[d] /\ Weighted(more)[d] = d * (bag[d] + c)
  BY <1>1, <1>2, <1>3 DEF Weighted
<1>5. SumOf(more, Lengths) = SumOf(bag, Lengths) - bag[d] + more[d]
  <2>1. IsFiniteSet(Lengths) /\ \A k \in Lengths \ {d} : more[k] = bag[k]
    BY <1>1, <1>2
  <2> QED BY <1>3, <2>1, SumChange
<1>6. SumOf(Weighted(more), Lengths) = SumOf(Weighted(bag), Lengths) - Weighted(bag)[d] + Weighted(more)[d]
  <2>1. /\ IsFiniteSet(Lengths) /\ \A k \in Lengths \ {d} : Weighted(more)[k] = Weighted(bag)[k]
        /\ Weighted(bag) \in [Lengths -> Int] /\ Weighted(more) \in [Lengths -> Int]
    BY <1>2, <1>4
  <2> QED BY <2>1, SumChange
<1>7. bag[d] \in Int /\ d * (bag[d] + c) = d * bag[d] + c * d /\ d * bag[d] \in Int /\ c * d \in Int
  BY <1>2
<1>8. t = SumOf(Weighted(bag), Lengths) /\ n = SumOf(bag, Lengths)
  BY DEF Described
<1>9. SumOf(Weighted(more), Lengths) = t + c * d
  BY <1>4, <1>6, <1>7, <1>8
<1>10. SumOf(more, Lengths) = n + c
  BY <1>1, <1>5, <1>7, <1>8
<1> QED BY <1>9, <1>10 DEF Described, more

LEMMA NothingDescribed == Described(0, 0, EmptyBag)
<1>1. /\ EmptyBag \in [Lengths -> Int] /\ Weighted(EmptyBag) \in [Lengths -> Int]
      /\ \A n \in Lengths : EmptyBag[n] = 0 /\ Weighted(EmptyBag)[n] = 0
  BY Summands DEF EmptyBag, Weighted
<1>2. \A f \in [Lengths -> Int] : (\A n \in Lengths : f[n] = 0) =>
        SumOf(f, Lengths) = Cardinality(Lengths) * 0
  <2> TAKE f \in [Lengths -> Int]
  <2> HAVE \A n \in Lengths : f[n] = 0
  <2>1. IsFiniteSet(Lengths) /\ 0 \in Int
    BY Summands
  <2> QED BY <2>1, SumConstant
<1>3. Cardinality(Lengths) \in Nat
  BY Summands, FS_CardinalityType
<1>4. SumOf(EmptyBag, Lengths) = 0 /\ SumOf(Weighted(EmptyBag), Lengths) = 0
  BY <1>1, <1>2, <1>3
<1> QED BY <1>4 DEF Described

\* What a handler and an agent add to the accounts of their learner.
Due(pc, status, done) ==
  IF pc \in {"terminate", "seenStep"} \/ (pc = "storeAction" /\ status = "CONT") THEN 1
  ELSE IF pc = "pushBack" THEN 1 - done ELSE 0
Inside(states) == IF states > 0 THEN states - 1 ELSE 0

LEMMA SummandsAre ==
  ASSUME NEW l \in Learners
  PROVE  /\ \A h \in Handlers :
              Debt(l)[h] = IF MyLearner(h) = l THEN Due(hpc[h], hstatus[h], hdone[h])
                           ELSE 0
         /\ \A a \in Agents :
              OpenOf(l)[a] = IF LearnerOf(a) = l THEN Inside(inProgress[a]) ELSE 0
<1>1. ASSUME NEW h \in Handlers
      PROVE  Debt(l)[h] = IF MyLearner(h) = l THEN Due(hpc[h], hstatus[h], hdone[h]) ELSE 0
  <2>1. Debt(l)[h] = OwedOf(l)[h] - MovingOf(l)[h]
    BY DEF Debt
  <2>2. MovingOf(l)[h] = IF hpc[h] = "pushBack" /\ MyLearner(h) = l THEN hdone[h] ELSE 0
    BY DEF MovingOf
  <2>3. h \in NotCounted(l) <=>
          /\ MyLearner(h) = l
          /\ \/ hpc[h] \in {"terminate", "pushBack", "seenStep"}
             \/ hpc[h] = "storeAction" /\ hstatus[h] = "CONT"
    BY DEF NotCounted, InFlight, InFlightPCs
  <2>4. OwedOf(l)[h] = IF h \in NotCounted(l) THEN 1 ELSE 0
    BY DEF OwedOf
  <2> QED BY <2>1, <2>2, <2>3, <2>4 DEF Due
<1>2. ASSUME NEW a \in Agents
      PROVE  OpenOf(l)[a] = IF LearnerOf(a) = l THEN Inside(inProgress[a]) ELSE 0
  BY DEF OpenOf, Inside
<1> QED BY <1>1, <1>2

\* Handler h does something to the open episode of its agent and to the counters of its
\* learner: the accounts balance if what it has added to them does.
Rest(l, h, a) ==
  nSeenTransitions_loc[l] + Due(hpc[h], hstatus[h], hdone[h])
    - (nTransitions[l] + gone[l] + Inside(inProgress[a]))
Alone(h, a) ==
  /\ \A k \in Handlers \ {h} : /\ hpc'[k] = hpc[k] /\ hagent'[k] = hagent[k]
                               /\ hstatus'[k] = hstatus[k] /\ hdone'[k] = hdone[k]
  /\ \A b \in Agents \ {a} : inProgress'[b] = inProgress[b]

LEMMA SummandTypesNext ==
  ASSUME TypeOK', NEW l \in Learners
  PROVE  OpenOf(l)' \in [Agents -> Int] /\ Debt(l)' \in [Handlers -> Int]
<1>1. inProgress' \in [Agents -> Nat] /\ hdone' \in [Handlers -> Int]
  BY DEF TypeOK
<1>3. OpenOf(l)' \in [Agents -> Int]
  BY <1>1 DEF OpenOf
<1>4. MovingOf(l)' \in [Handlers -> Int] /\ OwedOf(l)' \in [Handlers -> Int]
  BY <1>1 DEF MovingOf, OwedOf
<1>5. Debt(l)' \in [Handlers -> Int]
  BY <1>4 DEF Debt
<1> QED BY <1>3, <1>5

LEMMA SummandsAreNext ==
  ASSUME NEW l \in Learners
  PROVE  /\ \A h \in Handlers :
              Debt(l)'[h] = IF MyLearner(h)' = l THEN Due(hpc'[h], hstatus'[h], hdone'[h])
                            ELSE 0
         /\ \A a \in Agents :
              OpenOf(l)'[a] = IF LearnerOf(a) = l THEN Inside(inProgress'[a]) ELSE 0
<1>1. ASSUME NEW h \in Handlers
      PROVE  Debt(l)'[h] = IF MyLearner(h)' = l THEN Due(hpc'[h], hstatus'[h], hdone'[h]) ELSE 0
  <2>1. Debt(l)'[h] = OwedOf(l)'[h] - MovingOf(l)'[h]
    BY DEF Debt
  <2>2. MovingOf(l)'[h] = IF hpc'[h] = "pushBack" /\ MyLearner(h)' = l THEN hdone'[h] ELSE 0
    BY DEF MovingOf
  <2>3. h \in NotCounted(l)' <=>
          /\ MyLearner(h)' = l
          /\ \/ hpc'[h] \in {"terminate", "pushBack", "seenStep"}
             \/ hpc'[h] = "storeAction" /\ hstatus'[h] = "CONT"
    BY DEF NotCounted, InFlight, InFlightPCs
  <2>4. OwedOf(l)'[h] = IF h \in NotCounted(l)' THEN 1 ELSE 0
    BY DEF OwedOf
  <2> QED BY <2>1, <2>2, <2>3, <2>4 DEF Due
<1>2. ASSUME NEW a \in Agents
      PROVE  OpenOf(l)'[a] = IF LearnerOf(a) = l THEN Inside(inProgress'[a]) ELSE 0
  BY DEF OpenOf, Inside
<1> QED BY <1>1, <1>2

LEMMA BalanceKept ==
  ASSUME TypeOK, TypeOK', NEW h \in Handlers, hagent' = hagent, Alone(h, hagent[h]),
         \A l \in Learners \ {MyLearner(h)} :
           /\ nSeenTransitions_loc'[l] = nSeenTransitions_loc[l]
           /\ nTransitions'[l] = nTransitions[l] /\ gone'[l] = gone[l],
         Rest(MyLearner(h), h, hagent[h])' = Rest(MyLearner(h), h, hagent[h]),
         NEW l \in Learners, Balanced(l)
  PROVE  Balanced(l)'
<1> DEFINE a == hagent[h]
<1>0. a \in Agents /\ MyLearner(h) = LearnerOf(a) /\ MyLearner(h)' = MyLearner(h)
      /\ hagent'[h] = a
  BY DEF TypeOK, MyLearner
<1>1. /\ OpenOf(l) \in [Agents -> Int] /\ Debt(l) \in [Handlers -> Int]
      /\ OpenOf(l)' \in [Agents -> Int] /\ Debt(l)' \in [Handlers -> Int]
      /\ IsFiniteSet(Agents) /\ IsFiniteSet(Handlers)
  BY SummandTypes, SummandTypesNext, Summands
<1>2. \A k \in Handlers \ {h} : Debt(l)'[k] = Debt(l)[k]
  BY SummandsAre, SummandsAreNext DEF Alone, MyLearner
<1>3. \A b \in Agents \ {a} : OpenOf(l)'[b] = OpenOf(l)[b]
  BY SummandsAre, SummandsAreNext DEF Alone
<1>4. SumOf(Debt(l)', Handlers) = SumOf(Debt(l), Handlers) - Debt(l)[h] + Debt(l)'[h]
  BY <1>1, <1>2, SumChange
<1>5. SumOf(OpenOf(l)', Agents) = SumOf(OpenOf(l), Agents) - OpenOf(l)[a] + OpenOf(l)'[a]
  BY <1>0, <1>1, <1>3, SumChange
<1>6. /\ nSeenTransitions_loc[l] \in Int /\ nSeenTransitions_loc'[l] \in Int
      /\ nTransitions[l] \in Int /\ nTransitions'[l] \in Int
      /\ gone[l] \in Int /\ gone'[l] \in Int
      /\ inProgress[a] \in Nat /\ inProgress'[a] \in Nat
      /\ hdone[h] \in Int /\ hdone'[h] \in Int
  BY <1>0 DEF TypeOK
<1>7. /\ SumOf(Debt(l), Handlers) \in Int /\ SumOf(OpenOf(l), Agents) \in Int
      /\ Debt(l)[h] \in Int /\ Debt(l)'[h] \in Int /\ OpenOf(l)[a] \in Int /\ OpenOf(l)'[a] \in Int
  BY <1>0, <1>1, SumType
<1> DEFINE due == Due(hpc[h], hstatus[h], hdone[h])
           duen == Due(hpc'[h], hstatus'[h], hdone'[h])
           ins == Inside(inProgress[a])
           insn == Inside(inProgress'[a])
<1>8. /\ Debt(l)[h] = IF MyLearner(h) = l THEN due ELSE 0
      /\ Debt(l)'[h] = IF MyLearner(h) = l THEN duen ELSE 0
      /\ OpenOf(l)[a] = IF MyLearner(h) = l THEN ins ELSE 0
      /\ OpenOf(l)'[a] = IF MyLearner(h) = l THEN insn ELSE 0
  BY <1>0, SummandsAre, SummandsAreNext
<1>9. CASE MyLearner(h) = l
  <2>1. nSeenTransitions_loc'[l] + duen - (nTransitions'[l] + gone'[l] + insn)
          = nSeenTransitions_loc[l] + due - (nTransitions[l] + gone[l] + ins)
    BY <1>0, <1>9 DEF Rest
  <2>2. Debt(l)[h] = due /\ Debt(l)'[h] = duen /\ OpenOf(l)[a] = ins /\ OpenOf(l)'[a] = insn
    BY <1>8, <1>9
  <2>3. due \in Int /\ duen \in Int /\ ins \in Int /\ insn \in Int
    BY <1>7, <2>2
  <2>4. nSeenTransitions_loc[l] + SumOf(Debt(l), Handlers)
          = nTransitions[l] + gone[l] + SumOf(OpenOf(l), Agents)
    BY DEF Balanced
  <2> HIDE DEF a, due, duen, ins, insn
  <2>5. nSeenTransitions_loc'[l] + SumOf(Debt(l)', Handlers)
          = nTransitions'[l] + gone'[l] + SumOf(OpenOf(l)', Agents)
    BY <1>4, <1>5, <1>6, <1>7, <2>1, <2>2, <2>3, <2>4
  <2> QED BY <2>5 DEF Balanced
<1>10. CASE MyLearner(h) # l
  <2>1. Debt(l)[h] = 0 /\ Debt(l)'[h] = 0 /\ OpenOf(l)[a] = 0 /\ OpenOf(l)'[a] = 0
    BY <1>8, <1>10
  <2>2. /\ nSeenTransitions_loc'[l] = nSeenTransitions_loc[l]
        /\ nTransitions'[l] = nTransitions[l] /\ gone'[l] = gone[l]
    BY <1>10
  <2> HIDE DEF a
  <2> QED BY <1>4, <1>5, <1>6, <1>7, <2>1, <2>2 DEF Balanced
<1> QED BY <1>9, <1>10

\* The initial accounts, after a start and after a restart: nobody has a state in hand.
LEMMA Settled ==
  ASSUME NEW l \in Learners, inProgress = [a \in Agents |-> 0], hpc = [h \in Handlers |-> "test"],
         nSeenTransitions_loc[l] \in Int, nTransitions[l] \in Int, gone[l] \in Int,
         gone[l] = nSeenTransitions_loc[l] - nTransitions[l]
  PROVE  Balanced(l)
<1>1. /\ \A h \in Handlers : Debt(l)[h] = 0
      /\ \A a \in Agents : OpenOf(l)[a] = 0
  BY SummandsAre DEF Due, Inside
<1>2. /\ OpenOf(l) \in [Agents -> Int] /\ Debt(l) \in [Handlers -> Int]
  BY <1>1 DEF OpenOf, Debt
<1>3. /\ IsFiniteSet(Agents) /\ IsFiniteSet(Handlers) /\ 0 \in Int
  BY Summands
<1>4. SumOf(Debt(l), Handlers) = Cardinality(Handlers) * 0
  BY <1>1, <1>2, <1>3, SumConstant
<1>5. SumOf(OpenOf(l), Agents) = Cardinality(Agents) * 0
  BY <1>1, <1>2, <1>3, SumConstant
<1>6. Cardinality(Handlers) \in Nat /\ Cardinality(Agents) \in Nat
  BY <1>3, FS_CardinalityType
<1>7. SumOf(Debt(l), Handlers) = 0 /\ SumOf(OpenOf(l), Agents) = 0
  BY <1>4, <1>5, <1>6
<1> QED BY <1>7 DEF Balanced

LEMMA SettledNext ==
  ASSUME NEW l \in Learners, inProgress' = [a \in Agents |-> 0],
         hpc' = [h \in Handlers |-> "test"],
         nSeenTransitions_loc'[l] \in Int, nTransitions'[l] \in Int, gone'[l] \in Int,
         gone'[l] = nSeenTransitions_loc'[l] - nTransitions'[l]
  PROVE  Balanced(l)'
<1>1. /\ \A h \in Handlers : Debt(l)'[h] = 0
      /\ \A a \in Agents : OpenOf(l)'[a] = 0
  BY SummandsAreNext DEF Due, Inside
<1>2. /\ OpenOf(l)' \in [Agents -> Int] /\ Debt(l)' \in [Handlers -> Int]
  BY <1>1 DEF OpenOf, Debt
<1>3. /\ IsFiniteSet(Agents) /\ IsFiniteSet(Handlers) /\ 0 \in Int
  BY Summands
<1>4. SumOf(Debt(l)', Handlers) = Cardinality(Handlers) * 0
  BY <1>1, <1>2, <1>3, SumConstant
<1>5. SumOf(OpenOf(l)', Agents) = Cardinality(Agents) * 0
  BY <1>1, <1>2, <1>3, SumConstant
<1>6. Cardinality(Handlers) \in Nat /\ Cardinality(Agents) \in Nat
  BY <1>3, FS_CardinalityType
<1>7. SumOf(Debt(l)', Handlers) = 0 /\ SumOf(OpenOf(l)', Agents) = 0
  BY <1>4, <1>5, <1>6
<1> QED BY <1>7 DEF Balanced

\* The conjuncts of EpisodeInv that speak of handler h.
EpisodeOf(h) ==
  /\ hpc[h] \in {"gate", "storeState"} =>
       \/ hstatus[h] = "INIT" /\ inProgress[hagent[h]] = 0
       \/ hstatus[h] = "CONT" /\ inProgress[hagent[h]] > 0
                              /\ inProgress[hagent[h]] + 2 <= MaxLen
       \/ hstatus[h] = "LAST" /\ inProgress[hagent[h]] > 0
  /\ hpc[h] = "storeAction" => hstatus[h] # "LAST"
  /\ hpc[h] = "terminate" => inProgress[hagent[h]] >= 2
  /\ hpc[h] = "pushBack" => hdone[h] \in Lengths
  /\ \A a \in Served(h) :
       \/ inProgress[a] < MaxLen
       \/ hpc[h] = "terminate" /\ a = hagent[h] /\ inProgress[a] = MaxLen

\* The steps of one handler leave the agents of the others alone.
LEMMA EpisodeOfOthers ==
  ASSUME TypeOK, HandlerInv, EpisodeInv, NEW h \in Handlers, NEW a \in Served(h), Alone(h, a),
         NEW k \in Handlers \ {h}
  PROVE  EpisodeOf(k)'
<1>1. EpisodeOf(k) /\ hagent[k] \in Served(k)
  BY DEF EpisodeInv, EpisodeOf, HandlerInv
<1>2. \A b \in Served(k) : inProgress'[b] = inProgress[b]
  <2>1. \A b \in Served(k) : b # a /\ b \in Agents
    BY ServedApart, AgentFacts
  <2> QED BY <2>1 DEF Alone
<1>3. /\ hpc'[k] = hpc[k] /\ hagent'[k] = hagent[k] /\ hstatus'[k] = hstatus[k]
      /\ hdone'[k] = hdone[k]
  BY DEF Alone
<1> QED BY <1>1, <1>2, <1>3 DEF EpisodeOf

LEMMA HandlerAlone ==
  ASSUME TypeOK, HandlerInv, NEW h \in Handlers, Answer(h)
  PROVE  Alone(h, hagent[h]) /\ hagent' = hagent /\ hagent[h] \in Served(h)
<1>1. /\ hpc \in [Handlers -> HandlerPCs] /\ hdone \in [Handlers -> Int]
      /\ hstatus \in [Handlers -> Statuses] /\ inProgress \in [Agents -> Nat]
      /\ hagent[h] \in Served(h)
  BY DEF TypeOK, HandlerInv
<1>2. CASE PassGate(h) \/ ExitAtGate(h) \/ storeState(h)
  BY <1>1, <1>2 DEF PassGate, ExitAtGate, storeState, Alone, HandlerGoto, bufferVars
<1>3. CASE storeAction(h) \/ terminateCurrentEpisode(h) \/ pushBackEpisode(h)
  BY <1>1, <1>3 DEF storeAction, terminateCurrentEpisode, pushBackEpisode, Alone, HandlerGoto,
     bufferVars
<1>4. CASE increaseLocalSeenSteps(h) \/ increaseLocalSeenEps(h) \/ Reply(h)
  BY <1>1, <1>4 DEF increaseLocalSeenSteps, increaseLocalSeenEps, Reply, Alone, HandlerGoto,
     bufferVars
<1> QED BY <1>2, <1>3, <1>4 DEF Answer

LEMMA EpisodeStep ==
  ASSUME TypeOK, HandlerInv, EpisodeInv, [Next]_vars
  PROVE  EpisodeInv'
<1>0. /\ hpc \in [Handlers -> HandlerPCs] /\ hdone \in [Handlers -> Int]
      /\ hstatus \in [Handlers -> Statuses] /\ inProgress \in [Agents -> Nat]
      /\ hagent \in [Handlers -> Agents]
      /\ MaxLen \in Nat /\ MaxLen >= 2
  BY LoopAssumption DEF TypeOK
<1>f. \A h \in Handlers : EpisodeOf(h) /\ hagent[h] \in Served(h)
  BY DEF EpisodeInv, EpisodeOf, HandlerInv
<1>k. (\A h \in Handlers : EpisodeOf(h)') => EpisodeInv'
  BY DEF EpisodeInv, EpisodeOf
<1>1. ASSUME NEW h \in Handlers, Answer(h) PROVE EpisodeInv'
  <2>1. Alone(h, hagent[h]) /\ hagent' = hagent
    BY <1>1, HandlerAlone
  <2>2. \A k \in Handlers \ {h} : EpisodeOf(k)'
    BY <1>f, <2>1, EpisodeOfOthers
  <2>3. EpisodeOf(h)'
    <3> DEFINE a == hagent[h]
    <3>0. a \in Agents /\ a \in Served(h) /\ Served(h) \subseteq Agents /\ EpisodeOf(h)
      BY <1>0, <1>f, AgentFacts
    <3>1. CASE PassGate(h)
      BY <1>0, <3>0, <3>1 DEF PassGate, HandlerGoto, EpisodeOf, bufferVars
    <3>2. CASE ExitAtGate(h)
      BY <1>0, <3>0, <3>2 DEF ExitAtGate, HandlerGoto, EpisodeOf, bufferVars
    <3>3. CASE storeState(h)
      <4>1. /\ inProgress'[a] = inProgress[a] + 1 /\ hstatus' = hstatus
            /\ \A b \in Served(h) \ {a} : inProgress'[b] = inProgress[b]
            /\ hpc[h] = "storeState" /\ inProgress[a] \in Nat
            /\ hpc'[h] = IF hstatus[h] = "LAST" THEN "terminate" ELSE "storeAction"
        BY <1>0, <3>0, <3>3 DEF storeState, HandlerGoto
      <4>2. CASE hstatus[h] = "LAST"
        BY <1>0, <3>0, <4>1, <4>2, <2>1 DEF EpisodeOf
      <4>3. CASE hstatus[h] # "LAST"
        BY <1>0, <3>0, <4>1, <4>3, <2>1 DEF EpisodeOf
      <4> QED BY <4>2, <4>3
    <3>4. CASE storeAction(h)
      BY <1>0, <3>0, <3>4 DEF storeAction, HandlerGoto, EpisodeOf, bufferVars
    <3>5. CASE terminateCurrentEpisode(h)
      <4>1. /\ hpc[h] = "terminate" /\ hpc'[h] = "pushBack" /\ hdone'[h] = inProgress[a] - 1
            /\ inProgress'[a] = 0 /\ \A b \in Served(h) \ {a} : inProgress'[b] = inProgress[b]
        BY <1>0, <3>0, <3>5 DEF terminateCurrentEpisode, HandlerGoto
      <4>2. inProgress[a] \in 2 .. MaxLen
        BY <1>0, <3>0, <4>1 DEF EpisodeOf
      <4>3. hdone'[h] \in Lengths
        BY <1>0, <4>1, <4>2 DEF Lengths
      <4> QED BY <1>0, <3>0, <4>1, <4>3, <2>1 DEF EpisodeOf
    <3>6. CASE pushBackEpisode(h)
      BY <1>0, <3>0, <3>6 DEF pushBackEpisode, HandlerGoto, EpisodeOf
    <3>7. CASE increaseLocalSeenSteps(h) \/ increaseLocalSeenEps(h)
      BY <1>0, <3>0, <3>7 DEF increaseLocalSeenSteps, increaseLocalSeenEps, HandlerGoto,
         EpisodeOf, bufferVars
    <3>8. CASE Reply(h)
      BY <1>0, <3>0, <3>8 DEF Reply, HandlerGoto, EpisodeOf, bufferVars
    <3> QED BY <1>1, <3>1, <3>2, <3>3, <3>4, <3>5, <3>6, <3>7, <3>8 DEF Answer
  <2> QED BY <1>k, <2>2, <2>3
<1>2. ASSUME NEW h \in Handlers, NEW status \in Statuses, NEW a \in Served(h),
             Receive(h, a, status)
      PROVE  EpisodeInv'
  <2>1. /\ hpc[h] = "test" /\ hpc' = [hpc EXCEPT ![h] = "gate"]
        /\ hagent' = [hagent EXCEPT ![h] = a] /\ hstatus' = [hstatus EXCEPT ![h] = status]
        /\ UNCHANGED <<inProgress, hdone>> /\ MaySend(a, status)
    BY <1>2 DEF Receive, HandlerGoto
  <2>2. Alone(h, a)
    BY <1>0, <2>1 DEF Alone
  <2>3. \A k \in Handlers \ {h} : EpisodeOf(k)'
    BY <2>2, EpisodeOfOthers
  <2>4. \/ status = "INIT" /\ inProgress[a] = 0
        \/ status = "CONT" /\ inProgress[a] > 0 /\ inProgress[a] + 2 <= MaxLen
        \/ status = "LAST" /\ inProgress[a] > 0
    BY <2>1 DEF MaySend, Statuses
  <2>5. EpisodeOf(h)'
    BY <1>0, <1>f, <2>1, <2>4 DEF EpisodeOf
  <2> QED BY <1>k, <2>3, <2>5
<1>3. CASE CrashAndRestart
  <2>1. /\ hpc' = [h \in Handlers |-> "test"] /\ inProgress' = [a \in Agents |-> 0]
    BY <1>3 DEF CrashAndRestart
  <2>2. ASSUME NEW h \in Handlers PROVE EpisodeOf(h)'
    BY <1>0, <2>1, AgentFacts DEF EpisodeOf
  <2> QED BY <1>k, <2>2
<1>4. ASSUME \/ stepInit \/ stepMain \/ removalDone \/ logStats \/ isOver \/ Join
             \/ (\E n \in Lengths : removeBackEpisode(n))
             \/ (\E reduced \in BOOLEAN : stepComplete(reduced))
             \/ UNCHANGED vars
      PROVE  EpisodeInv'
  <2>1. UNCHANGED <<hpc, hagent, hstatus, hdone, inProgress>>
    BY <1>4 DEF stepInit, stepMain, removalDone, logStats, isOver, Join, Untouched,
       removeBackEpisode, stepComplete, vars, loopVars, handlerVars, bufferVars
  <2> QED BY <2>1 DEF EpisodeInv
<1> QED
  BY <1>1, <1>2, <1>3, <1>4 DEF Next, Step, MainStep, vars

\* The accounts of a step in which no summand changes.
LEMMA AccountsQuiet ==
  ASSUME Accounts,
         UNCHANGED <<hpc, hagent, hstatus, hdone, inProgress, nSeenTransitions_loc, nTransitions,
                     nEpisodes, episodes, gone, saved>>
  PROVE  Accounts'
<1>1. \A l \in Learners : Debt(l)' = Debt(l) /\ OpenOf(l)' = OpenOf(l)
  BY DEF Debt, OwedOf, MovingOf, NotCounted, InFlight, MyLearner, OpenOf
<1>2. \A l \in Learners : Balanced(l)'
  BY <1>1 DEF Accounts, Balanced
<1> QED BY <1>2 DEF Accounts, SavedDescribed

\* Whatever a handler does to an episode of its agent, it does to the counters of its learner.
LEMMA AccountsOfHandler ==
  ASSUME TypeOK, TypeOK', HandlerInv, EpisodeInv, Accounts, NEW h \in Handlers, Answer(h)
  PROVE  Accounts'
<1> DEFINE a == hagent[h]
           L == MyLearner(h)
<1>0. /\ hpc \in [Handlers -> HandlerPCs] /\ hdone \in [Handlers -> Int]
      /\ hstatus \in [Handlers -> Statuses] /\ inProgress \in [Agents -> Nat]
      /\ a \in Agents /\ L \in Learners /\ EpisodeOf(h)
      /\ nSeenTransitions_loc \in [Learners -> Nat] /\ nTransitions \in [Learners -> Int]
      /\ nEpisodes \in [Learners -> Int] /\ gone \in [Learners -> Int]
      /\ episodes \in [Learners -> [Lengths -> Nat]]
  BY AgentFacts DEF TypeOK, MyLearner, EpisodeInv, EpisodeOf
<1>1. Alone(h, a) /\ hagent' = hagent /\ a \in Served(h)
  BY HandlerAlone
<1>2. UNCHANGED <<gone, saved>>
  BY DEF Answer, PassGate, ExitAtGate, storeState, storeAction, terminateCurrentEpisode,
     pushBackEpisode, increaseLocalSeenSteps, increaseLocalSeenEps, Reply, diskVars, histVars
<1>3. ASSUME \A l \in Learners \ {L} :
               /\ nSeenTransitions_loc'[l] = nSeenTransitions_loc[l]
               /\ nTransitions'[l] = nTransitions[l],
             Rest(L, h, a)' = Rest(L, h, a)
      PROVE  \A l \in Learners : Balanced(l)'
  <2>1. \A l \in Learners \ {L} :
          /\ nSeenTransitions_loc'[l] = nSeenTransitions_loc[l]
          /\ nTransitions'[l] = nTransitions[l] /\ gone'[l] = gone[l]
    BY <1>2, <1>3
  <2>2. \A l \in Learners : Balanced(l)
    BY DEF Accounts
  <2> QED BY <1>1, <1>3, <2>1, <2>2, BalanceKept
<1>4. UNCHANGED <<nTransitions, nEpisodes, episodes>> =>
        \A l \in Learners : Described(nTransitions[l], nEpisodes[l], episodes[l])'
  BY DEF Accounts
<1>5. SavedDescribed'
  BY <1>2 DEF Accounts, SavedDescribed
<1>6. /\ Rest(L, h, a) = nSeenTransitions_loc[L] + Due(hpc[h], hstatus[h], hdone[h])
                            - (nTransitions[L] + gone[L] + Inside(inProgress[a]))
      /\ Rest(L, h, a)' = nSeenTransitions_loc'[L] + Due(hpc'[h], hstatus'[h], hdone'[h])
                            - (nTransitions'[L] + gone[L] + Inside(inProgress'[a]))
  BY <1>1, <1>2 DEF Rest, MyLearner
<1>7. CASE PassGate(h) \/ ExitAtGate(h) \/ Reply(h)
  <2>1. /\ UNCHANGED <<nSeenTransitions_loc, nTransitions, nEpisodes, episodes, inProgress>>
        /\ hpc[h] \in {"gate", "reply"} /\ hpc'[h] \in {"storeState", "exit", "test"}
    BY <1>0, <1>7 DEF PassGate, ExitAtGate, Reply, HandlerGoto, bufferVars, counterVars
  <2>2. Due(hpc[h], hstatus[h], hdone[h]) = 0 /\ Due(hpc'[h], hstatus'[h], hdone'[h]) = 0
    BY <2>1 DEF Due
  <2>3. \A l \in Learners : Balanced(l)'
    BY <1>3, <1>6, <2>1, <2>2
  <2> QED BY <1>4, <1>5, <2>1, <2>3 DEF Accounts
<1>8. CASE storeState(h)
  <2>1. /\ UNCHANGED <<nSeenTransitions_loc, nTransitions, nEpisodes, episodes, hstatus>>
        /\ hpc[h] = "storeState" /\ inProgress'[a] = inProgress[a] + 1
        /\ hpc'[h] = IF hstatus[h] = "LAST" THEN "terminate" ELSE "storeAction"
    BY <1>0, <1>8 DEF storeState, HandlerGoto, counterVars
  <2>2. \/ hstatus[h] = "INIT" /\ inProgress[a] = 0
        \/ hstatus[h] \in {"CONT", "LAST"} /\ inProgress[a] > 0
    BY <1>0, <2>1 DEF EpisodeOf
  <2>3. Due(hpc'[h], hstatus'[h], hdone'[h]) - Inside(inProgress'[a])
          = Due(hpc[h], hstatus[h], hdone[h]) - Inside(inProgress[a])
    BY <1>0, <2>1, <2>2 DEF Due, Inside
  <2>4. /\ Due(hpc[h], hstatus[h], hdone[h]) \in Int /\ Due(hpc'[h], hstatus'[h], hdone'[h]) \in Int
        /\ Inside(inProgress'[a]) \in Int /\ Inside(inProgress[a]) \in Int
    BY <1>0, <2>1, <2>2 DEF Due, Inside
  <2>5. \A l \in Learners : Balanced(l)'
    <3>1. Rest(L, h, a)' = Rest(L, h, a)
      <4>1. /\ nTransitions[L] \in Int /\ gone[L] \in Int /\ nSeenTransitions_loc[L] \in Int
        BY <1>0
      <4> HIDE DEF a, L
      <4> QED BY <1>6, <2>1, <2>3, <2>4, <4>1
    <3> QED BY <1>3, <2>1, <3>1
  <2> QED BY <1>4, <1>5, <2>1, <2>5 DEF Accounts
<1>9. CASE storeAction(h)
  <2>1. /\ UNCHANGED <<nTransitions, nEpisodes, episodes, hstatus, inProgress>>
        /\ hpc[h] = "storeAction" /\ hpc'[h] = "reply"
        /\ nSeenTransitions_loc' = IF hstatus[h] # "INIT"
                                   THEN [nSeenTransitions_loc EXCEPT ![L] = @ + 1]
                                   ELSE nSeenTransitions_loc
    BY <1>0, <1>9 DEF storeAction, HandlerGoto, bufferVars
  <2>2. hstatus[h] \in {"INIT", "CONT"}
    BY <1>0, <2>1 DEF EpisodeOf, Statuses
  <2>3. /\ \A l \in Learners \ {L} : nSeenTransitions_loc'[l] = nSeenTransitions_loc[l]
        /\ nSeenTransitions_loc'[L] + Due(hpc'[h], hstatus'[h], hdone'[h])
             = nSeenTransitions_loc[L] + Due(hpc[h], hstatus[h], hdone[h])
    BY <1>0, <2>1, <2>2 DEF Due
  <2>4. \A l \in Learners : Balanced(l)'
    <3>1. Rest(L, h, a)' = Rest(L, h, a)
      <4>1. /\ inProgress[a] \in Nat /\ nTransitions[L] \in Int /\ gone[L] \in Int
            /\ nSeenTransitions_loc[L] \in Int /\ nSeenTransitions_loc'[L] \in Int
        BY <1>0, <2>1
      <4>2. /\ Inside(inProgress[a]) \in Int /\ Due(hpc[h], hstatus[h], hdone[h]) \in Int
            /\ Due(hpc'[h], hstatus'[h], hdone'[h]) \in Int
        BY <4>1, <2>1 DEF Inside, Due
      <4> HIDE DEF a, L
      <4> QED BY <1>6, <2>1, <2>3, <4>1, <4>2
    <3> QED BY <1>3, <2>1, <2>3, <3>1
  <2> QED BY <1>4, <1>5, <2>1, <2>4 DEF Accounts
<1>10. CASE terminateCurrentEpisode(h)
  <2>1. /\ UNCHANGED <<nSeenTransitions_loc, nTransitions, nEpisodes, episodes>>
        /\ hpc[h] = "terminate" /\ hpc'[h] = "pushBack" /\ hdone'[h] = inProgress[a] - 1
        /\ inProgress'[a] = 0
    BY <1>0, <1>10 DEF terminateCurrentEpisode, HandlerGoto, counterVars
  <2>2. inProgress[a] >= 2
    BY <1>0, <2>1 DEF EpisodeOf
  <2>3. /\ Due(hpc'[h], hstatus'[h], hdone'[h]) = 1 - (inProgress[a] - 1)
        /\ Due(hpc[h], hstatus[h], hdone[h]) = 1
        /\ Inside(inProgress'[a]) = 0 /\ Inside(inProgress[a]) = inProgress[a] - 1
    BY <1>0, <2>1, <2>2 DEF Due, Inside
  <2>4. \A l \in Learners : Balanced(l)'
    BY <1>0, <1>3, <1>6, <2>1, <2>3
  <2> QED BY <1>4, <1>5, <2>1, <2>4 DEF Accounts
<1>11. CASE pushBackEpisode(h)
  <2> DEFINE d == hdone[h]
  <2>1. /\ UNCHANGED <<nSeenTransitions_loc, inProgress, hdone>>
        /\ hpc[h] = "pushBack" /\ hpc'[h] = "seenStep"
        /\ episodes' = [episodes EXCEPT ![L][d] = @ + 1]
        /\ nEpisodes' = [nEpisodes EXCEPT ![L] = @ + 1]
        /\ nTransitions' = [nTransitions EXCEPT ![L] = @ + d]
    BY <1>0, <1>11 DEF pushBackEpisode, HandlerGoto
  <2>2. d \in Lengths /\ d \in Nat
    BY <1>0, <2>1, Summands DEF EpisodeOf
  <2>3. /\ \A l \in Learners \ {L} : nTransitions'[l] = nTransitions[l]
        /\ nTransitions'[L] = nTransitions[L] + d
    BY <1>0, <2>1
  <2>4. Due(hpc'[h], hstatus'[h], hdone'[h]) = 1 /\ Due(hpc[h], hstatus[h], hdone[h]) = 1 - d
    BY <2>1 DEF Due
  <2>5. \A l \in Learners : Balanced(l)'
    <3>1. Rest(L, h, a)' = Rest(L, h, a)
      <4>1. inProgress[a] \in Nat /\ nTransitions[L] \in Int /\ gone[L] \in Int
            /\ nSeenTransitions_loc[L] \in Int
        BY <1>0
      <4>2. Inside(inProgress[a]) \in Int
        BY <4>1 DEF Inside
      <4> HIDE DEF a, L, d
      <4> QED BY <1>6, <2>1, <2>2, <2>3, <2>4, <4>1, <4>2
    <3> QED BY <1>3, <2>1, <2>3, <3>1
  <2>6. ASSUME NEW l \in Learners PROVE Described(nTransitions[l], nEpisodes[l], episodes[l])'
    <3>0. Described(nTransitions[l], nEpisodes[l], episodes[l])
      BY DEF Accounts
    <3>1. CASE l # L
      <4>1. nTransitions'[l] = nTransitions[l] /\ nEpisodes'[l] = nEpisodes[l]
            /\ episodes'[l] = episodes[l]
        BY <1>0, <2>1, <3>1
      <4> QED BY <3>0, <4>1
    <3>2. CASE l = L
      <4>1. /\ nTransitions'[l] = nTransitions[l] + 1 * d /\ nEpisodes'[l] = nEpisodes[l] + 1
            /\ episodes'[l] = [episodes[l] EXCEPT ![d] = @ + 1]
        BY <1>0, <2>1, <2>2, <3>2
      <4>2. /\ episodes[l] \in [Lengths -> Nat] /\ episodes[l][d] + 1 \in Nat /\ 1 \in Int
            /\ nTransitions[l] \in Int /\ nEpisodes[l] \in Int
        BY <1>0, <2>2
      <4> HIDE DEF d
      <4>3. Described(nTransitions[l] + 1 * d, nEpisodes[l] + 1, [episodes[l] EXCEPT ![d] = @ + 1])
        BY <2>2, <3>0, <4>2, DescribedMore
      <4> QED BY <4>1, <4>3
    <3> QED BY <3>1, <3>2
  <2> QED BY <1>5, <2>5, <2>6 DEF Accounts
<1>12. CASE increaseLocalSeenSteps(h)
  <2>1. /\ UNCHANGED <<nTransitions, nEpisodes, episodes, inProgress>>
        /\ hpc[h] = "seenStep" /\ hpc'[h] = "seenEps"
        /\ nSeenTransitions_loc' = [nSeenTransitions_loc EXCEPT ![L] = @ + 1]
    BY <1>0, <1>12 DEF increaseLocalSeenSteps, HandlerGoto, bufferVars
  <2>2. /\ \A l \in Learners \ {L} : nSeenTransitions_loc'[l] = nSeenTransitions_loc[l]
        /\ nSeenTransitions_loc'[L] + Due(hpc'[h], hstatus'[h], hdone'[h])
             = nSeenTransitions_loc[L] + Due(hpc[h], hstatus[h], hdone[h])
    BY <1>0, <2>1 DEF Due
  <2>3. \A l \in Learners : Balanced(l)'
    <3>1. Rest(L, h, a)' = Rest(L, h, a)
      <4>1. /\ inProgress[a] \in Nat /\ nTransitions[L] \in Int /\ gone[L] \in Int
            /\ nSeenTransitions_loc[L] \in Int /\ nSeenTransitions_loc'[L] \in Int
        BY <1>0, <2>1
      <4>2. /\ Inside(inProgress[a]) \in Int /\ Due(hpc[h], hstatus[h], hdone[h]) \in Int
            /\ Due(hpc'[h], hstatus'[h], hdone'[h]) \in Int
        BY <4>1, <2>1 DEF Inside, Due
      <4> HIDE DEF a, L
      <4> QED BY <1>6, <2>1, <2>2, <4>1, <4>2
    <3> QED BY <1>3, <2>1, <2>2, <3>1
  <2> QED BY <1>4, <1>5, <2>1, <2>3 DEF Accounts
<1>13. CASE increaseLocalSeenEps(h)
  <2>1. /\ UNCHANGED <<nSeenTransitions_loc, nTransitions, nEpisodes, episodes, inProgress>>
        /\ hpc[h] = "seenEps" /\ hpc'[h] = "reply"
    BY <1>0, <1>13 DEF increaseLocalSeenEps, HandlerGoto, bufferVars
  <2>2. Due(hpc[h], hstatus[h], hdone[h]) = 0 /\ Due(hpc'[h], hstatus'[h], hdone'[h]) = 0
    BY <2>1 DEF Due
  <2>3. \A l \in Learners : Balanced(l)'
    BY <1>3, <1>6, <2>1, <2>2
  <2> QED BY <1>4, <1>5, <2>1, <2>3 DEF Accounts
<1> QED BY <1>7, <1>8, <1>9, <1>10, <1>11, <1>12, <1>13 DEF Answer

LEMMA AccountsStep ==
  ASSUME TypeOK, TypeOK', HandlerInv, EpisodeInv, Accounts, [Next]_vars
  PROVE  Accounts'
<1>0. /\ nSeenTransitions_loc \in [Learners -> Nat] /\ nTransitions \in [Learners -> Int]
      /\ nEpisodes \in [Learners -> Int] /\ gone \in [Learners -> Int]
      /\ episodes \in [Learners -> [Lengths -> Nat]] /\ cur \in Learners
      /\ saved \in [Learners -> {NoSave} \cup Files]
  BY DEF TypeOK
<1>1. ASSUME NEW h \in Handlers, Answer(h) PROVE Accounts'
  BY <1>1, AccountsOfHandler
<1>2. ASSUME NEW h \in Handlers, NEW status \in Statuses, NEW a \in Served(h),
             Receive(h, a, status)
      PROVE  Accounts'
  <2>1. /\ hpc[h] = "test" /\ hpc'[h] = "gate"
        /\ \A k \in Handlers \ {h} : /\ hpc'[k] = hpc[k] /\ hagent'[k] = hagent[k]
                                     /\ hstatus'[k] = hstatus[k] /\ hdone'[k] = hdone[k]
        /\ UNCHANGED <<inProgress, nSeenTransitions_loc, nTransitions, nEpisodes, episodes, gone,
                       saved>>
    BY <1>2 DEF TypeOK, Receive, HandlerGoto, counterVars, diskVars, histVars
  <2>2. ASSUME NEW l \in Learners PROVE Debt(l)' = Debt(l) /\ OpenOf(l)' = OpenOf(l)
    <3>1. \A k \in Handlers : Debt(l)'[k] = Debt(l)[k]
      BY <2>1, SummandsAre, SummandsAreNext DEF MyLearner, Due
    <3>2. Debt(l) \in [Handlers -> Int] /\ Debt(l)' \in [Handlers -> Int]
      BY SummandTypes, SummandTypesNext
    <3>3. OpenOf(l)' = OpenOf(l)
      BY <2>1 DEF OpenOf
    <3> QED BY <3>1, <3>2, <3>3
  <2>3. \A l \in Learners : Balanced(l)'
    BY <2>1, <2>2 DEF Accounts, Balanced
  <2> QED BY <2>1, <2>3 DEF Accounts, SavedDescribed
<1>3. ASSUME NEW n \in Lengths, removeBackEpisode(n) PROVE Accounts'
  <2>1. /\ UNCHANGED <<hpc, hagent, hstatus, hdone, inProgress, nSeenTransitions_loc, saved>>
        /\ episodes' = [episodes EXCEPT ![cur][n] = @ - 1] /\ episodes[cur][n] > 0
        /\ nEpisodes' = [nEpisodes EXCEPT ![cur] = @ - 1]
        /\ nTransitions' = [nTransitions EXCEPT ![cur] = @ - n]
        /\ gone' = [gone EXCEPT ![cur] = @ + n]
    BY <1>3 DEF removeBackEpisode, Removable, handlerVars, diskVars
  <2>2. n \in Nat
    BY Summands
  <2>3. ASSUME NEW l \in Learners PROVE Balanced(l)'
    <3>1. Debt(l)' = Debt(l) /\ OpenOf(l)' = OpenOf(l)
      BY <2>1 DEF Debt, OwedOf, MovingOf, NotCounted, InFlight, MyLearner, OpenOf
    <3>2. nTransitions'[l] + gone'[l] = nTransitions[l] + gone[l]
      BY <1>0, <2>1, <2>2
    <3> QED BY <2>1, <3>1, <3>2 DEF Accounts, Balanced
  <2>4. ASSUME NEW l \in Learners PROVE Described(nTransitions[l], nEpisodes[l], episodes[l])'
    <3>0. Described(nTransitions[l], nEpisodes[l], episodes[l])
      BY DEF Accounts
    <3>1. CASE l # cur
      <4>1. nTransitions'[l] = nTransitions[l] /\ nEpisodes'[l] = nEpisodes[l]
            /\ episodes'[l] = episodes[l]
        BY <1>0, <2>1, <3>1
      <4> QED BY <3>0, <4>1
    <3>2. CASE l = cur
      <4>1. /\ nTransitions'[l] = nTransitions[l] + (-1) * n /\ nEpisodes'[l] = nEpisodes[l] + (-1)
            /\ episodes'[l] = [episodes[l] EXCEPT ![n] = @ + (-1)]
        <5>1. episodes'[l] = [episodes[l] EXCEPT ![n] = episodes[l][n] - 1]
          BY <1>0, <2>1, <3>2
        <5>2. episodes[l][n] - 1 = episodes[l][n] + (-1)
          BY <1>0, <3>2
        <5>3. nTransitions'[l] = nTransitions[l] + (-1) * n /\ nEpisodes'[l] = nEpisodes[l] + (-1)
          BY <1>0, <2>1, <2>2, <3>2
        <5>4. episodes'[l] = [episodes[l] EXCEPT ![n] = episodes[l][n] + (-1)]
          BY <5>1, <5>2
        <5> QED BY <5>3, <5>4
      <4>2. /\ episodes[l] \in [Lengths -> Nat] /\ episodes[l][n] + (-1) \in Nat /\ -1 \in Int
            /\ nTransitions[l] \in Int /\ nEpisodes[l] \in Int
        BY <1>0, <2>1, <3>2
      <4>3. Described(nTransitions[l] + (-1) * n, nEpisodes[l] + (-1),
                      [episodes[l] EXCEPT ![n] = @ + (-1)])
        BY <3>0, <4>2, DescribedMore
      <4> QED BY <4>1, <4>3
    <3> QED BY <3>1, <3>2
  <2> QED BY <2>1, <2>3, <2>4 DEF Accounts, SavedDescribed
<1>4. CASE logStats
  <2>1. /\ UNCHANGED <<hpc, hagent, hstatus, hdone, inProgress, nSeenTransitions_loc, nTransitions,
                       nEpisodes, episodes, gone>>
        /\ saved' = saved \/ saved' = [saved EXCEPT ![cur] = Snapshot(cur)]
    BY <1>4 DEF logStats, bufferVars, counterVars, handlerVars, histVars
  <2>2. \A l \in Learners : Debt(l)' = Debt(l) /\ OpenOf(l)' = OpenOf(l)
    BY <2>1 DEF Debt, OwedOf, MovingOf, NotCounted, InFlight, MyLearner, OpenOf
  <2>3. \A l \in Learners : Balanced(l)'
    BY <2>1, <2>2 DEF Accounts, Balanced
  <2>4. SavedDescribed'
    <3>1. /\ Snapshot(cur).nTransitions = nTransitions[cur] /\ Snapshot(cur).nEpisodes = nEpisodes[cur]
          /\ Snapshot(cur).episodes = episodes[cur]
      BY DEF Snapshot
    <3>2. Described(nTransitions[cur], nEpisodes[cur], episodes[cur])
      BY <1>0 DEF Accounts
    <3>3. \A l \in Learners : saved'[l] = saved[l] \/ (l = cur /\ saved'[l] = Snapshot(cur))
      BY <1>0, <2>1
    <3> QED BY <3>1, <3>2, <3>3 DEF Accounts, SavedDescribed
  <2> QED BY <2>1, <2>3, <2>4 DEF Accounts
<1>5. CASE CrashAndRestart
  <2>1. /\ inProgress' = [a \in Agents |-> 0] /\ hpc' = [h \in Handlers |-> "test"]
        /\ saved' = saved
        /\ gone' = [l \in Learners |-> nSeenTransitions_loc'[l] - nTransitions'[l]]
        /\ nTransitions' = Loaded("nTransitions", 0) /\ nEpisodes' = Loaded("nEpisodes", 0)
        /\ episodes' = Loaded("episodes", EmptyBag)
    BY <1>5 DEF CrashAndRestart
  <2>2. /\ nSeenTransitions_loc' \in [Learners -> Nat] /\ nTransitions' \in [Learners -> Int]
        /\ gone' \in [Learners -> Int]
    BY DEF TypeOK
  <2>3. ASSUME NEW l \in Learners PROVE Balanced(l)'
    BY <2>1, <2>2, SettledNext
  <2>4. ASSUME NEW l \in Learners PROVE Described(nTransitions[l], nEpisodes[l], episodes[l])'
    <3>1. CASE saved[l].present
      <4>1. /\ nTransitions'[l] = saved[l].nTransitions /\ nEpisodes'[l] = saved[l].nEpisodes
            /\ episodes'[l] = saved[l].episodes
        BY <2>1, <3>1 DEF Loaded
      <4>2. Described(saved[l].nTransitions, saved[l].nEpisodes, saved[l].episodes)
        BY <3>1 DEF Accounts, SavedDescribed
      <4> QED BY <4>1, <4>2
    <3>2. CASE ~saved[l].present
      <4>1. nTransitions'[l] = 0 /\ nEpisodes'[l] = 0 /\ episodes'[l] = EmptyBag
        BY <2>1, <3>2 DEF Loaded
      <4> QED BY <4>1, NothingDescribed
    <3> QED BY <3>1, <3>2
  <2> QED BY <2>1, <2>3, <2>4 DEF Accounts, SavedDescribed
<1>6. ASSUME \/ stepMain \/ stepInit \/ removalDone \/ isOver \/ Join
             \/ (\E reduced \in BOOLEAN : stepComplete(reduced))
             \/ UNCHANGED vars
      PROVE  Accounts'
  <2>1. UNCHANGED <<hpc, hagent, hstatus, hdone, inProgress, nSeenTransitions_loc, nTransitions,
                    nEpisodes, episodes, gone, saved>>
    BY <1>6 DEF stepMain, stepInit, removalDone, isOver, Join, stepComplete, Untouched,
       vars, loopVars, handlerVars, bufferVars, counterVars, diskVars, histVars
  <2> QED BY <2>1, AccountsQuiet
<1> QED
  BY <1>1, <1>2, <1>3, <1>4, <1>5, <1>6 DEF Next, Step, MainStep, vars

\* Every transition that was ever counted is stored, in an open episode, on its way from one
\* to the other or gone, and the counters describe the stored episodes, for any numbers of
\* environments, agents, handlers, learners and crashes.
THEOREM TransitionsAccountedHolds == Spec => []TransitionsAccounted
<1>1. Init => EpisodeInv /\ Accounts
  <2> SUFFICES ASSUME Init PROVE EpisodeInv /\ Accounts
    OBVIOUS
  <2>1. /\ inProgress = [a \in Agents |-> 0] /\ hpc = [h \in Handlers |-> "test"]
        /\ \A l \in Learners : /\ nSeenTransitions_loc[l] = 0 /\ nTransitions[l] = 0
                               /\ gone[l] = 0 /\ nEpisodes[l] = 0 /\ episodes[l] = EmptyBag
                               /\ saved[l] = NoSave
    BY DEF Init
  <2>2. EpisodeInv
    BY <2>1, AgentFacts, LoopAssumption DEF EpisodeInv
  <2>3. \A l \in Learners : Balanced(l)
    BY <2>1, Settled
  <2>4. Accounts
    BY <2>1, <2>3, NothingDescribed DEF Accounts, SavedDescribed, NoSave
  <2> QED BY <2>2, <2>4
<1>2. IInv => TypeOK /\ HandlerInv
  BY DEF IInv
<1>3. IInv /\ IInv' /\ EpisodeInv /\ Accounts /\ [Next]_vars => EpisodeInv' /\ Accounts'
  BY EpisodeStep, AccountsStep DEF IInv
<1>4. TypeOK /\ Accounts => TransitionsAccounted
  BY AccountsSuffice
<1> QED
  BY <1>1, <1>2, <1>3, <1>4, Inductive, PTL DEF Spec
==============================================================================
