------------------------------ MODULE MasterComm ------------------------------
(***************************************************************************)
(* How a master answers the applications that run its environments: the    *)
(* threads of Master::waitForStateActionCallers, the requests they post,   *)
(* the buffers they share with nobody else, and the messages of the        *)
(* applications, up to the KILL that ends them.                            *)
(*                                                                         *)
(* The same code runs over MPI, where TestComm returns at once, and over   *)
(* the sockets of forked applications, where recv() waits for the          *)
(* application whose turn it is.  What the learners do with a   *)
(* state is the business of LearnerLoop: here they only open and close the *)
(* gate and end training.                                                  *)
(***************************************************************************)
EXTENDS Integers, Sequences

CONSTANTS
  nCallingEnvs,  \* environments this master answers
  nThreads,      \* OpenMP threads that spawn handlers
  AgentsPerEnv,  \* agents of an environment, which send states in turn
  Transports     \* ways to reach the applications: "MPI", "sockets"

ASSUME CommAssumption ==
  /\ nCallingEnvs \in Nat \ {0} /\ nThreads \in Nat \ {0}
  /\ AgentsPerEnv \in Nat \ {0}
  /\ Transports \subseteq {"MPI", "sockets"}

Clients == 0 .. nCallingEnvs - 1
Threads == 0 .. nThreads - 1
AgentIDs == 1 .. AgentsPerEnv

\* spawnCallsHandlers: each thread takes ceil(nCallingEnvs / nThreads) callers,
\* the last ones possibly fewer or none.
workerShare == (nCallingEnvs + nThreads - 1) \div nThreads
workerBeg(t) == t * workerShare
workerEnd(t) == IF nCallingEnvs < (t + 1) * workerShare
                THEN nCallingEnvs ELSE (t + 1) * workerShare
shareWorkers(t) == workerBeg(t) .. workerEnd(t) - 1

\* A thread with no callers is not spawned.
Handlers == {t \in Threads : shareWorkers(t) # {}}
HandlerOf(c) == c \div workerShare

VARIABLES
  transport,  \* MasterMPI or MasterSockets
  app,        \* an application runs, waits for an action or is over
  turn,       \* agent whose state the application sends next or has sent
  states,     \* state messages on their way to the master
  actions,    \* action messages on their way to the application
  reqs,       \* request of the master: posted or completed
  dataState,  \* agent named in the state buffer of each caller
  dataAction, \* agent named in the action buffer of each caller
  pc,         \* next operation of each handler
  current,    \* caller whose turn it is in the handler's round
  k,          \* caller the kill protocol has come to
  blocked,    \* bTrain && learnersBlockingDataAcquisition()
  bExit       \* training is over

appVars == <<app, turn>>
netVars == <<states, actions>>
bufVars == <<reqs, dataState, dataAction>>
threadVars == <<pc, current, k>>
masterVars == <<appVars, netVars, bufVars, threadVars, blocked, bExit, transport>>

NoAgent == 0
First(t) == workerBeg(t)
Last(t)  == workerEnd(t) - 1

\* Mutant of NextCaller: the round does not start again.
NextCallerNoWrap(t) == current[t] + 1

NextCaller(t) == IF current[t] = Last(t) THEN First(t) ELSE current[t] + 1
Proceed(t, l) == pc' = [pc EXCEPT ![t] = l]

------------------------------------------------------------------------------
(* The applications: _sendState sends a state and waits for the answer.    *)

SendState(c) ==
  /\ app[c] = "run"
  /\ app' = [app EXCEPT ![c] = "wait"]
  /\ states' = [states EXCEPT ![c] = Append(@, turn[c])]
  /\ UNCHANGED <<turn, actions, bufVars, threadVars, blocked, bExit, transport>>

RecvAction(c) ==
  /\ app[c] = "wait" /\ actions[c] # <<>>
  /\ actions' = [actions EXCEPT ![c] = Tail(@)]
  /\ IF Head(actions[c]).learnStatus = "KILL"
     THEN app' = [app EXCEPT ![c] = "over"] /\ turn' = turn
     ELSE /\ app' = [app EXCEPT ![c] = "run"]
          /\ turn' = [turn EXCEPT ![c] = (@ % AgentsPerEnv) + 1]
  /\ UNCHANGED <<states, bufVars, threadVars, blocked, bExit, transport>>

------------------------------------------------------------------------------
(* waitForStateActionCallers                                               *)

completed(c) == reqs[c] = "completed" \/ states[c] # <<>>

TestComm(t) ==
  LET c == current[t] IN
  /\ pc[t] = "test" /\ completed(c)
  /\ IF reqs[c] = "posted"
     THEN /\ dataState' = [dataState EXCEPT ![c] = Head(states[c])]
          /\ states' = [states EXCEPT ![c] = Tail(@)]
     ELSE UNCHANGED <<dataState, states>>
  /\ reqs' = [reqs EXCEPT ![c] = "completed"]
  /\ Proceed(t, "gate")
  /\ UNCHANGED <<appVars, actions, dataAction, current, k, blocked, bExit, transport>>

TestCommFails(t) ==
  /\ pc[t] = "test" /\ ~completed(current[t]) /\ transport = "MPI"
  /\ current' = [current EXCEPT ![t] = NextCaller(t)]
  /\ UNCHANGED <<appVars, netVars, bufVars, pc, k, blocked, bExit, transport>>

\* Mutant of StartKill: nobody waits for the states of the other callers.
StartKillAtOnce(t) == Proceed(t, "killSend") /\ k' = [k EXCEPT ![t] = First(t)]

StartKill(t) == Proceed(t, "killWait") /\ k' = [k EXCEPT ![t] = First(t)]

PassGate(t) ==
  /\ pc[t] = "gate" /\ ~blocked
  /\ Proceed(t, "answer")
  /\ UNCHANGED <<appVars, netVars, bufVars, current, k, blocked, bExit, transport>>

\* Mutant of ExitAtGate: the loop at the gate does not test bExit.
StayAtGate(t) == FALSE

ExitAtGate(t) ==
  /\ pc[t] = "gate" /\ blocked /\ bExit
  /\ StartKill(t)
  /\ UNCHANGED <<appVars, netVars, bufVars, current, blocked, bExit, transport>>

answerStateAction(t) ==
  LET c == current[t] IN
  /\ pc[t] = "answer"
  /\ dataAction' = [dataAction EXCEPT ![c] = dataState[c]]
  /\ Proceed(t, "answered")
  /\ UNCHANGED <<appVars, netVars, reqs, dataState, current, k, blocked, bExit, transport>>

Message(c, status) == [agent |-> dataAction[c], learnStatus |-> status]
SendMsg(c, status) == actions' = [actions EXCEPT ![c] = Append(@, Message(c, status))]

Send(t) ==
  /\ pc[t] = "answered"
  /\ IF bExit THEN StartKill(t) /\ UNCHANGED actions
              ELSE /\ SendMsg(current[t], "WORK")
                   /\ Proceed(t, "irecv") /\ UNCHANGED k
  /\ UNCHANGED <<appVars, states, bufVars, current, blocked, bExit, transport>>

\* Mutant of Irecv: the request is not posted again.
NoIrecv(t) ==
  /\ pc[t] = "irecv"
  /\ Proceed(t, "test")
  /\ current' = [current EXCEPT ![t] = NextCaller(t)]
  /\ UNCHANGED <<appVars, netVars, bufVars, k, blocked, bExit, transport>>

Irecv(t) ==
  /\ pc[t] = "irecv"
  /\ reqs' = [reqs EXCEPT ![current[t]] = "posted"]
  /\ Proceed(t, "test")
  /\ current' = [current EXCEPT ![t] = NextCaller(t)]
  /\ UNCHANGED <<appVars, netVars, dataState, dataAction, k, blocked, bExit, transport>>

\* sendKillMsgs: wait for every other caller to send its state, then tell all.
NextKill(t, phase, following) ==
  IF k[t] = Last(t)
  THEN Proceed(t, following) /\ k' = [k EXCEPT ![t] = First(t)]
  ELSE Proceed(t, phase) /\ k' = [k EXCEPT ![t] = @ + 1]

WaitComm(t) ==
  LET c == k[t] IN
  /\ pc[t] = "killWait"
  /\ IF c = current[t]
     THEN UNCHANGED <<states, reqs, dataState>>
     ELSE /\ states[c] # <<>>
          /\ dataState' = [dataState EXCEPT ![c] = Head(states[c])]
          /\ states' = [states EXCEPT ![c] = Tail(@)]
          /\ reqs' = [reqs EXCEPT ![c] = "completed"]
  /\ NextKill(t, "killWait", "killSend")
  /\ UNCHANGED <<appVars, actions, dataAction, current, blocked, bExit, transport>>

SendKill(t) ==
  /\ pc[t] = "killSend"
  /\ SendMsg(k[t], "KILL")
  /\ NextKill(t, "killSend", "exit")
  /\ UNCHANGED <<appVars, states, bufVars, current, blocked, bExit, transport>>

Handle(t) ==
  \/ TestComm(t) \/ TestCommFails(t) \/ PassGate(t) \/ ExitAtGate(t)
  \/ answerStateAction(t) \/ Send(t) \/ Irecv(t) \/ WaitComm(t) \/ SendKill(t)

------------------------------------------------------------------------------
(* The learners, seen from here.                                           *)

CloseGate == /\ ~blocked /\ blocked' = TRUE
             /\ UNCHANGED <<appVars, netVars, bufVars, threadVars, bExit, transport>>
OpenGate  == /\ blocked /\ ~bExit /\ blocked' = FALSE
             /\ UNCHANGED <<appVars, netVars, bufVars, threadVars, bExit, transport>>

\* ~Master sets bExit and joins the threads; nothing opens the gate any more.
Exit == /\ ~bExit /\ bExit' = TRUE
        /\ UNCHANGED <<appVars, netVars, bufVars, threadVars, blocked, transport>>

Finished == (\A t \in Handlers : pc[t] = "exit") /\ \A c \in Clients : app[c] = "over"

masterInit ==
  /\ transport \in Transports
  /\ app = [c \in Clients |-> "run"] /\ turn = [c \in Clients |-> 1]
  /\ states = [c \in Clients |-> <<>>] /\ actions = [c \in Clients |-> <<>>]
  /\ reqs = [c \in Clients |-> "posted"]
  /\ dataState = [c \in Clients |-> NoAgent]
  /\ dataAction = [c \in Clients |-> NoAgent]
  /\ pc = [t \in Handlers |-> "test"]
  /\ current = [t \in Handlers |-> First(t)]
  /\ k = [t \in Handlers |-> First(t)]
  /\ blocked = FALSE /\ bExit = FALSE

masterNext ==
  \/ \E c \in Clients : SendState(c) \/ RecvAction(c)
  \/ \E t \in Handlers : Handle(t)
  \/ CloseGate \/ OpenGate \/ Exit
  \/ Finished /\ UNCHANGED masterVars

\* Applications and threads run, the learners open the gate again as long as
\* training lasts (LearnerLoop!TrainingEnds) and long enough for a thread that
\* polls it to notice.
masterFairness ==
  /\ \A c \in Clients : WF_masterVars(SendState(c)) /\ WF_masterVars(RecvAction(c))
  /\ \A t \in Handlers : WF_masterVars(Handle(t)) /\ SF_masterVars(PassGate(t))
  /\ WF_masterVars(OpenGate)

masterSpec == masterInit /\ [][masterNext]_masterVars
fairMasterSpec == masterSpec /\ masterFairness
------------------------------------------------------------------------------
(* Properties                                                              *)

ThreadPCs == {"test", "gate", "answer", "answered", "irecv", "killWait", "killSend",
              "exit"}
Messages == [agent : AgentIDs \cup {NoAgent}, learnStatus : {"WORK", "KILL"}]

\* Every variable has its type.
masterTypeOK ==
  /\ app \in [Clients -> {"run", "wait", "over"}]
  /\ turn \in [Clients -> AgentIDs]
  /\ states \in [Clients -> Seq(AgentIDs)]
  /\ actions \in [Clients -> Seq(Messages)]
  /\ reqs \in [Clients -> {"posted", "completed"}]
  /\ dataState \in [Clients -> AgentIDs \cup {NoAgent}]
  /\ dataAction \in [Clients -> AgentIDs \cup {NoAgent}]
  /\ pc \in [Handlers -> ThreadPCs]
  /\ current \in [Handlers -> Clients]
  /\ k \in [Handlers -> Clients]
  /\ blocked \in BOOLEAN /\ bExit \in BOOLEAN
  /\ transport \in {"MPI", "sockets"}

\* The handler of caller c has taken its state and not answered it yet.
Held(c) ==
  /\ reqs[c] = "completed"
  /\ LET t == HandlerOf(c) IN
     /\ pc[t] # "irecv"
     /\ pc[t] = "killSend" => c >= k[t]
     /\ pc[t] # "exit"

\* Between an application and its handler there is one message at a time: a
\* waiting application has its state on the way, or held by the handler, or its
\* action on the way, and exactly one of these; otherwise there is nothing.
OneMessage ==
  \A c \in Clients :
    Len(states[c]) + Len(actions[c]) + (IF Held(c) THEN 1 ELSE 0)
      = IF app[c] = "wait" THEN 1 ELSE 0

\* The assertions of sendKillMsgs: the request of the caller that was just
\* received is finished, those of the callers still to be waited for are not,
\* and when the KILL messages go out all callers wait for an action.
KillProtocol ==
  \A t \in Handlers :
    /\ pc[t] = "killWait" =>
         /\ reqs[current[t]] = "completed"
         /\ \A c \in shareWorkers(t) :
              c # current[t] /\ c >= k[t] => reqs[c] = "posted"
    /\ pc[t] = "killSend" =>
         \A c \in shareWorkers(t) : c >= k[t] => app[c] = "wait" /\ actions[c] = <<>>

\* An action reaches the agent whose state it answers.
ActionsMatch ==
  \A c \in Clients : \A i \in 1 .. Len(actions[c]) :
    actions[c][i].learnStatus = "WORK" => actions[c][i].agent = turn[c]

\* The master keeps what the calls of an application promise.
RPC == INSTANCE EnvRPC
         WITH Group <- HandlerOf, status <- app,
              closing <- {t \in Handlers : pc[t] \in {"killSend", "exit"}}
ImplementsRPC == RPC!Spec

\* Once training is over every application is told and every thread joined.
ShutdownCompletes == bExit ~> Finished
==============================================================================
