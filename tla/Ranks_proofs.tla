---------------------------- MODULE Ranks_proofs ----------------------------
(***************************************************************************)
(* Proofs about ranks that work together.  MasterComm: the threads of a    *)
(* master answer their callers, for any number of environments, threads    *)
(* and agents.  LearnerGroup: learners share their steps, counters and     *)
(* episodes, for any number of ranks, environments and steps.              *)
(***************************************************************************)
EXTENDS MasterComm, LearnerGroup, FiniteSums, FiniteSetTheorems, TLAPS

------------------------------------------------------------------------------
(* A master and its callers                                                 *)

(* The callers of a master are dealt out to its threads: every caller has   *)
(* one handler, however the numbers divide.                                 *)

LEMMA DivBounds ==
  ASSUME NEW c \in Nat, NEW w \in Nat \ {0}
  PROVE  /\ c \div w \in Nat
         /\ (c \div w) * w <= c /\ c < (c \div w) * w + w
OBVIOUS

LEMMA DivUnique ==
  ASSUME NEW c \in Nat, NEW w \in Nat \ {0}, NEW t \in Nat,
         t * w <= c, c < t * w + w
  PROVE  c \div w = t
BY DivBounds

LEMMA ShareCovers ==
  /\ workerShare \in Nat \ {0}
  /\ nCallingEnvs <= nThreads * workerShare
<1> DEFINE n == nCallingEnvs + nThreads - 1
<1>1. n \in Nat /\ n >= nThreads /\ nThreads \in Nat \ {0}
  BY CommAssumption
<1>2. /\ n \div nThreads \in Nat
      /\ (n \div nThreads) * nThreads <= n /\ n < (n \div nThreads) * nThreads + nThreads
  BY <1>1, DivBounds
<1> QED BY <1>1, <1>2, CommAssumption DEF workerShare

LEMMA ShareOfHandler ==
  ASSUME NEW t \in Handlers
  PROVE  /\ First(t) \in shareWorkers(t) /\ Last(t) \in shareWorkers(t)
         /\ First(t) \in Int /\ Last(t) \in Int
         /\ shareWorkers(t) = First(t) .. Last(t)
         /\ \A c \in shareWorkers(t) : c \in Clients /\ HandlerOf(c) = t
<1>1. t \in Nat /\ workerShare \in Nat \ {0} /\ nCallingEnvs \in Nat
  BY ShareCovers, CommAssumption DEF Handlers, Threads
<1>2. t * workerShare \in Nat /\ (t + 1) * workerShare = t * workerShare + workerShare
  BY <1>1
<1>3. shareWorkers(t) = First(t) .. Last(t) /\ shareWorkers(t) # {}
  BY DEF shareWorkers, First, Last, Handlers
<1>4. First(t) = t * workerShare
  BY DEF First, workerBeg
<1>5. /\ Last(t) \in Int /\ Last(t) < nCallingEnvs
      /\ Last(t) < t * workerShare + workerShare
  BY <1>1, <1>2 DEF Last, workerEnd
<1>6. First(t) <= Last(t)
  BY <1>2, <1>3, <1>4, <1>5
<1>7. ASSUME NEW c \in shareWorkers(t) PROVE c \in Clients /\ HandlerOf(c) = t
  <2>1. c \in Nat /\ t * workerShare <= c /\ c < t * workerShare + workerShare /\ c < nCallingEnvs
    BY <1>1, <1>2, <1>3, <1>4, <1>5
  <2>2. c \div workerShare = t
    BY <1>1, <2>1, DivUnique
  <2> QED BY <1>1, <2>1, <2>2 DEF Clients, HandlerOf
<1> QED BY <1>2, <1>3, <1>4, <1>5, <1>6, <1>7

LEMMA HandlerOfClient ==
  ASSUME NEW c \in Clients
  PROVE  HandlerOf(c) \in Handlers /\ c \in shareWorkers(HandlerOf(c))
<1> DEFINE t == HandlerOf(c)
<1>1. c \in Nat /\ c < nCallingEnvs /\ workerShare \in Nat \ {0} /\ nCallingEnvs \in Nat
      /\ nThreads \in Nat /\ nCallingEnvs <= nThreads * workerShare
  BY ShareCovers, CommAssumption DEF Clients
<1>2. t \in Nat /\ t * workerShare <= c /\ c < t * workerShare + workerShare
  BY <1>1, DivBounds DEF HandlerOf
<1>3. t < nThreads
  <2> SUFFICES ASSUME t >= nThreads PROVE FALSE
    BY <1>1, <1>2
  <2>1. t * workerShare >= nThreads * workerShare
    BY <1>1, <1>2
  <2> QED BY <1>1, <1>2, <2>1
<1>4. (t + 1) * workerShare = t * workerShare + workerShare
  BY <1>1, <1>2
<1>5. c \in shareWorkers(t)
  BY <1>1, <1>2, <1>4 DEF shareWorkers, workerBeg, workerEnd
<1> QED BY <1>1, <1>2, <1>3, <1>5 DEF Handlers, Threads

------------------------------------------------------------------------------
(* Types.                                                                   *)

LEMMA InitTypeOK == masterInit => masterTypeOK
<1> SUFFICES ASSUME masterInit PROVE masterTypeOK
  OBVIOUS
<1>1. \A t \in Handlers : First(t) \in Clients
  BY ShareOfHandler
<1>2. 1 \in AgentIDs
  BY CommAssumption DEF AgentIDs
<1>3. /\ states \in [Clients -> Seq(AgentIDs)] /\ actions \in [Clients -> Seq(Messages)]
      /\ current \in [Handlers -> Clients] /\ k \in [Handlers -> Clients]
  BY <1>1 DEF masterInit
<1>4. transport \in {"MPI", "sockets"}
  BY CommAssumption DEF masterInit
<1> QED BY <1>2, <1>3, <1>4 DEF masterInit, masterTypeOK, ThreadPCs

LEMMA NextCallerType ==
  ASSUME NEW t \in Handlers, current[t] \in shareWorkers(t)
  PROVE  NextCaller(t) \in shareWorkers(t)
BY ShareOfHandler DEF NextCaller

\* Each thread keeps to its own callers.
InShare == \A t \in Handlers : current[t] \in shareWorkers(t) /\ k[t] \in shareWorkers(t)

Typed == masterTypeOK /\ InShare

LEMMA AppTyped ==
  ASSUME Typed, NEW c \in Clients, SendState(c) \/ RecvAction(c)
  PROVE  Typed'
<1> USE DEF Typed, masterTypeOK
<1>1. CASE SendState(c)
  <2>1. Append(states[c], turn[c]) \in Seq(AgentIDs)
    OBVIOUS
  <2>2. states' \in [Clients -> Seq(AgentIDs)] /\ app' \in [Clients -> {"run", "wait", "over"}]
    BY <1>1, <2>1 DEF SendState
  <2> QED BY <1>1, <2>2 DEF SendState, bufVars, threadVars, InShare
<1>2. CASE RecvAction(c)
  <2>1. Tail(actions[c]) \in Seq(Messages)
    BY <1>2 DEF RecvAction
  <2>2. (turn[c] % AgentsPerEnv) + 1 \in AgentIDs
    BY CommAssumption DEF AgentIDs
  <2>3. /\ actions' \in [Clients -> Seq(Messages)]
        /\ app' \in [Clients -> {"run", "wait", "over"}] /\ turn' \in [Clients -> AgentIDs]
    BY <1>2, <2>1, <2>2 DEF RecvAction
  <2> QED BY <1>2, <2>3 DEF RecvAction, bufVars, threadVars, InShare
<1> QED BY <1>1, <1>2

LEMMA HandlerTyped ==
  ASSUME Typed, NEW t \in Handlers, Handle(t)
  PROVE  Typed'
<1> USE DEF Typed, masterTypeOK
<1>0. current[t] \in Clients /\ k[t] \in Clients /\ current[t] \in shareWorkers(t) /\ k[t] \in shareWorkers(t)
  BY ShareOfHandler DEF InShare
<1>n. NextCaller(t) \in shareWorkers(t) /\ NextCaller(t) \in Clients
  BY <1>0, NextCallerType, ShareOfHandler
<1>1. CASE TestComm(t)
  <2> DEFINE c == current[t]
  <2>1. reqs[c] = "posted" => Head(states[c]) \in AgentIDs /\ Tail(states[c]) \in Seq(AgentIDs)
    BY <1>0, <1>1 DEF TestComm, completed
  <2>2. states' \in [Clients -> Seq(AgentIDs)] /\ dataState' \in [Clients -> AgentIDs \cup {NoAgent}]
    BY <1>0, <1>1, <2>1 DEF TestComm
  <2>3. reqs' \in [Clients -> {"posted", "completed"}] /\ pc' \in [Handlers -> ThreadPCs]
    BY <1>0, <1>1 DEF TestComm, Proceed, ThreadPCs
  <2> QED BY <1>1, <2>2, <2>3 DEF TestComm, appVars, InShare
<1>2. CASE TestCommFails(t)
  <2>1. current' \in [Handlers -> Clients] /\ InShare'
    BY <1>n, <1>2 DEF TestCommFails, InShare
  <2> QED BY <1>2, <2>1 DEF TestCommFails, appVars, netVars, bufVars
<1>3. CASE PassGate(t)
  BY <1>3 DEF PassGate, Proceed, ThreadPCs, appVars, netVars, bufVars, InShare
<1>4. CASE ExitAtGate(t)
  BY <1>4, ShareOfHandler DEF ExitAtGate, StartKill, Proceed, ThreadPCs, appVars, netVars, bufVars, InShare
<1>5. CASE answerStateAction(t)
  <2>1. dataAction' \in [Clients -> AgentIDs \cup {NoAgent}]
    BY <1>0, <1>5 DEF answerStateAction
  <2> QED BY <1>5, <2>1 DEF answerStateAction, Proceed, ThreadPCs, appVars, netVars, InShare
<1>6. CASE Send(t)
  <2>0. Message(current[t], "WORK") \in Messages
    BY <1>0 DEF Message, Messages
  <2>1. Append(actions[current[t]], Message(current[t], "WORK")) \in Seq(Messages)
    BY <1>0, <2>0
  <2>2. actions' \in [Clients -> Seq(Messages)]
    BY <1>0, <1>6, <2>1 DEF Send, SendMsg
  <2>3. pc' \in [Handlers -> ThreadPCs] /\ k' \in [Handlers -> Clients]
    BY <1>6, ShareOfHandler DEF Send, StartKill, Proceed, ThreadPCs
  <2>4. InShare'
    <3>1. current' = current /\ (k' = k \/ k' = [k EXCEPT ![t] = First(t)])
      BY <1>6 DEF Send, StartKill
    <3>2. \A h \in Handlers : k'[h] \in shareWorkers(h)
      <4>1. CASE k' = k
        BY <4>1 DEF InShare
      <4>2. CASE k' = [k EXCEPT ![t] = First(t)]
        BY <4>2, ShareOfHandler DEF InShare
      <4> QED BY <3>1, <4>1, <4>2
    <3> QED BY <3>1, <3>2 DEF InShare
  <2> QED BY <1>6, <2>2, <2>3, <2>4 DEF Send, appVars, bufVars
<1>7. CASE Irecv(t)
  <2>1. current' \in [Handlers -> Clients] /\ InShare'
    BY <1>n, <1>7 DEF Irecv, InShare
  <2> QED BY <1>0, <1>7, <2>1 DEF Irecv, Proceed, ThreadPCs, appVars, netVars
<1>8. ASSUME NEW p \in ThreadPCs, NEW f \in ThreadPCs, NextKill(t, p, f)
      PROVE  pc' \in [Handlers -> ThreadPCs] /\ k' \in [Handlers -> Clients] /\ \A h \in Handlers : k'[h] \in shareWorkers(h)
  <2>1. k[t] # Last(t) => k[t] + 1 \in shareWorkers(t) /\ k[t] + 1 \in Clients
    BY <1>0, ShareOfHandler
  <2>2. pc' \in [Handlers -> ThreadPCs]
    BY <1>8 DEF NextKill, Proceed
  <2>3. k' = [k EXCEPT ![t] = First(t)] \/ (k[t] # Last(t) /\ k' = [k EXCEPT ![t] = @ + 1])
    BY <1>8 DEF NextKill
  <2>4. CASE k' = [k EXCEPT ![t] = First(t)]
    BY <2>2, <2>4, ShareOfHandler DEF InShare
  <2>5. CASE k[t] # Last(t) /\ k' = [k EXCEPT ![t] = @ + 1]
    BY <2>1, <2>2, <2>5 DEF InShare
  <2> QED BY <2>3, <2>4, <2>5
<1>9. CASE WaitComm(t)
  <2>1. states[k[t]] # <<>> => Head(states[k[t]]) \in AgentIDs /\ Tail(states[k[t]]) \in Seq(AgentIDs)
    BY <1>0
  <2>2. states' \in [Clients -> Seq(AgentIDs)] /\ dataState' \in [Clients -> AgentIDs \cup {NoAgent}]
    <3>1. CASE k[t] = current[t]
      BY <1>9, <3>1 DEF WaitComm
    <3>2. CASE k[t] # current[t]
      <4>1. /\ states[k[t]] # <<>>
            /\ dataState' = [dataState EXCEPT ![k[t]] = Head(states[k[t]])]
            /\ states' = [states EXCEPT ![k[t]] = Tail(@)]
        BY <1>9, <3>2 DEF WaitComm
      <4>2. Head(states[k[t]]) \in AgentIDs /\ Tail(states[k[t]]) \in Seq(AgentIDs)
        BY <2>1, <4>1
      <4>3. states' \in [Clients -> Seq(AgentIDs)]
        BY <1>0, <4>1, <4>2
      <4>4. dataState' \in [Clients -> AgentIDs \cup {NoAgent}]
        BY <1>0, <4>1, <4>2
      <4> QED BY <4>3, <4>4
    <3> QED BY <3>1, <3>2
  <2>3. reqs' \in [Clients -> {"posted", "completed"}]
    BY <1>0, <1>9 DEF WaitComm
  <2>4. pc' \in [Handlers -> ThreadPCs] /\ k' \in [Handlers -> Clients] /\ \A h \in Handlers : k'[h] \in shareWorkers(h)
    BY <1>8, <1>9 DEF WaitComm, ThreadPCs
  <2> QED BY <1>9, <2>2, <2>3, <2>4 DEF WaitComm, appVars, InShare
<1>10. CASE SendKill(t)
  <2>0. Message(k[t], "KILL") \in Messages
    BY <1>0 DEF Message, Messages
  <2>1. Append(actions[k[t]], Message(k[t], "KILL")) \in Seq(Messages)
    BY <1>0, <2>0
  <2>2. actions' \in [Clients -> Seq(Messages)]
    BY <1>0, <1>10, <2>1 DEF SendKill, SendMsg
  <2>3. pc' \in [Handlers -> ThreadPCs] /\ k' \in [Handlers -> Clients] /\ \A h \in Handlers : k'[h] \in shareWorkers(h)
    BY <1>8, <1>10 DEF SendKill, ThreadPCs
  <2> QED BY <1>10, <2>2, <2>3 DEF SendKill, appVars, bufVars, InShare
<1> QED BY <1>1, <1>2, <1>3, <1>4, <1>5, <1>6, <1>7, <1>9, <1>10 DEF Handle

LEMMA NextTyped == Typed /\ [masterNext]_masterVars => Typed'
<1> SUFFICES ASSUME Typed, [masterNext]_masterVars PROVE Typed'
  OBVIOUS
<1>1. CASE CloseGate \/ OpenGate \/ Exit \/ UNCHANGED masterVars
  BY <1>1 DEF CloseGate, OpenGate, Exit, masterVars, appVars, netVars, bufVars, threadVars, Typed, masterTypeOK, InShare
<1> QED BY <1>1, AppTyped, HandlerTyped DEF masterNext

\* Every variable keeps its type, and each thread keeps to its own callers.
THEOREM TypeCorrect == masterSpec => [](masterTypeOK /\ InShare)
<1>1. masterInit => Typed
  BY InitTypeOK, ShareOfHandler DEF Typed, InShare, masterInit
<1> QED BY <1>1, NextTyped, PTL DEF masterSpec, Typed

------------------------------------------------------------------------------
(* One message at a time, and the kill protocol.                            *)

\* The handler of caller c has a state of it, answered or not, and has not posted
\* the next request.
Taken(c) ==
  LET t == HandlerOf(c) IN
  \/ pc[t] \in {"gate", "answer", "answered", "irecv"} /\ c = current[t]
  \/ pc[t] = "killWait" /\ (c = current[t] \/ c < k[t])
  \/ pc[t] \in {"killSend", "exit"}

\* Caller c has been told that training is over.
Told(c) ==
  LET t == HandlerOf(c) IN pc[t] = "exit" \/ (pc[t] = "killSend" /\ c < k[t])

RequestOf(c) == reqs[c] = "completed" <=> Taken(c)
MessageOf(c) ==
  Len(states[c]) + Len(actions[c]) + (IF Held(c) THEN 1 ELSE 0)
    = IF app[c] = "wait" THEN 1 ELSE 0
KillOf(c) ==
  \A i \in 1 .. Len(actions[c]) : actions[c][i].learnStatus = "KILL" <=> Told(c)
AgentOf(c) ==
  /\ \A i \in 1 .. Len(states[c]) : states[c][i] = turn[c]
  /\ Held(c) => dataState[c] = turn[c]
  /\ pc[HandlerOf(c)] = "answered" /\ current[HandlerOf(c)] = c => dataAction[c] = turn[c]
  /\ \A i \in 1 .. Len(actions[c]) :
       actions[c][i].learnStatus = "WORK" => actions[c][i].agent = turn[c]

Call(c) == RequestOf(c) /\ MessageOf(c) /\ KillOf(c) /\ AgentOf(c)

\* The inductive invariant: every call is in exactly one place.
IInv == Typed /\ \A c \in Clients : Call(c)

\* What an action leaves alone of one call.
QuietCall(c) ==
  LET t == HandlerOf(c) IN
  /\ states'[c] = states[c] /\ actions'[c] = actions[c] /\ app'[c] = app[c]
  /\ turn'[c] = turn[c] /\ reqs'[c] = reqs[c]
  /\ dataState'[c] = dataState[c] /\ dataAction'[c] = dataAction[c]
  /\ pc'[t] = pc[t] /\ current'[t] = current[t] /\ k'[t] = k[t]

LEMMA QuietKeepsCall ==
  ASSUME NEW c \in Clients, Call(c), QuietCall(c)
  PROVE  Call(c)'
BY DEF Call, QuietCall, RequestOf, MessageOf, KillOf, AgentOf, Taken, Told, Held

\* A handler touches the calls of its own callers only.
LEMMA OtherCalls ==
  ASSUME Typed, NEW t \in Handlers, Handle(t), NEW c \in Clients, HandlerOf(c) # t
  PROVE  QuietCall(c)
<1>1. /\ current[t] # c /\ k[t] # c /\ current[t] \in Clients /\ k[t] \in Clients
      /\ HandlerOf(c) \in Handlers
  BY ShareOfHandler, HandlerOfClient DEF Typed, InShare
<1> USE <1>1 DEF Typed, masterTypeOK, QuietCall
<1>2. CASE TestComm(t)
  BY <1>2 DEF TestComm, Proceed, appVars
<1>3. CASE TestCommFails(t)
  BY <1>3 DEF TestCommFails, appVars, netVars, bufVars
<1>4. CASE PassGate(t) \/ ExitAtGate(t)
  BY <1>4 DEF PassGate, ExitAtGate, StartKill, Proceed, appVars, netVars, bufVars
<1>5. CASE answerStateAction(t)
  BY <1>5 DEF answerStateAction, Proceed, appVars, netVars
<1>6. CASE Send(t)
  BY <1>6 DEF Send, SendMsg, StartKill, Proceed, appVars, bufVars
<1>7. CASE Irecv(t)
  BY <1>7 DEF Irecv, Proceed, appVars, netVars
<1>8. CASE WaitComm(t)
  BY <1>8 DEF WaitComm, NextKill, Proceed, appVars
<1>9. CASE SendKill(t)
  BY <1>9 DEF SendKill, NextKill, SendMsg, Proceed, appVars, bufVars
<1> QED BY <1>2, <1>3, <1>4, <1>5, <1>6, <1>7, <1>8, <1>9 DEF Handle

LEMMA LenFacts ==
  ASSUME NEW S, NEW s \in Seq(S)
  PROVE  /\ Len(s) \in Nat /\ (Len(s) = 0 <=> s = <<>>)
         /\ s # <<>> => /\ Head(s) = s[1] /\ 1 \in 1 .. Len(s)
                        /\ Len(Tail(s)) = Len(s) - 1
                        /\ \A i \in 1 .. Len(Tail(s)) : Tail(s)[i] = s[i + 1] /\ i + 1 \in 1 .. Len(s)
         /\ \A x : /\ Len(Append(s, x)) = Len(s) + 1 /\ Append(s, x)[Len(s) + 1] = x
                   /\ \A i \in 1 .. Len(s) : Append(s, x)[i] = s[i]
<1>1. Len(s) \in Nat /\ (Len(s) = 0 <=> s = <<>>)
  OBVIOUS
<1>2. ASSUME s # <<>>
      PROVE  /\ Head(s) = s[1] /\ 1 \in 1 .. Len(s) /\ Len(Tail(s)) = Len(s) - 1
             /\ \A i \in 1 .. Len(Tail(s)) : Tail(s)[i] = s[i + 1] /\ i + 1 \in 1 .. Len(s)
  <2>1. Head(s) = s[1] /\ Len(Tail(s)) = Len(s) - 1 /\ Len(s) >= 1
    BY <1>1, <1>2
  <2>2. \A i \in 1 .. Len(s) - 1 : Tail(s)[i] = s[i + 1]
    BY <1>2
  <2> QED BY <1>1, <2>1, <2>2
<1>3. \A x : /\ Len(Append(s, x)) = Len(s) + 1 /\ Append(s, x)[Len(s) + 1] = x
             /\ \A i \in 1 .. Len(s) : Append(s, x)[i] = s[i]
  OBVIOUS
<1> QED BY <1>1, <1>2, <1>3

\* Where a call is, read off the invariant.
LEMMA CallFacts ==
  ASSUME Typed, NEW c \in Clients, Call(c)
  PROVE  /\ Len(states[c]) \in Nat /\ Len(actions[c]) \in Nat
         /\ Held(c) => /\ app[c] = "wait" /\ Len(states[c]) = 0 /\ Len(actions[c]) = 0
                       /\ states[c] = <<>> /\ actions[c] = <<>>
         /\ ~Held(c) /\ app[c] = "wait" => Len(states[c]) + Len(actions[c]) = 1
         /\ app[c] # "wait" => ~Held(c) /\ states[c] = <<>> /\ actions[c] = <<>>
<1>1. /\ Len(states[c]) \in Nat /\ (Len(states[c]) = 0 <=> states[c] = <<>>)
      /\ Len(actions[c]) \in Nat /\ (Len(actions[c]) = 0 <=> actions[c] = <<>>)
  <2>1. states[c] \in Seq(AgentIDs) /\ actions[c] \in Seq(Messages)
    BY DEF Typed, masterTypeOK
  <2> QED BY <2>1, LenFacts
<1>2. MessageOf(c)
  BY DEF Call
<1> DEFINE n == Len(states[c])
           m == Len(actions[c])
<1>3. /\ Held(c) /\ app[c] = "wait" => n + m + 1 = 1
      /\ Held(c) /\ app[c] # "wait" => n + m + 1 = 0
      /\ ~Held(c) /\ app[c] = "wait" => n + m + 0 = 1
      /\ ~Held(c) /\ app[c] # "wait" => n + m + 0 = 0
  BY <1>2, Zenon DEF MessageOf
<1>4. n \in Nat /\ m \in Nat
  BY <1>1
<1> HIDE DEF n, m
<1>5. /\ Held(c) => app[c] = "wait" /\ n = 0 /\ m = 0
      /\ ~Held(c) /\ app[c] = "wait" => n + m = 1
      /\ app[c] # "wait" => ~Held(c) /\ n = 0 /\ m = 0
  BY <1>3, <1>4
<1> QED BY <1>1, <1>5 DEF n, m

LEMMA AppKeepsCalls ==
  ASSUME IInv, NEW d \in Clients, SendState(d) \/ RecvAction(d), NEW c \in Clients
  PROVE  Call(c)'
<1>1. Typed /\ Call(c) /\ Call(d) /\ HandlerOf(d) \in Handlers
  BY HandlerOfClient DEF IInv
<1> USE DEF Typed, masterTypeOK
<1>2. CASE c # d
  <2>1. QuietCall(c)
    BY <1>1, <1>2 DEF SendState, RecvAction, QuietCall, bufVars, threadVars
  <2> QED BY <1>1, <2>1, QuietKeepsCall
<1>3. CASE c = d /\ SendState(c)
  <2>0. UNCHANGED <<turn, actions, reqs, dataState, dataAction, pc, current, k>>
    BY <1>3 DEF SendState, bufVars, threadVars
  <2>1. app[c] = "run" /\ app'[c] = "wait" /\ states'[c] = Append(states[c], turn[c])
    BY <1>1, <1>3 DEF SendState
  <2>2. states[c] = <<>> /\ actions[c] = <<>> /\ ~Held(c)
    BY <1>1, <2>1, CallFacts
  <2>3. states'[c] = <<turn[c]>> /\ Len(states'[c]) = 1 /\ Len(actions'[c]) = 0
    BY <2>0, <2>1, <2>2
  <2>4. (Held(c))' <=> Held(c)
    BY <2>0, <2>1 DEF Held
  <2>5. RequestOf(c)' /\ KillOf(c)' /\ MessageOf(c)'
    BY <1>1, <2>0, <2>1, <2>2, <2>3, <2>4 DEF Call, RequestOf, KillOf, MessageOf, Taken, Told
  <2>6. AgentOf(c)'
    BY <1>1, <2>0, <2>1, <2>2, <2>3, <2>4 DEF Call, AgentOf
  <2> QED BY <2>5, <2>6 DEF Call
<1>4. CASE c = d /\ RecvAction(c)
  <2>0. UNCHANGED <<states, reqs, dataState, dataAction, pc, current, k>>
    BY <1>4 DEF RecvAction, bufVars, threadVars
  <2>1. /\ app[c] = "wait" /\ actions[c] # <<>> /\ actions'[c] = Tail(actions[c])
        /\ app'[c] # "wait"
    <3>1. app[c] = "wait" /\ actions[c] # <<>> /\ actions' = [actions EXCEPT ![c] = Tail(@)]
      BY <1>4 DEF RecvAction
    <3>2. app' = [app EXCEPT ![c] = "over"] \/ app' = [app EXCEPT ![c] = "run"]
      BY <1>4 DEF RecvAction
    <3>3. actions'[c] = Tail(actions[c])
      BY <1>1, <3>1
    <3>4. app'[c] # "wait"
      BY <1>1, <3>2
    <3> QED BY <3>1, <3>3, <3>4
  <2>2. ~Held(c) /\ Len(actions[c]) = 1 /\ Len(states[c]) = 0
    <3>1. actions[c] \in Seq(Messages)
      BY <1>1
    <3>2. Len(actions[c]) # 0
      BY <2>1, <3>1, LenFacts
    <3>3. ~Held(c) /\ Len(states[c]) + Len(actions[c]) = 1
      BY <1>1, <2>1, <3>2, CallFacts
    <3>4. Len(states[c]) \in Nat /\ Len(actions[c]) \in Nat
      BY <1>1, CallFacts
    <3>5. \A n, m \in Nat : m # 0 /\ n + m = 1 => m = 1 /\ n = 0
      OBVIOUS
    <3>6. Len(actions[c]) = 1 /\ Len(states[c]) = 0
      BY ONLY <3>2, <3>3, <3>4, <3>5, Zenon
    <3> QED BY <3>3, <3>6
  <2>3. Len(actions'[c]) = 0 /\ Len(states'[c]) = 0 /\ actions'[c] = <<>>
    <3>1. actions[c] \in Seq(Messages)
      BY <1>1
    <3>2. Tail(actions[c]) = <<>>
      <4>1. actions[c] # <<>> /\ Len(Tail(actions[c])) = 0
        BY <2>1, <2>2, <3>1, LenFacts
      <4>2. Tail(actions[c]) \in Seq(Messages)
        BY <3>1, <4>1
      <4> QED BY <4>1, <4>2, LenFacts
    <3> QED BY <2>0, <2>1, <2>2, <3>2
  <2>4. ~(Held(c))'
    BY <2>0, <2>1, <2>2 DEF Held
  <2>5. ~(pc'[HandlerOf(c)] = "answered" /\ current'[HandlerOf(c)] = c)
    BY <1>1, <2>0, <2>1, <2>2 DEF Call, RequestOf, Taken, Held
  <2>6. RequestOf(c)' /\ KillOf(c)' /\ MessageOf(c)'
    BY <1>1, <2>0, <2>1, <2>2, <2>3, <2>4 DEF Call, RequestOf, KillOf, MessageOf, Taken
  <2>7. AgentOf(c)'
    BY <2>3, <2>4, <2>5 DEF AgentOf
  <2> QED BY <2>6, <2>7 DEF Call
<1> QED BY <1>2, <1>3, <1>4

\* What holds of a handler t and of one of its callers c.
LEMMA OwnFacts ==
  ASSUME IInv, NEW t \in Handlers, NEW c \in Clients, HandlerOf(c) = t
  PROVE  /\ Typed /\ Call(c)
         /\ current[t] \in Clients /\ HandlerOf(current[t]) = t /\ Call(current[t])
         /\ k[t] \in Clients /\ HandlerOf(k[t]) = t /\ Call(k[t])
         /\ c \in Int /\ k[t] \in Int /\ First(t) <= c /\ c <= Last(t)
         /\ First(t) \in Int /\ Last(t) \in Int
<1>1. Typed /\ Call(c) /\ current[t] \in shareWorkers(t) /\ k[t] \in shareWorkers(t)
  BY DEF IInv, Typed, InShare
<1>2. c \in shareWorkers(t) /\ shareWorkers(t) = First(t) .. Last(t)
      /\ First(t) \in Int /\ Last(t) \in Int
  BY ShareOfHandler, HandlerOfClient
<1>3. /\ current[t] \in Clients /\ HandlerOf(current[t]) = t
      /\ k[t] \in Clients /\ HandlerOf(k[t]) = t
  BY <1>1, ShareOfHandler
<1>4. Call(current[t]) /\ Call(k[t])
  BY <1>3 DEF IInv
<1>5. c \in Int /\ k[t] \in Int /\ First(t) <= c /\ c <= Last(t)
  BY <1>1, <1>2
<1> QED BY <1>1, <1>2, <1>3, <1>4, <1>5

LEMMA TestCommKeepsCall ==
  ASSUME IInv, NEW t \in Handlers, NEW c \in Clients, HandlerOf(c) = t, TestComm(t)
  PROVE  Call(c)'
<1>1. Typed /\ Call(c) /\ current[t] \in Clients /\ HandlerOf(current[t]) = t /\ Call(current[t])
  BY OwnFacts
<1>2. /\ pc[t] = "test" /\ completed(current[t]) /\ pc' = [pc EXCEPT ![t] = "gate"]
      /\ UNCHANGED <<app, turn, actions, dataAction, current, k>>
  BY DEF TestComm, Proceed, appVars
<1>3. pc'[t] = "gate"
  BY <1>1, <1>2 DEF Typed, masterTypeOK
<1>4. ~Taken(c) /\ ~Taken(current[t]) /\ ~Told(c) /\ ~Told(c)'
  BY <1>1, <1>2, <1>3 DEF Taken, Told
<1>5. reqs[c] = "posted" /\ reqs[current[t]] = "posted"
  BY <1>1, <1>4 DEF Call, RequestOf, Typed, masterTypeOK
<1>6. /\ dataState' = [dataState EXCEPT ![current[t]] = Head(states[current[t]])]
      /\ states' = [states EXCEPT ![current[t]] = Tail(@)]
      /\ reqs' = [reqs EXCEPT ![current[t]] = "completed"]
      /\ states[current[t]] # <<>>
  BY <1>2, <1>5 DEF TestComm, completed
<1>7. CASE c = current[t]
  <2>1. ~Held(c)
    BY <1>5, <1>7 DEF Held
  <2>2. /\ reqs'[c] = "completed" /\ states'[c] = Tail(states[c])
        /\ dataState'[c] = Head(states[c]) /\ states[c] \in Seq(AgentIDs)
    BY <1>1, <1>6, <1>7 DEF Typed, masterTypeOK
  <2>3. /\ Len(states'[c]) = Len(states[c]) - 1 /\ Len(states[c]) # 0
        /\ Head(states[c]) = states[c][1] /\ 1 \in 1 .. Len(states[c])
    <3>1. states[c] # <<>> /\ states[c] \in Seq(AgentIDs)
      BY <1>6, <1>7, <2>2
    <3> QED BY ONLY <2>2, <3>1, LenFacts
  <2>4. app[c] = "wait" /\ Len(states[c]) + Len(actions[c]) = 1
        /\ Len(states[c]) \in Nat /\ Len(actions[c]) \in Nat
    BY <1>1, <1>6, <1>7, <2>1, CallFacts
  <2>5. \A n, m \in Nat : n # 0 /\ n + m = 1 => n = 1 /\ m = 0
    OBVIOUS
  <2>6. Len(states[c]) = 1 /\ Len(actions[c]) = 0 /\ Len(states'[c]) = 0
    <3>1. Len(states[c]) = 1 /\ Len(actions[c]) = 0
      BY ONLY <2>3, <2>4, <2>5, Zenon
    <3> QED BY ONLY <2>3, <3>1
  <2>7. (Held(c))' /\ (Taken(c))'
    BY <1>2, <1>3, <1>7, <2>2 DEF Held, Taken
  <2>8. RequestOf(c)' /\ MessageOf(c)' /\ KillOf(c)'
    BY <1>2, <2>2, <2>4, <2>6, <2>7 DEF RequestOf, MessageOf, KillOf
  <2>9. dataState'[c] = turn'[c]
    BY <1>1, <1>2, <2>2, <2>3 DEF Call, AgentOf
  <2>10. AgentOf(c)'
    BY <1>2, <1>3, <2>6, <2>9 DEF AgentOf
  <2> QED BY <2>8, <2>10 DEF Call
<1>8. CASE c # current[t]
  <2>1. reqs'[c] = reqs[c] /\ states'[c] = states[c] /\ dataState'[c] = dataState[c]
    BY <1>1, <1>6, <1>8 DEF Typed, masterTypeOK
  <2>2. ~Held(c) /\ ~(Held(c))' /\ ~(Taken(c))'
    BY <1>2, <1>3, <1>5, <1>8, <2>1 DEF Held, Taken
  <2>3. RequestOf(c)' /\ MessageOf(c)' /\ KillOf(c)'
    BY <1>1, <1>2, <1>4, <1>5, <2>1, <2>2 DEF Call, RequestOf, MessageOf, KillOf
  <2>4. AgentOf(c)'
    BY <1>1, <1>2, <1>3, <2>1, <2>2 DEF Call, AgentOf
  <2> QED BY <2>3, <2>4 DEF Call
<1> QED BY <1>7, <1>8

\* Steps that move a handler and no message.
LEMMA MovesKeepCall ==
  ASSUME IInv, NEW t \in Handlers, NEW c \in Clients, HandlerOf(c) = t,
         TestCommFails(t) \/ PassGate(t) \/ ExitAtGate(t) \/ answerStateAction(t)
  PROVE  Call(c)'
<1>1. Typed /\ Call(c) /\ current[t] \in Clients /\ HandlerOf(current[t]) = t /\ Call(current[t])
      /\ First(t) <= c /\ c \in Int /\ First(t) \in Int
  BY OwnFacts
<1>2. UNCHANGED <<app, turn, states, actions, reqs, dataState>>
  BY DEF TestCommFails, PassGate, ExitAtGate, answerStateAction, appVars, netVars, bufVars
<1>3. CASE TestCommFails(t)
  <2>1. pc[t] = "test" /\ UNCHANGED <<pc, k, dataAction>>
    BY <1>3 DEF TestCommFails, bufVars
  <2>2. (Taken(c))' <=> Taken(c)
    BY <1>1, <2>1 DEF Taken
  <2>3. (Held(c))' <=> Held(c)
    BY <1>2, <2>1 DEF Held
  <2>4. RequestOf(c)' /\ MessageOf(c)' /\ KillOf(c)'
    BY <1>1, <1>2, <2>1, <2>2, <2>3 DEF Call, RequestOf, MessageOf, KillOf, Told
  <2>5. AgentOf(c)'
    BY <1>1, <1>2, <2>1, <2>3 DEF Call, AgentOf
  <2> QED BY <2>4, <2>5 DEF Call
<1>4. CASE PassGate(t) \/ ExitAtGate(t)
  <2>1. pc[t] = "gate" /\ UNCHANGED <<current, dataAction>>
    BY <1>4 DEF PassGate, ExitAtGate, bufVars
  <2>2. \/ pc' = [pc EXCEPT ![t] = "answer"] /\ k' = k
        \/ pc' = [pc EXCEPT ![t] = "killWait"] /\ k' = [k EXCEPT ![t] = First(t)]
    BY <1>4 DEF PassGate, ExitAtGate, StartKill, Proceed
  <2>3. \/ pc'[t] = "answer"
        \/ pc'[t] = "killWait" /\ k'[t] = First(t)
    BY <1>1, <2>2 DEF Typed, masterTypeOK
  <2>4. (Taken(c))' <=> Taken(c)
    BY <1>1, <2>1, <2>3 DEF Taken
  <2>5. (Held(c))' <=> Held(c)
    BY <1>1, <1>2, <2>1, <2>3 DEF Held
  <2>6. RequestOf(c)' /\ MessageOf(c)' /\ KillOf(c)'
    BY <1>1, <1>2, <2>1, <2>3, <2>4, <2>5 DEF Call, RequestOf, MessageOf, KillOf, Told
  <2>7. AgentOf(c)'
    BY <1>1, <1>2, <2>1, <2>3, <2>5 DEF Call, AgentOf
  <2> QED BY <2>6, <2>7 DEF Call
<1>5. CASE answerStateAction(t)
  <2>1. pc[t] = "answer" /\ pc' = [pc EXCEPT ![t] = "answered"] /\ UNCHANGED <<current, k>>
        /\ dataAction' = [dataAction EXCEPT ![current[t]] = dataState[current[t]]]
    BY <1>5 DEF answerStateAction, Proceed
  <2>2. pc'[t] = "answered" /\ dataAction'[current[t]] = dataState[current[t]]
    BY <1>1, <2>1 DEF Typed, masterTypeOK
  <2>3. (Taken(c))' <=> Taken(c)
    BY <1>1, <2>1, <2>2 DEF Taken
  <2>4. (Held(c))' <=> Held(c)
    BY <1>1, <1>2, <2>1, <2>2 DEF Held
  <2>5. RequestOf(c)' /\ MessageOf(c)' /\ KillOf(c)'
    BY <1>1, <1>2, <2>1, <2>2, <2>3, <2>4 DEF Call, RequestOf, MessageOf, KillOf, Told
  <2>6. c = current[t] => dataState[c] = turn[c]
    <3>1. c = current[t] => Held(c)
      BY <1>1, <2>1 DEF Call, RequestOf, Taken, Held
    <3> QED BY <1>1, <3>1 DEF Call, AgentOf
  <2>7. AgentOf(c)'
    BY <1>1, <1>2, <2>1, <2>2, <2>4, <2>6 DEF Call, AgentOf
  <2> QED BY <2>5, <2>7 DEF Call
<1> QED BY <1>3, <1>4, <1>5

LEMMA SendKeepsCall ==
  ASSUME IInv, NEW t \in Handlers, NEW c \in Clients, HandlerOf(c) = t, Send(t)
  PROVE  Call(c)'
<1>1. Typed /\ Call(c) /\ current[t] \in Clients /\ HandlerOf(current[t]) = t /\ Call(current[t])
      /\ First(t) <= c /\ c \in Int /\ First(t) \in Int
  BY OwnFacts
<1>2. pc[t] = "answered" /\ UNCHANGED <<app, turn, states, reqs, dataState, dataAction, current>>
  BY DEF Send, appVars, bufVars
<1>3. CASE bExit
  <2>1. actions' = actions /\ pc' = [pc EXCEPT ![t] = "killWait"] /\ k' = [k EXCEPT ![t] = First(t)]
    BY <1>3 DEF Send, StartKill, Proceed
  <2>2. pc'[t] = "killWait" /\ k'[t] = First(t)
    BY <1>1, <2>1 DEF Typed, masterTypeOK
  <2>3. (Taken(c))' <=> Taken(c)
    BY <1>1, <1>2, <2>2 DEF Taken
  <2>4. (Held(c))' <=> Held(c)
    BY <1>1, <1>2, <2>2 DEF Held
  <2>5. RequestOf(c)' /\ MessageOf(c)' /\ KillOf(c)'
    BY <1>1, <1>2, <2>1, <2>2, <2>3, <2>4 DEF Call, RequestOf, MessageOf, KillOf, Told
  <2>6. AgentOf(c)'
    BY <1>1, <1>2, <2>1, <2>2, <2>4 DEF Call, AgentOf
  <2> QED BY <2>5, <2>6 DEF Call
<1>4. CASE ~bExit
  <2>1. /\ actions' = [actions EXCEPT ![current[t]] = Append(@, Message(current[t], "WORK"))]
        /\ pc' = [pc EXCEPT ![t] = "irecv"] /\ k' = k
    BY <1>4 DEF Send, SendMsg, Proceed
  <2>2. pc'[t] = "irecv"
    BY <1>1, <2>1 DEF Typed, masterTypeOK
  <2>3. ((Taken(c))' <=> Taken(c)) /\ ~(Held(c))' /\ ~Told(c) /\ ~(Told(c))'
    BY <1>1, <1>2, <2>1, <2>2 DEF Taken, Held, Told
  <2>4. CASE c = current[t]
    <3>1. Held(c)
      BY <1>1, <1>2, <2>4 DEF Call, RequestOf, Taken, Held
    <3>2. app[c] = "wait" /\ Len(states[c]) = 0 /\ actions[c] = <<>>
      BY <1>1, <3>1, CallFacts
    <3>3. actions'[c] = <<Message(c, "WORK")>>
      BY <1>1, <2>1, <2>4, <3>2 DEF Typed, masterTypeOK
    <3>4. Len(actions'[c]) = 1 /\ actions'[c][1] = Message(c, "WORK")
      BY <3>3
    <3>5. RequestOf(c)' /\ MessageOf(c)'
      BY <1>1, <1>2, <2>3, <3>2, <3>4 DEF Call, RequestOf, MessageOf
    <3>6. KillOf(c)'
      BY <2>3, <3>4 DEF KillOf, Message
    <3>7. dataAction[c] = turn[c]
      BY <1>1, <1>2, <2>4 DEF Call, AgentOf
    <3>8. AgentOf(c)'
      BY <1>1, <1>2, <2>2, <2>3, <3>2, <3>4, <3>7 DEF AgentOf, Message
    <3> QED BY <3>5, <3>6, <3>8 DEF Call
  <2>5. CASE c # current[t]
    <3>1. actions'[c] = actions[c]
      BY <1>1, <2>1, <2>5 DEF Typed, masterTypeOK
    <3>2. ~Held(c)
      BY <1>1, <1>2, <2>5 DEF Call, RequestOf, Taken, Held
    <3>3. RequestOf(c)' /\ MessageOf(c)' /\ KillOf(c)'
      BY <1>1, <1>2, <2>3, <3>1, <3>2 DEF Call, RequestOf, MessageOf, KillOf
    <3>4. AgentOf(c)'
      BY <1>1, <1>2, <2>2, <2>3, <3>1 DEF Call, AgentOf
    <3> QED BY <3>3, <3>4 DEF Call
  <2> QED BY <2>4, <2>5
<1> QED BY <1>3, <1>4

LEMMA IrecvKeepsCall ==
  ASSUME IInv, NEW t \in Handlers, NEW c \in Clients, HandlerOf(c) = t, Irecv(t)
  PROVE  Call(c)'
<1>1. Typed /\ Call(c) /\ current[t] \in Clients /\ HandlerOf(current[t]) = t
  BY OwnFacts
<1>2. /\ pc[t] = "irecv" /\ reqs' = [reqs EXCEPT ![current[t]] = "posted"]
      /\ pc' = [pc EXCEPT ![t] = "test"]
      /\ UNCHANGED <<app, turn, states, actions, dataState, dataAction, k>>
  BY DEF Irecv, Proceed, appVars, netVars
<1>3. pc'[t] = "test" /\ reqs'[c] = (IF c = current[t] THEN "posted" ELSE reqs[c])
  BY <1>1, <1>2 DEF Typed, masterTypeOK
<1>4. reqs'[c] = "posted"
  BY <1>1, <1>2, <1>3 DEF Call, RequestOf, Taken, Typed, masterTypeOK
<1>5. ~Held(c) /\ ~(Held(c))' /\ ~(Taken(c))' /\ ~Told(c) /\ ~(Told(c))'
  BY <1>1, <1>2, <1>3, <1>4 DEF Held, Taken, Told
<1>6. RequestOf(c)' /\ MessageOf(c)' /\ KillOf(c)'
  BY <1>1, <1>2, <1>4, <1>5 DEF Call, RequestOf, MessageOf, KillOf
<1>7. AgentOf(c)'
  BY <1>1, <1>2, <1>3, <1>5 DEF Call, AgentOf
<1> QED BY <1>6, <1>7 DEF Call

LEMMA WaitCommKeepsCall ==
  ASSUME IInv, NEW t \in Handlers, NEW c \in Clients, HandlerOf(c) = t, WaitComm(t)
  PROVE  Call(c)'
<1>1. /\ Typed /\ Call(c) /\ k[t] \in Clients /\ HandlerOf(k[t]) = t /\ Call(k[t])
      /\ c \in Int /\ k[t] \in Int /\ First(t) <= c /\ c <= Last(t)
      /\ First(t) \in Int /\ Last(t) \in Int
  BY OwnFacts
<1>2. pc[t] = "killWait" /\ UNCHANGED <<app, turn, actions, dataAction, current>>
  BY DEF WaitComm, appVars
<1>3. \/ k[t] = Last(t) /\ pc'[t] = "killSend" /\ k'[t] = First(t)
      \/ k[t] # Last(t) /\ pc'[t] = "killWait" /\ k'[t] = k[t] + 1
  BY <1>1 DEF WaitComm, NextKill, Proceed, Typed, masterTypeOK
<1>4. (Taken(c))' <=> Taken(c) \/ c = k[t]
  BY <1>1, <1>2, <1>3 DEF Taken
<1>5. ~Told(c) /\ ~(Told(c))'
  BY <1>1, <1>2, <1>3 DEF Told
<1>6. CASE c = k[t] /\ k[t] # current[t]
  <2>1. /\ states[c] # <<>> /\ states' = [states EXCEPT ![c] = Tail(@)]
        /\ dataState' = [dataState EXCEPT ![c] = Head(states[c])]
        /\ reqs' = [reqs EXCEPT ![c] = "completed"]
    BY <1>6 DEF WaitComm
  <2>2. /\ states'[c] = Tail(states[c]) /\ dataState'[c] = Head(states[c])
        /\ reqs'[c] = "completed" /\ states[c] \in Seq(AgentIDs)
    BY <1>1, <2>1 DEF Typed, masterTypeOK
  <2>3. /\ Len(states'[c]) = Len(states[c]) - 1 /\ Len(states[c]) # 0
        /\ Head(states[c]) = states[c][1] /\ 1 \in 1 .. Len(states[c])
    <3>1. states[c] # <<>> /\ states[c] \in Seq(AgentIDs)
      BY <2>1, <2>2
    <3> QED BY ONLY <2>2, <3>1, LenFacts
  <2>4. ~Held(c)
    BY <1>1, <1>2, <1>6 DEF Call, RequestOf, Taken, Held
  <2>5. app[c] = "wait" /\ Len(states[c]) + Len(actions[c]) = 1
        /\ Len(states[c]) \in Nat /\ Len(actions[c]) \in Nat
    BY <1>1, <2>1, <2>4, CallFacts
  <2>6. \A n, m \in Nat : n # 0 /\ n + m = 1 => n = 1 /\ m = 0
    OBVIOUS
  <2>7. Len(states[c]) = 1 /\ Len(actions[c]) = 0 /\ Len(states'[c]) = 0
    <3>1. Len(states[c]) = 1 /\ Len(actions[c]) = 0
      BY ONLY <2>3, <2>5, <2>6, Zenon
    <3> QED BY ONLY <2>3, <3>1
  <2>8. (Held(c))'
    BY <1>1, <1>3, <1>6, <2>2 DEF Held
  <2>9. RequestOf(c)' /\ MessageOf(c)' /\ KillOf(c)'
    BY <1>2, <1>4, <1>6, <2>2, <2>5, <2>7, <2>8 DEF RequestOf, MessageOf, KillOf
  <2>10. dataState'[c] = turn'[c]
    BY <1>1, <1>2, <2>2, <2>3 DEF Call, AgentOf
  <2>11. AgentOf(c)'
    BY <1>1, <1>2, <1>3, <2>7, <2>10 DEF AgentOf
  <2> QED BY <2>9, <2>11 DEF Call
<1>7. CASE c # k[t] \/ k[t] = current[t]
  <2>1. states'[c] = states[c] /\ reqs'[c] = reqs[c] /\ dataState'[c] = dataState[c]
    <3>1. CASE k[t] = current[t]
      BY <3>1 DEF WaitComm
    <3>2. CASE k[t] # current[t]
      BY <1>1, <1>7, <3>2 DEF WaitComm, Typed, masterTypeOK
    <3> QED BY <3>1, <3>2
  <2>2. (Taken(c))' <=> Taken(c)
    BY <1>1, <1>2, <1>4, <1>7 DEF Taken
  <2>3. (Held(c))' <=> Held(c)
    BY <1>1, <1>2, <1>3, <2>1 DEF Held
  <2>4. RequestOf(c)' /\ MessageOf(c)' /\ KillOf(c)'
    BY <1>1, <1>2, <1>5, <2>1, <2>2, <2>3 DEF Call, RequestOf, MessageOf, KillOf
  <2>5. AgentOf(c)'
    BY <1>1, <1>2, <1>3, <2>1, <2>3 DEF Call, AgentOf
  <2> QED BY <2>4, <2>5 DEF Call
<1> QED BY <1>6, <1>7

LEMMA SendKillKeepsCall ==
  ASSUME IInv, NEW t \in Handlers, NEW c \in Clients, HandlerOf(c) = t, SendKill(t)
  PROVE  Call(c)'
<1>1. /\ Typed /\ Call(c) /\ k[t] \in Clients /\ HandlerOf(k[t]) = t /\ Call(k[t])
      /\ c \in Int /\ k[t] \in Int /\ First(t) <= c /\ c <= Last(t)
      /\ First(t) \in Int /\ Last(t) \in Int
  BY OwnFacts
<1>2. /\ pc[t] = "killSend"
      /\ actions' = [actions EXCEPT ![k[t]] = Append(@, Message(k[t], "KILL"))]
      /\ UNCHANGED <<app, turn, states, reqs, dataState, dataAction, current>>
  BY DEF SendKill, SendMsg, appVars, bufVars
<1>3. \/ k[t] = Last(t) /\ pc'[t] = "exit" /\ k'[t] = First(t)
      \/ k[t] # Last(t) /\ pc'[t] = "killSend" /\ k'[t] = k[t] + 1
  BY <1>1 DEF SendKill, NextKill, Proceed, Typed, masterTypeOK
<1>4. Taken(c) /\ (Taken(c))' /\ reqs[c] = "completed"
  BY <1>1, <1>2, <1>3 DEF Call, RequestOf, Taken
<1>5. CASE c = k[t]
  <2>1. Held(c) /\ ~(Held(c))' /\ (Told(c))'
    BY <1>1, <1>2, <1>3, <1>4, <1>5 DEF Held, Told
  <2>2. app[c] = "wait" /\ Len(states[c]) = 0 /\ actions[c] = <<>>
    BY <1>1, <2>1, CallFacts
  <2>3. actions'[c] = <<Message(c, "KILL")>>
    BY <1>1, <1>2, <1>5, <2>2 DEF Typed, masterTypeOK
  <2>4. Len(actions'[c]) = 1 /\ actions'[c][1] = Message(c, "KILL")
    BY <2>3
  <2>5. RequestOf(c)' /\ MessageOf(c)'
    BY <1>2, <1>4, <2>1, <2>2, <2>4 DEF RequestOf, MessageOf
  <2>6. KillOf(c)'
    BY <2>1, <2>4 DEF KillOf, Message
  <2>7. AgentOf(c)'
    BY <1>1, <1>2, <1>3, <2>1, <2>2, <2>4 DEF AgentOf, Message
  <2> QED BY <2>5, <2>6, <2>7 DEF Call
<1>6. CASE c # k[t]
  <2>1. actions'[c] = actions[c]
    BY <1>1, <1>2, <1>6 DEF Typed, masterTypeOK
  <2>2. ((Held(c))' <=> Held(c)) /\ ((Told(c))' <=> Told(c))
    BY <1>1, <1>2, <1>3, <1>4, <1>6 DEF Held, Told
  <2>3. RequestOf(c)' /\ MessageOf(c)' /\ KillOf(c)'
    BY <1>1, <1>2, <1>4, <2>1, <2>2 DEF Call, RequestOf, MessageOf, KillOf
  <2>4. AgentOf(c)'
    BY <1>1, <1>2, <1>3, <2>1, <2>2 DEF Call, AgentOf
  <2> QED BY <2>3, <2>4 DEF Call
<1> QED BY <1>5, <1>6

LEMMA NextIInv == IInv /\ [masterNext]_masterVars => IInv'
<1> SUFFICES ASSUME IInv, [masterNext]_masterVars PROVE IInv'
  OBVIOUS
<1>1. Typed'
  BY NextTyped DEF IInv
<1>2. ASSUME NEW c \in Clients PROVE Call(c)'
  <2>1. ASSUME NEW t \in Handlers, Handle(t) PROVE Call(c)'
    <3>1. CASE HandlerOf(c) = t
      BY <2>1, <3>1, TestCommKeepsCall, MovesKeepCall, SendKeepsCall, IrecvKeepsCall, WaitCommKeepsCall,
         SendKillKeepsCall DEF Handle
    <3>2. CASE HandlerOf(c) # t
      BY <2>1, <3>2, OtherCalls, QuietKeepsCall DEF IInv
    <3> QED BY <3>1, <3>2
  <2>2. CASE CloseGate \/ OpenGate \/ Exit \/ UNCHANGED masterVars
    <3>1. QuietCall(c)
      BY <2>2 DEF CloseGate, OpenGate, Exit, masterVars, appVars, netVars, bufVars, threadVars, QuietCall
    <3> QED BY <3>1, QuietKeepsCall DEF IInv
  <2> QED BY <2>1, <2>2, AppKeepsCalls DEF masterNext
<1> QED BY <1>1, <1>2 DEF IInv

LEMMA InitIInv == masterInit => IInv
<1> SUFFICES ASSUME masterInit PROVE IInv
  OBVIOUS
<1>1. Typed
  BY InitTypeOK, ShareOfHandler DEF Typed, InShare, masterInit
<1>2. ASSUME NEW c \in Clients PROVE Call(c)
  <2>1. /\ reqs[c] = "posted" /\ pc[HandlerOf(c)] = "test" /\ app[c] = "run"
        /\ states[c] = <<>> /\ actions[c] = <<>>
    BY HandlerOfClient DEF masterInit
  <2>2. ~Held(c) /\ ~Taken(c)
    BY <2>1 DEF Held, Taken
  <2>3. Len(states[c]) = 0 /\ Len(actions[c]) = 0
    BY <2>1
  <2> QED BY <2>1, <2>2, <2>3 DEF Call, RequestOf, MessageOf, KillOf, AgentOf
<1> QED BY <1>1, <1>2 DEF IInv

\* Every call is in exactly one place, and what is in that place is of the agent that
\* asked: the inductive invariant of the master's protocol.
THEOREM Inductive == masterSpec => []IInv
BY InitIInv, NextIInv, PTL DEF masterSpec

\* Between an application and its handler there is one message at a time, whatever the
\* interleaving of threads, for any numbers of environments and threads.
THEOREM OneMessageHolds == masterSpec => []OneMessage
<1>1. IInv => OneMessage
  BY DEF IInv, Call, MessageOf, OneMessage
<1> QED BY <1>1, Inductive, PTL

\* When the KILL messages go out every caller of the thread waits for an answer, and
\* until then the requests waited for are the ones that are posted.
THEOREM KillProtocolHolds == masterSpec => []KillProtocol
<1>1. ASSUME IInv PROVE KillProtocol
  <2>1. ASSUME NEW t \in Handlers, pc[t] = "killWait"
        PROVE  /\ reqs[current[t]] = "completed"
               /\ \A c \in shareWorkers(t) : c # current[t] /\ c >= k[t] => reqs[c] = "posted"
    <3>1. ASSUME NEW c \in shareWorkers(t)
          PROVE  (c = current[t] => reqs[c] = "completed")
                 /\ (c # current[t] /\ c >= k[t] => reqs[c] = "posted")
      <4>1. c \in Clients /\ HandlerOf(c) = t
        BY ShareOfHandler
      <4>2. Call(c) /\ c \in Int /\ k[t] \in Int /\ reqs[c] \in {"posted", "completed"}
        BY <1>1, <4>1, OwnFacts DEF Typed, masterTypeOK
      <4> QED BY <2>1, <4>1, <4>2 DEF Call, RequestOf, Taken
    <3>2. current[t] \in shareWorkers(t)
      BY <1>1 DEF IInv, Typed, InShare
    <3> QED BY <3>1, <3>2
  <2>2. ASSUME NEW t \in Handlers, pc[t] = "killSend", NEW c \in shareWorkers(t), c >= k[t]
        PROVE  app[c] = "wait" /\ actions[c] = <<>>
    <3>1. c \in Clients /\ HandlerOf(c) = t
      BY ShareOfHandler
    <3>2. Call(c) /\ Typed
      BY <1>1, <3>1 DEF IInv
    <3>3. Held(c)
      BY <2>2, <3>1, <3>2 DEF Call, RequestOf, Taken, Held
    <3> QED BY <3>1, <3>2, <3>3, CallFacts
  <2> QED BY <2>1, <2>2 DEF KillProtocol
<1> QED BY <1>1, Inductive, PTL

\* An answer reaches the agent whose state it answers.
THEOREM ActionsMatchHolds == masterSpec => []ActionsMatch
<1>1. IInv => ActionsMatch
  BY DEF IInv, Call, AgentOf, ActionsMatch
<1> QED BY <1>1, Inductive, PTL

------------------------------------------------------------------------------
(* The calls as the applications see them.                                  *)

closingNow == {t \in Handlers : pc[t] \in {"killSend", "exit"}}

LEMMA RecvIsAnswer ==
  ASSUME IInv, NEW c \in Clients, RecvAction(c)
  PROVE  RPC!Act(c) \/ RPC!Kill(c)
<1>1. Typed /\ Call(c) /\ HandlerOf(c) \in Handlers /\ c \in Int /\ k[HandlerOf(c)] \in Int
  BY OwnFacts, HandlerOfClient DEF IInv
<1>2. app[c] = "wait" /\ actions[c] # <<>> /\ closingNow' = closingNow
  BY DEF RecvAction, threadVars, closingNow
<1>3. ~Held(c)
  BY <1>1, <1>2, CallFacts
<1>4. 1 \in 1 .. Len(actions[c]) /\ Head(actions[c]) = actions[c][1]
  <2>1. actions[c] \in Seq(Messages)
    BY <1>1 DEF Typed, masterTypeOK
  <2> QED BY ONLY <1>2, <2>1, LenFacts
<1>5. Head(actions[c]).learnStatus = "KILL" <=> Told(c)
  BY <1>1, <1>4 DEF Call, KillOf
<1>6. Told(c) <=> HandlerOf(c) \in closingNow
  BY <1>1, <1>3 DEF Told, closingNow, Call, RequestOf, Taken, Held
<1>7. CASE Told(c)
  <2>1. app' = [app EXCEPT ![c] = "over"]
    BY <1>5, <1>7 DEF RecvAction
  <2> QED BY <1>2, <1>6, <1>7, <2>1 DEF RPC!Kill, closingNow
<1>8. CASE ~Told(c)
  <2>1. app' = [app EXCEPT ![c] = "run"]
    BY <1>5, <1>8 DEF RecvAction
  <2> QED BY <1>2, <1>6, <1>8, <2>1 DEF RPC!Act, closingNow
<1> QED BY <1>7, <1>8

LEMMA HandlerCloses ==
  ASSUME IInv, IInv', NEW t \in Handlers, Handle(t)
  PROVE  (\E c \in Clients : RPC!Close(c)) \/ UNCHANGED <<app, closingNow>>
<1>1. app' = app
  BY DEF Handle, TestComm, TestCommFails, PassGate, ExitAtGate, answerStateAction, Send, Irecv,
         WaitComm, SendKill, appVars
<1>2. pc \in [Handlers -> ThreadPCs]
  BY DEF IInv, Typed, masterTypeOK
<1>3. CASE TestComm(t) \/ TestCommFails(t) \/ PassGate(t) \/ ExitAtGate(t)
  BY <1>1, <1>2, <1>3 DEF TestComm, TestCommFails, PassGate, ExitAtGate, StartKill, Proceed, closingNow
<1>4. CASE answerStateAction(t) \/ Send(t) \/ Irecv(t)
  BY <1>1, <1>2, <1>4 DEF answerStateAction, Send, Irecv, StartKill, Proceed, closingNow
<1>5. CASE SendKill(t)
  BY <1>1, <1>2, <1>5 DEF SendKill, NextKill, Proceed, closingNow
<1>6. CASE WaitComm(t)
  <2>1. pc[t] = "killWait" /\ (pc' = [pc EXCEPT ![t] = "killWait"] \/ pc' = [pc EXCEPT ![t] = "killSend"])
    BY <1>6 DEF WaitComm, NextKill, Proceed
  <2>2. CASE pc' = [pc EXCEPT ![t] = "killWait"]
    BY <1>1, <1>2, <2>1, <2>2 DEF closingNow
  <2>3. CASE pc' = [pc EXCEPT ![t] = "killSend"]
    <3>1. closingNow' = closingNow \cup {t} /\ pc'[t] = "killSend"
      BY <1>2, <2>3 DEF closingNow
    <3>2. k[t] \in Clients /\ HandlerOf(k[t]) = t
      BY ShareOfHandler DEF IInv, Typed, InShare
    <3>3. ASSUME NEW d \in Clients, HandlerOf(d) = t PROVE app[d] = "wait"
      <4>1. k'[t] = First(t)
        <5>1. k[t] = Last(t)
          BY <1>2, <1>6, <2>3 DEF WaitComm, NextKill, Proceed
        <5> QED BY <1>6, <5>1 DEF WaitComm, NextKill, IInv, Typed, masterTypeOK
      <4>2. Call(d)' /\ Typed' /\ d \in Int /\ First(t) <= d
        BY <3>3, OwnFacts DEF IInv
      <4>3. (Held(d))'
        BY <3>1, <3>3, <4>1, <4>2 DEF Call, RequestOf, Taken, Held
      <4>4. MessageOf(d)' /\ Len(states'[d]) \in Nat /\ Len(actions'[d]) \in Nat
        <5>1. states'[d] \in Seq(AgentIDs) /\ actions'[d] \in Seq(Messages)
          BY <4>2 DEF Typed, masterTypeOK
        <5> QED BY <4>2, <5>1, LenFacts DEF Call
      <4>5. app'[d] # "wait" => Len(states'[d]) + Len(actions'[d]) + 1 = 0
        BY <4>3, <4>4, Zenon DEF MessageOf
      <4>6. \A n, m \in Nat : n + m + 1 # 0
        OBVIOUS
      <4>7. app'[d] = "wait"
        BY <4>4, <4>5, <4>6, Zenon
      <4> QED BY <1>1, <4>7
    <3> QED BY <1>1, <3>1, <3>2, <3>3 DEF RPC!Close, closingNow
  <2> QED BY <2>1, <2>2, <2>3
<1> QED BY <1>3, <1>4, <1>5, <1>6 DEF Handle

\* The steps of the master and its applications are steps of EnvRPC: every call is
\* answered once, and nobody is given work by a thread that has told others to stop.
\* (The fairness of EnvRPC!Spec is left to the run.)
THEOREM SafeRefinement == masterSpec => RPC!Init /\ [][RPC!Next]_<<app, closingNow>>
<1>1. masterInit => RPC!Init
  BY DEF masterInit, RPC!Init
<1>2. IInv /\ IInv' /\ [masterNext]_masterVars => [RPC!Next]_<<app, closingNow>>
  <2> SUFFICES ASSUME IInv, IInv', [masterNext]_masterVars PROVE [RPC!Next]_<<app, closingNow>>
    OBVIOUS
  <2>1. ASSUME NEW c \in Clients, SendState(c) PROVE RPC!Ask(c)
    BY <2>1 DEF SendState, threadVars, closingNow, RPC!Ask
  <2>2. CASE CloseGate \/ OpenGate \/ Exit \/ UNCHANGED masterVars
    BY <2>2 DEF CloseGate, OpenGate, Exit, masterVars, appVars, threadVars, closingNow
  <2> QED BY <2>1, <2>2, RecvIsAnswer, HandlerCloses DEF masterNext, RPC!Next
<1> QED BY <1>1, <1>2, Inductive, PTL DEF masterSpec

------------------------------------------------------------------------------
(* Learners that share                                                     *)

taken(r) == nGradSteps[r] - DoneSteps[r]

MidStep   == {"updateStats", "getStats", "updateCounters", "getCounters"}
MidInit   == {"initCounters", "awaitCounters", "initStats", "awaitStats"}
BetweenSteps == {"stepInit", "stepMain", "stepComplete", "isOver", "over"}

StepTyped ==
  /\ nGradSteps \in [Ranks -> Nat] /\ gradRounds \in [Ranks -> Nat]
  /\ paramRequest \in [Ranks -> BOOLEAN] /\ algoSubStepID \in [Ranks -> {-1, 0, 1}]
  /\ mpc \in [Ranks -> MidStep \cup MidInit \cup BetweenSteps]

\* A rank has handed over the gradients of the steps it has taken, and of one more
\* exactly while that step is between its tasks and its completion.
StepOf(r) ==
  /\ nGradSteps[r] >= DoneSteps[r]
  /\ paramRequest[r] <=> mpc[r] \in MidStep \/ algoSubStepID[r] = 1
  /\ mpc[r] \in MidStep => algoSubStepID[r] = 0
  /\ mpc[r] \in MidInit => algoSubStepID[r] = -1
  /\ paramRequest[r] => gradRounds[r] = taken(r) + 1
  /\ ~paramRequest[r] => gradRounds[r] = taken(r)

StepInv ==
  /\ StepTyped
  /\ \A r \in Ranks : StepOf(r)
  /\ \A r, s \in Ranks : taken(r) <= gradRounds[s]

\* What a step leaves alone of the gradient steps.
QuietStep == UNCHANGED <<nGradSteps, gradRounds, paramRequest>>

\* A move of the main thread of one rank.
Moves(r) ==
  /\ QuietStep
  /\ \E to \in MidStep \cup MidInit \cup BetweenSteps : mpc' = [mpc EXCEPT ![r] = to]
  /\ \A s \in Ranks : s # r => algoSubStepID'[s] = algoSubStepID[s]

LEMMA MovesKeep ==
  ASSUME StepInv, NEW r \in Ranks, Moves(r), StepOf(r)',
         algoSubStepID' \in [Ranks -> {-1, 0, 1}]
  PROVE  StepInv'
<1>1. StepTyped'
  BY DEF Moves, QuietStep, StepInv, StepTyped
<1>2. ASSUME NEW s \in Ranks PROVE StepOf(s)'
  <2>1. CASE s = r
    BY <2>1
  <2>2. CASE s # r
    <3>1. mpc'[s] = mpc[s] /\ algoSubStepID'[s] = algoSubStepID[s]
      BY <2>2 DEF Moves, StepInv, StepTyped
    <3>2. StepOf(s)
      BY DEF StepInv
    <3> QED BY <3>1, <3>2 DEF Moves, QuietStep, StepOf, taken
  <2> QED BY <2>1, <2>2
<1>3. \A q, s \in Ranks : taken(q)' <= gradRounds'[s]
  BY DEF Moves, QuietStep, StepInv, taken
<1> QED BY <1>1, <1>2, <1>3 DEF StepInv

LEMMA InitStepInv == Init => StepInv
<1> SUFFICES ASSUME Init PROVE StepInv
  OBVIOUS
<1>1. DoneSteps \in [Ranks -> Nat]
  BY GroupAssumption
<1>2. /\ nGradSteps = DoneSteps /\ gradRounds = [r \in Ranks |-> 0]
      /\ paramRequest = [r \in Ranks |-> FALSE] /\ algoSubStepID = [r \in Ranks |-> -1]
      /\ mpc = [r \in Ranks |-> "stepInit"]
  BY DEF Init
<1>3. StepTyped
  BY <1>1, <1>2 DEF StepTyped, BetweenSteps
<1>4. \A r \in Ranks : StepOf(r)
  BY <1>1, <1>2 DEF StepOf, taken, MidStep, MidInit
<1>5. \A r, s \in Ranks : taken(r) <= gradRounds[s]
  BY <1>1, <1>2 DEF taken
<1> QED BY <1>3, <1>4, <1>5 DEF StepInv

\* A step of the threads that bring in and share the episodes.
DataStep(r) ==
  ThreadStep(r) \/ CoordinatorStep(r) \/ \E dest \in Ranks : sendCompletes(r, dest)

LEMMA DataStepQuiet ==
  ASSUME NEW r \in Ranks, DataStep(r)
  PROVE  UNCHANGED <<stepVars, gradVars, counterVars, statVars, mpc, setup>>
<1>1. CASE ThreadStep(r)
  BY <1>1 DEF ThreadStep, Gather, addComplete, increaseLocalSeenSteps
<1>2. CASE CoordinatorStep(r)
  BY <1>2 DEF CoordinatorStep, lockQueue, distributePendingEpisodes, mastersRecvEpisodes,
     storeReceived, dataAcquisitionIsLocked, recvWorkersEpisode, countWorkersEpisode,
     shareWorkersEpisode, sendParams
<1>3. CASE \E dest \in Ranks : sendCompletes(r, dest)
  BY <1>3 DEF sendCompletes
<1> QED BY <1>1, <1>2, <1>3 DEF DataStep

LEMMA MainStepQuiet ==
  ASSUME NEW r \in Ranks, MainStep(r)
  PROVE  UNCHANGED <<dataVars, sharingVars, setup>>
BY DEF MainStep, stepInit, initUpdateCounters, initGetCounters, initUpdateStats, initGetStats,
   stepMain, updateRewardsStats, getRewardsStats, updateCounters, getCounters, stepComplete, isOver

LEMMA NextSteps == Next => \E r \in Ranks : DataStep(r) \/ MainStep(r)
BY DEF Next, DataStep

LEMMA NextStepInv == StepInv /\ [Next]_vars => StepInv'
<1> SUFFICES ASSUME StepInv, [Next]_vars PROVE StepInv'
  OBVIOUS
<1> USE DEF stepVars, gradVars
<1>0. CASE UNCHANGED <<nGradSteps, gradRounds, paramRequest, algoSubStepID, mpc>>
  BY <1>0 DEF StepInv, StepTyped, StepOf, taken
<1>1. ASSUME NEW r \in Ranks, DataStep(r) PROVE StepInv'
  BY <1>0, <1>1, DataStepQuiet
<1>2. ASSUME NEW r \in Ranks, MainStep(r) PROVE StepInv'
  <2>1. StepOf(r) /\ algoSubStepID \in [Ranks -> {-1, 0, 1}] /\ StepTyped
    BY DEF StepInv, StepTyped
  <2>2. CASE stepInit(r)
    <3>1. /\ mpc[r] = "stepInit"
          /\ \/ mpc' = [mpc EXCEPT ![r] = "initCounters"] /\ algoSubStepID[r] = -1
                  /\ algoSubStepID' = algoSubStepID
             \/ /\ mpc' = [mpc EXCEPT ![r] = "stepMain"]
                /\ \/ algoSubStepID' = algoSubStepID
                   \/ algoSubStepID[r] = -1 /\ algoSubStepID' = [algoSubStepID EXCEPT ![r] = 0]
      <4> DEFINE ready == algoSubStepID[r] = -1 /\ nStored[r] >= NObsB4Start
                 skip  == ready /\ nGradSteps[r] > 0
      <4>1. /\ mpc[r] = "stepInit"
            /\ mpc' = [mpc EXCEPT ![r] = IF ready /\ ~skip THEN "initCounters" ELSE "stepMain"]
            /\ algoSubStepID' = IF skip THEN [algoSubStepID EXCEPT ![r] = 0] ELSE algoSubStepID
        BY <2>2 DEF stepInit, Goto
      <4>2. skip => algoSubStepID[r] = -1
        OBVIOUS
      <4>3. ready => algoSubStepID[r] = -1
        OBVIOUS
      <4> HIDE DEF ready, skip
      <4>4. CASE skip
        BY <4>1, <4>2, <4>4
      <4>5. CASE ~skip /\ ready
        BY <4>1, <4>3, <4>5
      <4>6. CASE ~ready /\ ~skip
        <5>1. mpc' = [mpc EXCEPT ![r] = "stepMain"] /\ algoSubStepID' = algoSubStepID
          BY <4>1, <4>6, Zenon
        <5>2. mpc[r] = "stepInit"
          BY <4>1
        <5> QED BY ONLY <5>1, <5>2
      <4> QED BY <4>4, <4>5, <4>6
    <3>2. QuietStep
      BY <2>2 DEF stepInit, QuietStep
    <3>3. Moves(r)
      BY <2>1, <3>1, <3>2 DEF Moves, MidInit, BetweenSteps, StepTyped
    <3>4. StepOf(r)'
      BY <2>1, <3>1, <3>2 DEF StepOf, taken, QuietStep, StepTyped, MidStep, MidInit
    <3>5. algoSubStepID' \in [Ranks -> {-1, 0, 1}]
      BY <2>1, <3>1
    <3> QED BY <3>3, <3>4, <3>5, MovesKeep
  <2>3. ASSUME NEW from, NEW to \in MidInit, Goto(r, from, to), from \in MidInit,
               UNCHANGED <<nGradSteps, gradRounds, paramRequest, algoSubStepID>>
        PROVE  StepInv'
    <3>1. Moves(r)
      BY <2>3 DEF Moves, QuietStep, Goto
    <3>2. mpc[r] = from /\ mpc'[r] = to
      BY <2>1, <2>3 DEF Goto, StepTyped
    <3>3. StepOf(r)'
      BY <2>1, <2>3, <3>2 DEF StepOf, taken, MidStep, MidInit
    <3> QED BY <2>1, <2>3, <3>1, <3>3, MovesKeep
  <2>4. CASE initUpdateCounters(r) \/ initGetCounters(r) \/ initUpdateStats(r)
    BY <2>3, <2>4 DEF initUpdateCounters, initGetCounters, initUpdateStats, MidInit
  <2>5. CASE initGetStats(r)
    <3>1. /\ mpc[r] = "awaitStats" /\ mpc' = [mpc EXCEPT ![r] = "stepMain"]
          /\ algoSubStepID' = [algoSubStepID EXCEPT ![r] = 0] /\ QuietStep
      BY <2>5 DEF initGetStats, Goto, QuietStep
    <3>2. Moves(r)
      BY <2>1, <3>1 DEF Moves, BetweenSteps
    <3>3. StepOf(r)'
      BY <2>1, <3>1 DEF StepOf, taken, QuietStep, StepTyped, MidStep, MidInit
    <3> QED BY <2>1, <3>1, <3>2, <3>3, MovesKeep
  <2>6. CASE stepMain(r)
    <3>1. CASE algoSubStepID[r] = 0 /\ ~blockGradientUpdates(r)
      <4>1. /\ mpc[r] = "stepMain" /\ (mpc' = [mpc EXCEPT ![r] = "updateStats"]
                                       \/ mpc' = [mpc EXCEPT ![r] = "updateCounters"])
            /\ gradRounds' = [gradRounds EXCEPT ![r] = @ + 1]
            /\ paramRequest' = [paramRequest EXCEPT ![r] = TRUE]
            /\ UNCHANGED <<nGradSteps, algoSubStepID>>
        BY <2>6, <3>1 DEF stepMain, Goto
      <4>2. ~paramRequest[r] /\ gradRounds[r] = taken(r)
        BY <2>1, <3>1, <4>1 DEF StepOf, MidStep
      <4>3. /\ mpc'[r] \in MidStep /\ gradRounds'[r] = gradRounds[r] + 1 /\ paramRequest'[r]
            /\ \A s \in Ranks : s # r => mpc'[s] = mpc[s] /\ gradRounds'[s] = gradRounds[s]
                                         /\ paramRequest'[s] = paramRequest[s]
        BY <2>1, <4>1 DEF StepTyped, MidStep
      <4>4. StepTyped'
        BY <2>1, <4>1 DEF StepTyped, MidStep
      <4>5. ASSUME NEW s \in Ranks PROVE StepOf(s)'
        <5>1. StepOf(s)
          BY DEF StepInv
        <5>2. CASE s = r
          BY <2>1, <3>1, <4>1, <4>2, <4>3, <5>2 DEF StepOf, taken, MidStep, MidInit
        <5>3. CASE s # r
          BY <4>1, <4>3, <5>1, <5>3 DEF StepOf, taken
        <5> QED BY <5>2, <5>3
      <4>6. \A q, s \in Ranks : taken(q)' <= gradRounds'[s]
        <5>1. \A s \in Ranks : gradRounds[s] \in Nat /\ gradRounds'[s] >= gradRounds[s]
          BY <2>1, <4>3 DEF StepTyped
        <5>2. \A q \in Ranks : taken(q)' = taken(q) /\ taken(q) \in Int
          <6>1. DoneSteps \in [Ranks -> Nat] /\ nGradSteps \in [Ranks -> Nat] /\ nGradSteps' = nGradSteps
            BY <2>1, <4>1, GroupAssumption DEF StepTyped
          <6> QED BY ONLY <6>1 DEF taken
        <5>3. \A q, s \in Ranks : taken(q) <= gradRounds[s]
          BY DEF StepInv
        <5>4. \A s \in Ranks : gradRounds'[s] \in Nat
          BY <4>4 DEF StepTyped
        <5> QED BY <5>1, <5>2, <5>3, <5>4
      <4> QED BY <4>4, <4>5, <4>6 DEF StepInv
    <3>2. CASE ~(algoSubStepID[r] = 0 /\ ~blockGradientUpdates(r))
      <4>1. /\ mpc[r] = "stepMain" /\ mpc' = [mpc EXCEPT ![r] = "stepComplete"]
            /\ QuietStep /\ algoSubStepID' = algoSubStepID
        BY <2>6, <3>2 DEF stepMain, Goto, QuietStep
      <4>2. Moves(r)
        BY <4>1 DEF Moves, BetweenSteps
      <4>3. StepOf(r)'
        BY <2>1, <4>1 DEF StepOf, taken, QuietStep, StepTyped, MidStep, MidInit
      <4> QED BY <2>1, <4>1, <4>2, <4>3, MovesKeep
    <3> QED BY <3>1, <3>2
  <2>7. ASSUME NEW from, NEW to \in MidStep, Goto(r, from, to), from \in MidStep,
               UNCHANGED <<nGradSteps, gradRounds, paramRequest, algoSubStepID>>
        PROVE  StepInv'
    <3>1. Moves(r)
      BY <2>7 DEF Moves, QuietStep, Goto
    <3>2. mpc[r] = from /\ mpc'[r] = to
      BY <2>1, <2>7 DEF Goto, StepTyped
    <3>3. StepOf(r)'
      BY <2>1, <2>7, <3>2 DEF StepOf, taken, MidStep, MidInit
    <3> QED BY <2>1, <2>7, <3>1, <3>3, MovesKeep
  <2>8. CASE updateRewardsStats(r) \/ getRewardsStats(r) \/ updateCounters(r)
    BY <2>7, <2>8 DEF updateRewardsStats, getRewardsStats, updateCounters, MidStep
  <2>9. CASE getCounters(r)
    <3>1. /\ mpc[r] = "getCounters" /\ mpc' = [mpc EXCEPT ![r] = "stepComplete"]
          /\ algoSubStepID' = [algoSubStepID EXCEPT ![r] = 1] /\ QuietStep
      BY <2>9 DEF getCounters, Goto, QuietStep
    <3>2. Moves(r)
      BY <2>1, <3>1 DEF Moves, BetweenSteps
    <3>3. StepOf(r)'
      BY <2>1, <3>1 DEF StepOf, taken, QuietStep, StepTyped, MidStep, MidInit
    <3> QED BY <2>1, <3>1, <3>2, <3>3, MovesKeep
  <2>10. ASSUME NEW test \in BOOLEAN, stepComplete(r, test) PROVE StepInv'
    <3>0. mpc[r] = "stepComplete" /\ mpc' = [mpc EXCEPT ![r] = "isOver"] /\ gradRounds' = gradRounds
      BY <2>10 DEF stepComplete, Goto
    <3> DEFINE done == algoSubStepID[r] = 1 /\ test /\ (paramRequest[r] => Reduced(r))
    <3>1. CASE done
      <4>1. /\ nGradSteps' = [nGradSteps EXCEPT ![r] = @ + 1]
            /\ algoSubStepID' = [algoSubStepID EXCEPT ![r] = 0]
            /\ paramRequest' = [paramRequest EXCEPT ![r] = FALSE]
        BY <2>10, <3>1 DEF stepComplete
      <4>2. paramRequest[r] /\ gradRounds[r] = taken(r) + 1 /\ Reduced(r)
        BY <2>1, <3>1 DEF StepOf
      <4>3. /\ nGradSteps'[r] = nGradSteps[r] + 1 /\ algoSubStepID'[r] = 0
            /\ ~paramRequest'[r] /\ mpc'[r] = "isOver"
            /\ \A s \in Ranks : s # r => mpc'[s] = mpc[s] /\ nGradSteps'[s] = nGradSteps[s]
                   /\ paramRequest'[s] = paramRequest[s] /\ algoSubStepID'[s] = algoSubStepID[s]
        BY <2>1, <3>0, <4>1 DEF StepTyped
      <4>4. StepTyped'
        BY <2>1, <3>0, <4>1 DEF StepTyped, BetweenSteps
      <4>5. taken(r)' = taken(r) + 1 /\ \A s \in Ranks : s # r => taken(s)' = taken(s)
        BY <2>1, <4>3, GroupAssumption DEF taken, StepTyped
      <4>6. ASSUME NEW s \in Ranks PROVE StepOf(s)'
        <5>1. StepOf(s)
          BY DEF StepInv
        <5>2. CASE s = r
          <6>1. nGradSteps'[r] >= DoneSteps[r]
            BY <2>1, <4>3, GroupAssumption DEF StepOf, StepTyped
          <6> QED BY <3>0, <4>2, <4>3, <4>5, <5>2, <6>1 DEF StepOf, MidStep, MidInit
        <5>3. CASE s # r
          BY <3>0, <4>3, <4>5, <5>1, <5>3 DEF StepOf
        <5> QED BY <5>2, <5>3
      <4>7. ASSUME NEW q \in Ranks, NEW s \in Ranks PROVE taken(q)' <= gradRounds'[s]
        <5>1. taken(q) <= gradRounds[s]
          BY DEF StepInv
        <5>2. CASE q = r
          BY <3>0, <4>2, <4>5, <5>2 DEF Reduced
        <5>3. CASE q # r
          BY <3>0, <4>5, <5>1, <5>3
        <5> QED BY <5>2, <5>3
      <4> QED BY <4>4, <4>6, <4>7 DEF StepInv
    <3>2. CASE ~done
      <4>1. QuietStep /\ algoSubStepID' = algoSubStepID
        BY <2>10, <3>2 DEF stepComplete, QuietStep
      <4>2. Moves(r)
        BY <3>0, <4>1 DEF Moves, BetweenSteps
      <4>3. StepOf(r)'
        BY <2>1, <3>0, <4>1 DEF StepOf, taken, QuietStep, StepTyped, MidStep, MidInit
      <4> QED BY <2>1, <4>1, <4>2, <4>3, MovesKeep
    <3> QED BY <3>1, <3>2
  <2>11. CASE isOver(r)
    <3>1. /\ mpc[r] = "isOver" /\ (mpc' = [mpc EXCEPT ![r] = "over"] \/ mpc' = [mpc EXCEPT ![r] = "stepInit"])
          /\ QuietStep /\ algoSubStepID' = algoSubStepID
      BY <2>11 DEF isOver, Goto, QuietStep
    <3>2. Moves(r)
      BY <3>1 DEF Moves, BetweenSteps
    <3>3. StepOf(r)'
      BY <2>1, <3>1 DEF StepOf, taken, QuietStep, StepTyped, MidStep, MidInit
    <3> QED BY <2>1, <3>1, <3>2, <3>3, MovesKeep
  <2> QED BY <1>2, <2>2, <2>4, <2>5, <2>6, <2>8, <2>9, <2>10, <2>11 DEF MainStep
<1> QED BY <1>0, <1>1, <1>2, NextSteps DEF vars

\* The ranks take their gradient steps together, for any number of ranks and however
\* they were restarted: the wait for the reduced gradients keeps the fastest at most
\* one ahead of the slowest, and never a step ahead of anybody's gradients.
THEOREM LockstepHolds == Spec => []StepsInLockstep
<1>1. StepInv => StepsInLockstep
  <2> SUFFICES ASSUME StepInv, NEW r \in Ranks, NEW s \in Ranks
               PROVE  taken(r) <= taken(s) + 1 /\ taken(r) <= gradRounds[s]
    BY DEF StepsInLockstep, taken
  <2>1. taken(r) <= gradRounds[s] /\ StepOf(s) /\ paramRequest[s] \in BOOLEAN
    BY DEF StepInv, StepTyped
  <2>2. taken(r) \in Int /\ taken(s) \in Int
    BY GroupAssumption DEF StepInv, StepTyped, taken
  <2> QED BY <2>1, <2>2 DEF StepOf
<1> QED BY <1>1, InitStepInv, NextStepInv, PTL DEF Spec

------------------------------------------------------------------------------
(* The places of the reductions.  Ranks that were restarted at the same     *)
(* step make their n-th call at the same place; those that were not are the *)
(* observation on checkpoints in the README.                                *)

LEMMA DivStep ==
  ASSUME NEW n \in Nat, NEW f \in Nat \ {0}
  PROVE  /\ n \div f \in Nat
         /\ (n + 1) % f = 0 => (n + 1) \div f = n \div f + 1 /\ (n \div f + 1) * f = n + 1
         /\ (n + 1) % f # 0 => (n + 1) \div f = n \div f
<1>1. /\ n \div f \in Nat /\ (n \div f) * f <= n /\ n < (n \div f) * f + f
      /\ (n + 1) \div f \in Nat
      /\ n + 1 = ((n + 1) \div f) * f + ((n + 1) % f)
      /\ (n + 1) % f \in Nat /\ (n + 1) % f < f
  OBVIOUS
<1> DEFINE a == n \div f
           b == (n + 1) \div f
           m == (n + 1) % f
<1>2. a \in Nat /\ b \in Nat /\ m \in Nat /\ m < f /\ a * f <= n /\ n < a * f + f /\ n + 1 = b * f + m
  BY <1>1
<1> HIDE DEF a, b, m
<1>3. a * f \in Nat /\ b * f \in Nat /\ (a + 1) * f = a * f + f /\ (b + 1) * f = b * f + f
  BY <1>2
<1>4. b >= a
  <2> SUFFICES ASSUME b + 1 <= a PROVE FALSE
    BY <1>2
  <2>1. (b + 1) * f <= a * f
    BY <1>2
  <2> QED BY <1>2, <1>3, <2>1
<1>5. b <= a + 1
  <2> SUFFICES ASSUME a + 2 <= b PROVE FALSE
    BY <1>2
  <2>1. (a + 2) * f <= b * f /\ (a + 2) * f = a * f + f + f
    BY <1>2
  <2> QED BY <1>2, <1>3, <2>1
<1>6. m = 0 => b # a
  <2> SUFFICES ASSUME m = 0, b = a PROVE FALSE
    OBVIOUS
  <2> QED BY <1>2, <1>3
<1>7. m # 0 => b # a + 1
  <2> SUFFICES ASSUME m # 0, b = a + 1 PROVE FALSE
    OBVIOUS
  <2>1. b * f = a * f + f
    BY <1>3
  <2> QED BY <1>2, <1>3, <2>1
<1>8. m = 0 => b = a + 1 /\ (a + 1) * f = n + 1
  <2>1. m = 0 => b = a + 1
    BY <1>2, <1>4, <1>5, <1>6
  <2> QED BY <1>2, <1>3, <2>1
<1>9. m # 0 => b = a
  BY <1>2, <1>4, <1>5, <1>7
<1> QED BY <1>2, <1>8, <1>9 DEF a, b, m

\* The gradient step that all ranks start from, and the calls of initializeLearner.
SameSteps == \A r, s \in Ranks : DoneSteps[r] = DoneSteps[s]
Done0 == DoneSteps[0]
InitCalls == IF Done0 = 0 THEN 1 ELSE 0

CounterPlace(i) == IF i = 1 THEN Ctor ELSE Done0 + i - 2 - InitCalls
StatPlace(i) ==
  IF i = 1 THEN Ctor ELSE (Done0 \div StatsFreq + i - 1 - InitCalls) * StatsFreq - 1

\* Whether rank r has made its calls of the step under way.
CounterDone(r) == mpc[r] = "getCounters" \/ algoSubStepID[r] = 1
StatDone(r) == mpc[r] \in {"getStats", "updateCounters", "getCounters"} \/ algoSubStepID[r] = 1
CounterInit(r) == mpc[r] \in {"awaitCounters", "initStats", "awaitStats"}

CounterLen(r) ==
  IF algoSubStepID[r] = -1 THEN IF CounterInit(r) THEN 2 ELSE 1
  ELSE 1 + InitCalls + taken(r) + IF CounterDone(r) THEN 1 ELSE 0
StatLen(r) ==
  IF algoSubStepID[r] = -1 THEN IF mpc[r] = "awaitStats" THEN 2 ELSE 1
  ELSE 1 + InitCalls - Done0 \div StatsFreq
         + (nGradSteps[r] + IF StatDone(r) THEN 1 ELSE 0) \div StatsFreq

CallsOf(r) ==
  /\ algoSubStepID[r] = -1 => taken(r) = 0
  /\ mpc[r] \in MidInit => InitCalls = 1
  /\ mpc[r] = "updateStats" => (nGradSteps[r] + 1) % StatsFreq = 0
  /\ Len(counterCalls[r]) = CounterLen(r) /\ counterCalls[r] # <<>>
  /\ Len(statCalls[r]) = StatLen(r) /\ statCalls[r] # <<>>
  /\ \A i \in 1 .. Len(counterCalls[r]) : counterCalls[r][i] = CounterPlace(i)
  /\ \A i \in 1 .. Len(statCalls[r]) : statCalls[r][i] = StatPlace(i)

CallsTyped == counterCalls \in [Ranks -> Seq(Int)] /\ statCalls \in [Ranks -> Seq(Int)]
CallsInv == StepInv /\ CallsTyped /\ \A r \in Ranks : CallsOf(r)

LEMMA Constants ==
  SameSteps => /\ Done0 \in Nat /\ InitCalls \in {0, 1} /\ (InitCalls = 1 <=> Done0 = 0)
               /\ StatsFreq \in Nat \ {0} /\ Done0 \div StatsFreq \in Nat
               /\ \A r \in Ranks : DoneSteps[r] = Done0
<1>1. DoneSteps \in [Ranks -> Nat] /\ StatsFreq \in Nat \ {0} /\ 0 \in Ranks
  BY GroupAssumption DEF Ranks
<1>2. Done0 \in Nat
  BY <1>1 DEF Done0
<1>3. Done0 \div StatsFreq \in Nat
  BY <1>1, <1>2, DivStep
<1> QED BY <1>1, <1>2, <1>3 DEF Done0, InitCalls, SameSteps

LEMMA InitCallsInv == SameSteps /\ Init => CallsInv
<1> SUFFICES ASSUME SameSteps, Init PROVE CallsInv
  OBVIOUS
<1>1. /\ nGradSteps = DoneSteps /\ algoSubStepID = [r \in Ranks |-> -1]
      /\ mpc = [r \in Ranks |-> "stepInit"]
      /\ counterCalls = [r \in Ranks |-> <<Ctor>>] /\ statCalls = counterCalls
  BY DEF Init
<1>2. CallsTyped
  BY <1>1 DEF CallsTyped, Ctor
<1>3. ASSUME NEW r \in Ranks PROVE CallsOf(r)
  <2>1. /\ algoSubStepID[r] = -1 /\ mpc[r] = "stepInit" /\ nGradSteps[r] = DoneSteps[r]
        /\ DoneSteps[r] \in Nat
        /\ counterCalls[r] = <<Ctor>> /\ statCalls[r] = <<Ctor>>
    BY <1>1, GroupAssumption
  <2>2. taken(r) = 0
    BY <2>1 DEF taken
  <2>3. Len(counterCalls[r]) = 1 /\ Len(statCalls[r]) = 1
        /\ counterCalls[r][1] = Ctor /\ statCalls[r][1] = Ctor
    BY <2>1
  <2> QED BY <2>1, <2>2, <2>3 DEF CallsOf, CounterLen, StatLen, CounterInit, MidInit, CounterPlace, StatPlace
<1> QED BY <1>2, <1>3, InitStepInv DEF CallsInv

SameCalls(r) ==
  /\ nGradSteps'[r] = nGradSteps[r] /\ algoSubStepID'[r] = algoSubStepID[r]
  /\ counterCalls'[r] = counterCalls[r] /\ statCalls'[r] = statCalls[r]

LEMMA SameCallsKeep ==
  ASSUME NEW r \in Ranks, CallsOf(r), SameCalls(r), mpc'[r] = mpc[r]
  PROVE  CallsOf(r)'
BY DEF CallsOf, SameCalls, CounterLen, StatLen, CounterInit, CounterDone, StatDone, taken

\* A rank makes its own calls only.
LEMMA OthersKeep ==
  ASSUME StepInv, CallsTyped, NEW r \in Ranks, MainStep(r), NEW s \in Ranks, s # r
  PROVE  SameCalls(s) /\ mpc'[s] = mpc[s]
<1> USE DEF StepInv, StepTyped, CallsTyped, SameCalls, Goto
<1>1. CASE stepInit(r)
  BY <1>1 DEF stepInit, counterVars, statVars
<1>2. CASE initUpdateCounters(r)
  BY <1>2 DEF initUpdateCounters, globalCounterRdx!update, stepVars, statVars
<1>3. CASE initGetCounters(r)
  BY <1>3 DEF initGetCounters, globalCounterRdx!get, globalCounterRdx!arrive,
     globalCounterRdx!reductorVars, stepVars, statVars
<1>4. CASE initUpdateStats(r)
  BY <1>4 DEF initUpdateStats, StateRewRdx!update, stepVars, counterVars
<1>5. CASE initGetStats(r)
  BY <1>5 DEF initGetStats, StateRewRdx!get, StateRewRdx!arrive,
     StateRewRdx!reductorVars, counterVars
<1>6. CASE stepMain(r)
  BY <1>6 DEF stepMain, stepVars, counterVars, statVars
<1>7. CASE updateRewardsStats(r)
  BY <1>7 DEF updateRewardsStats, StateRewRdx!update, stepVars, counterVars
<1>8. CASE getRewardsStats(r)
  BY <1>8 DEF getRewardsStats, StateRewRdx!get, StateRewRdx!arrive,
     StateRewRdx!reductorVars, stepVars, counterVars
<1>9. CASE updateCounters(r)
  BY <1>9 DEF updateCounters, globalCounterRdx!update, stepVars, statVars
<1>10. CASE getCounters(r)
  BY <1>10 DEF getCounters, globalCounterRdx!get, globalCounterRdx!arrive,
     globalCounterRdx!reductorVars, statVars
<1>11. ASSUME NEW test \in BOOLEAN, stepComplete(r, test) PROVE SameCalls(s) /\ mpc'[s] = mpc[s]
  BY <1>11 DEF stepComplete, counterVars, statVars
<1>12. CASE isOver(r)
  BY <1>12 DEF isOver, stepVars, counterVars, statVars
<1> QED BY <1>1, <1>2, <1>3, <1>4, <1>5, <1>6, <1>7, <1>8, <1>9, <1>10, <1>11, <1>12 DEF MainStep

\* A call at its place keeps the sequence of calls in order.
LEMMA AppendCounter ==
  ASSUME NEW q \in Seq(Int), NEW x \in Int, x = CounterPlace(Len(q) + 1),
         \A i \in 1 .. Len(q) : q[i] = CounterPlace(i), NEW p, p = Append(q, x)
  PROVE  Len(p) = Len(q) + 1 /\ \A i \in 1 .. Len(p) : p[i] = CounterPlace(i)
OBVIOUS

LEMMA AppendStat ==
  ASSUME NEW q \in Seq(Int), NEW x \in Int, x = StatPlace(Len(q) + 1),
         \A i \in 1 .. Len(q) : q[i] = StatPlace(i), NEW p, p = Append(q, x)
  PROVE  Len(p) = Len(q) + 1 /\ \A i \in 1 .. Len(p) : p[i] = StatPlace(i)
OBVIOUS

LEMMA OwnCalls ==
  ASSUME SameSteps, CallsInv, NEW r \in Ranks, MainStep(r)
  PROVE  CallsOf(r)'
<1>1. /\ StepOf(r) /\ CallsOf(r) /\ nGradSteps[r] \in Nat /\ algoSubStepID[r] \in {-1, 0, 1}
      /\ taken(r) = nGradSteps[r] - Done0 /\ nGradSteps[r] >= Done0
      /\ counterCalls[r] \in Seq(Int) /\ statCalls[r] \in Seq(Int)
      /\ Len(counterCalls[r]) \in Nat \ {0} /\ Len(statCalls[r]) \in Nat \ {0}
  <2>1. /\ StepOf(r) /\ CallsOf(r) /\ nGradSteps[r] \in Nat /\ algoSubStepID[r] \in {-1, 0, 1}
        /\ taken(r) = nGradSteps[r] - Done0 /\ nGradSteps[r] >= Done0
        /\ counterCalls[r] \in Seq(Int) /\ statCalls[r] \in Seq(Int)
    BY Constants DEF CallsInv, StepInv, StepTyped, CallsTyped, StepOf, taken
  <2>2. counterCalls[r] # <<>> /\ statCalls[r] # <<>>
    BY <2>1 DEF CallsOf
  <2>3. Len(counterCalls[r]) \in Nat \ {0} /\ Len(statCalls[r]) \in Nat \ {0}
    BY <2>1, <2>2
  <2> QED BY <2>1, <2>3
<1>2. mpc \in [Ranks -> MidStep \cup MidInit \cup BetweenSteps]
      /\ algoSubStepID \in [Ranks -> {-1, 0, 1}] /\ nGradSteps \in [Ranks -> Nat]
      /\ counterCalls \in [Ranks -> Seq(Int)] /\ statCalls \in [Ranks -> Seq(Int)]
  BY DEF CallsInv, StepInv, StepTyped, CallsTyped
<1>3. /\ Done0 \in Nat /\ InitCalls \in {0, 1} /\ (InitCalls = 1 <=> Done0 = 0)
      /\ StatsFreq \in Nat \ {0} /\ Done0 \div StatsFreq \in Nat
  BY Constants
<1>d. /\ nGradSteps[r] \div StatsFreq \in Nat
      /\ (nGradSteps[r] + 1) \div StatsFreq \in Nat
      /\ (nGradSteps[r] + 1) % StatsFreq = 0 =>
            /\ (nGradSteps[r] + 1) \div StatsFreq = nGradSteps[r] \div StatsFreq + 1
            /\ (nGradSteps[r] \div StatsFreq + 1) * StatsFreq = nGradSteps[r] + 1
      /\ (nGradSteps[r] + 1) % StatsFreq # 0 =>
            (nGradSteps[r] + 1) \div StatsFreq = nGradSteps[r] \div StatsFreq
  <2>1. nGradSteps[r] + 1 \in Nat
    BY <1>1
  <2>2. (nGradSteps[r] + 1) \div StatsFreq \in Nat
    BY ONLY <1>3, <2>1, DivStep
  <2> QED BY <1>1, <1>3, <2>2, DivStep
<1>4. CASE stepInit(r)
  <2>1. /\ nGradSteps' = nGradSteps /\ counterCalls' = counterCalls /\ statCalls' = statCalls
    BY <1>4 DEF stepInit, counterVars, statVars
  <2>2. mpc[r] = "stepInit"
    BY <1>4 DEF stepInit, Goto
  <2>3. \/ mpc'[r] = "stepMain" /\ algoSubStepID'[r] = algoSubStepID[r]
        \/ mpc'[r] = "stepMain" /\ algoSubStepID'[r] = 0 /\ algoSubStepID[r] = -1 /\ nGradSteps[r] > 0
        \/ mpc'[r] = "initCounters" /\ algoSubStepID'[r] = -1 /\ algoSubStepID[r] = -1 /\ ~(nGradSteps[r] > 0)
    BY <1>2, <1>4 DEF stepInit, Goto
  <2>4. CallsOf(r)'
    <3>1. CASE mpc'[r] = "stepMain" /\ algoSubStepID'[r] = algoSubStepID[r]
      BY <1>1, <2>1, <2>2, <3>1 DEF CallsOf, CounterLen, StatLen, CounterInit, CounterDone, StatDone, taken, MidInit
    <3>2. CASE mpc'[r] = "stepMain" /\ algoSubStepID'[r] = 0 /\ algoSubStepID[r] = -1 /\ nGradSteps[r] > 0
      <4>1. taken(r) = 0 /\ nGradSteps[r] = Done0 /\ InitCalls = 0
        BY <1>1, <1>3, <3>2 DEF CallsOf
      <4>2. Len(counterCalls[r]) = 1 /\ Len(statCalls[r]) = 1
        BY <1>1, <2>2, <3>2 DEF CallsOf, CounterLen, StatLen, CounterInit
      <4>3. CounterLen(r)' = 1 + InitCalls + taken(r)
        BY <1>1, <1>3, <2>1, <3>2, <4>1 DEF CounterLen, CounterDone, taken
      <4>4. StatLen(r)' = 1 + InitCalls - Done0 \div StatsFreq + Done0 \div StatsFreq
        BY <1>1, <1>3, <2>1, <3>2, <4>1 DEF StatLen, StatDone
      <4>5. CounterLen(r)' = 1 /\ StatLen(r)' = 1
        BY <1>3, <4>1, <4>3, <4>4
      <4> QED BY <1>1, <2>1, <3>2, <4>2, <4>5 DEF CallsOf, MidInit
    <3>3. CASE mpc'[r] = "initCounters" /\ algoSubStepID'[r] = -1 /\ algoSubStepID[r] = -1 /\ ~(nGradSteps[r] > 0)
      BY <1>1, <1>3, <2>1, <2>2, <3>3 DEF CallsOf, CounterLen, StatLen, CounterInit, CounterDone, StatDone, taken
    <3> QED BY <2>3, <3>1, <3>2, <3>3
  <2> QED BY <2>4
<1>5. CASE initUpdateCounters(r)
  <2>1. /\ mpc[r] = "initCounters" /\ mpc'[r] = "awaitCounters"
        /\ nGradSteps' = nGradSteps /\ algoSubStepID' = algoSubStepID /\ statCalls' = statCalls
    BY <1>2, <1>5 DEF initUpdateCounters, Goto, stepVars, statVars
  <2>2. counterCalls'[r] = Append(counterCalls[r], InitPlace)
    BY <1>2, <1>5 DEF initUpdateCounters, globalCounterRdx!update
  <2>3. algoSubStepID[r] = -1 /\ InitCalls = 1 /\ Len(counterCalls[r]) = 1 /\ Done0 = 0
    BY <1>1, <1>3, <2>1 DEF CallsOf, StepOf, CounterLen, CounterInit, MidInit
  <2>4. InitPlace = CounterPlace(Len(counterCalls[r]) + 1)
    BY <2>3 DEF InitPlace, CounterPlace
  <2>5. /\ Len(counterCalls'[r]) = 2
        /\ \A i \in 1 .. Len(counterCalls'[r]) : counterCalls'[r][i] = CounterPlace(i)
    <3>1. InitPlace \in Int /\ \A i \in 1 .. Len(counterCalls[r]) : counterCalls[r][i] = CounterPlace(i)
      BY <1>1 DEF InitPlace, CallsOf
    <3>2. /\ Len(counterCalls'[r]) = Len(counterCalls[r]) + 1
          /\ \A i \in 1 .. Len(counterCalls'[r]) : counterCalls'[r][i] = CounterPlace(i)
      <4>1. counterCalls[r] \in Seq(Int)
        BY <1>1
      <4> QED BY ONLY <4>1, <2>2, <2>4, <3>1, AppendCounter
    <3> QED BY <2>3, <3>2
  <2> QED BY <1>1, <2>1, <2>3, <2>5 DEF CallsOf, CounterLen, StatLen, CounterInit, taken, MidInit
<1>6. CASE initGetCounters(r)
  <2>1. /\ mpc[r] = "awaitCounters" /\ mpc'[r] = "initStats"
        /\ nGradSteps' = nGradSteps /\ algoSubStepID' = algoSubStepID /\ statCalls' = statCalls
        /\ counterCalls' = counterCalls
    BY <1>2, <1>6 DEF initGetCounters, globalCounterRdx!get, globalCounterRdx!arrive,
       globalCounterRdx!reductorVars, Goto, stepVars, statVars
  <2>2. algoSubStepID[r] = -1
    BY <1>1, <2>1 DEF StepOf, MidInit
  <2> QED BY <1>1, <2>1, <2>2 DEF CallsOf, CounterLen, StatLen, CounterInit, taken, MidInit
<1>7. CASE initUpdateStats(r)
  <2>1. /\ mpc[r] = "initStats" /\ mpc'[r] = "awaitStats"
        /\ nGradSteps' = nGradSteps /\ algoSubStepID' = algoSubStepID /\ counterCalls' = counterCalls
    BY <1>2, <1>7 DEF initUpdateStats, Goto, stepVars, counterVars
  <2>2. statCalls'[r] = Append(statCalls[r], InitPlace)
    BY <1>2, <1>7 DEF initUpdateStats, StateRewRdx!update
  <2>3. algoSubStepID[r] = -1 /\ InitCalls = 1 /\ Len(statCalls[r]) = 1 /\ Done0 = 0
    BY <1>1, <1>3, <2>1 DEF CallsOf, StepOf, StatLen, MidInit
  <2>4. InitPlace = StatPlace(Len(statCalls[r]) + 1)
    <3>1. 0 \div StatsFreq = 0 /\ 0 * StatsFreq = 0
      BY <1>3
    <3> QED BY <2>3, <3>1 DEF InitPlace, StatPlace
  <2>5. /\ Len(statCalls'[r]) = 2
        /\ \A i \in 1 .. Len(statCalls'[r]) : statCalls'[r][i] = StatPlace(i)
    <3>1. InitPlace \in Int /\ \A i \in 1 .. Len(statCalls[r]) : statCalls[r][i] = StatPlace(i)
      BY <1>1 DEF InitPlace, CallsOf
    <3>2. /\ Len(statCalls'[r]) = Len(statCalls[r]) + 1
          /\ \A i \in 1 .. Len(statCalls'[r]) : statCalls'[r][i] = StatPlace(i)
      <4>1. statCalls[r] \in Seq(Int)
        BY <1>1
      <4> QED BY ONLY <4>1, <2>2, <2>4, <3>1, AppendStat
    <3> QED BY <2>3, <3>2
  <2> QED BY <1>1, <2>1, <2>3, <2>5 DEF CallsOf, CounterLen, StatLen, CounterInit, taken, MidInit
<1>8. CASE initGetStats(r)
  <2>1. /\ mpc[r] = "awaitStats" /\ mpc'[r] = "stepMain" /\ algoSubStepID'[r] = 0
        /\ nGradSteps' = nGradSteps /\ counterCalls' = counterCalls /\ statCalls' = statCalls
    BY <1>2, <1>8 DEF initGetStats, StateRewRdx!get, StateRewRdx!arrive,
       StateRewRdx!reductorVars, Goto, counterVars
  <2>2. algoSubStepID[r] = -1 /\ InitCalls = 1 /\ taken(r) = 0 /\ Done0 = 0 /\ nGradSteps[r] = 0
    BY <1>1, <1>3, <2>1 DEF StepOf, CallsOf, MidInit
  <2>3. Len(counterCalls[r]) = 2 /\ Len(statCalls[r]) = 2
    BY <1>1, <2>1, <2>2 DEF CallsOf, CounterLen, StatLen, CounterInit
  <2>4. 0 \div StatsFreq = 0
    BY <1>3
  <2> QED BY <1>1, <2>1, <2>2, <2>3, <2>4 DEF CallsOf, CounterLen, StatLen, CounterDone, StatDone, taken, MidInit
<1>9. CASE stepMain(r)
  <2>1. /\ mpc[r] = "stepMain" /\ algoSubStepID' = algoSubStepID
        /\ nGradSteps' = nGradSteps /\ counterCalls' = counterCalls /\ statCalls' = statCalls
    BY <1>9 DEF stepMain, Goto, stepVars, counterVars, statVars
  <2>2. \/ mpc'[r] = "stepComplete"
        \/ algoSubStepID[r] = 0 /\ mpc'[r] = "updateStats" /\ (nGradSteps[r] + 1) % StatsFreq = 0
        \/ algoSubStepID[r] = 0 /\ mpc'[r] = "updateCounters" /\ (nGradSteps[r] + 1) % StatsFreq # 0
    BY <1>2, <1>9 DEF stepMain, Goto
  <2>3. CASE mpc'[r] = "stepComplete"
    BY <1>1, <2>1, <2>3 DEF CallsOf, CounterLen, StatLen, CounterInit, CounterDone, StatDone, taken, MidInit
  <2>4. CASE algoSubStepID[r] = 0 /\ mpc'[r] = "updateStats" /\ (nGradSteps[r] + 1) % StatsFreq = 0
    BY <1>1, <2>1, <2>4 DEF CallsOf, CounterLen, StatLen, CounterInit, CounterDone, StatDone, taken, MidInit
  <2>5. CASE algoSubStepID[r] = 0 /\ mpc'[r] = "updateCounters" /\ (nGradSteps[r] + 1) % StatsFreq # 0
    <3>1. CounterLen(r)' = CounterLen(r)
      BY <2>1, <2>5 DEF CounterLen, CounterDone, taken
    <3>2. StatLen(r)' = 1 + InitCalls - Done0 \div StatsFreq + (nGradSteps[r] + 1) \div StatsFreq
      BY <2>1, <2>5 DEF StatLen, StatDone
    <3>3. StatLen(r) = 1 + InitCalls - Done0 \div StatsFreq + nGradSteps[r] \div StatsFreq
      BY <1>1, <2>1, <2>5 DEF StatLen, StatDone
    <3>4. StatLen(r)' = StatLen(r)
      BY <1>d, <2>5, <3>2, <3>3
    <3> QED BY <1>1, <2>1, <2>5, <3>1, <3>4 DEF CallsOf, taken, MidInit
  <2> QED BY <2>2, <2>3, <2>4, <2>5
<1>10. CASE updateRewardsStats(r)
  <2>1. /\ mpc[r] = "updateStats" /\ mpc'[r] = "getStats" /\ algoSubStepID' = algoSubStepID
        /\ nGradSteps' = nGradSteps /\ counterCalls' = counterCalls
    BY <1>2, <1>10 DEF updateRewardsStats, Goto, stepVars, counterVars
  <2>2. statCalls'[r] = Append(statCalls[r], nGradSteps[r])
    BY <1>2, <1>10 DEF updateRewardsStats, StateRewRdx!update
  <2>3. algoSubStepID[r] = 0 /\ (nGradSteps[r] + 1) % StatsFreq = 0
    BY <1>1, <2>1 DEF CallsOf, StepOf, MidStep
  <2>4. Len(statCalls[r]) = 1 + InitCalls - Done0 \div StatsFreq + nGradSteps[r] \div StatsFreq
    BY <1>1, <2>1, <2>3 DEF CallsOf, StatLen, StatDone
  <2>5. Len(statCalls[r]) # 0
    BY <1>1
  <2>6. nGradSteps[r] = StatPlace(Len(statCalls[r]) + 1)
    <3>1. Done0 \div StatsFreq + (Len(statCalls[r]) + 1) - 1 - InitCalls = nGradSteps[r] \div StatsFreq + 1
      BY <1>3, <1>d, <2>4
    <3>2. Len(statCalls[r]) + 1 # 1
      BY <1>1, <2>5
    <3> QED BY <1>1, <1>d, <2>3, <3>1, <3>2 DEF StatPlace
  <2>7. /\ Len(statCalls'[r]) = Len(statCalls[r]) + 1
        /\ \A i \in 1 .. Len(statCalls'[r]) : statCalls'[r][i] = StatPlace(i)
    <3>0. nGradSteps[r] \in Int
      BY <1>1
    <3>1. \A i \in 1 .. Len(statCalls[r]) : statCalls[r][i] = StatPlace(i)
      BY <1>1 DEF CallsOf
    <3>2. statCalls[r] \in Seq(Int)
      BY <1>1
    <3> QED BY ONLY <3>0, <2>2, <2>6, <3>1, <3>2, AppendStat
  <2>8. StatLen(r)' = Len(statCalls[r]) + 1
    <3>1. StatLen(r)' = 1 + InitCalls - Done0 \div StatsFreq + (nGradSteps[r] + 1) \div StatsFreq
      BY <2>1, <2>3 DEF StatLen, StatDone
    <3> QED BY <1>3, <1>d, <2>3, <2>4, <3>1
  <2>9. CounterLen(r)' = CounterLen(r)
    BY <2>1, <2>3 DEF CounterLen, CounterDone, taken
  <2> QED BY <1>1, <2>1, <2>3, <2>7, <2>8, <2>9 DEF CallsOf, taken, MidInit
<1>11. CASE getRewardsStats(r)
  <2>1. /\ mpc[r] = "getStats" /\ mpc'[r] = "updateCounters" /\ algoSubStepID' = algoSubStepID
        /\ nGradSteps' = nGradSteps /\ counterCalls' = counterCalls /\ statCalls' = statCalls
    BY <1>2, <1>11 DEF getRewardsStats, StateRewRdx!get, StateRewRdx!arrive,
       StateRewRdx!reductorVars, Goto, stepVars, counterVars
  <2>2. algoSubStepID[r] = 0
    BY <1>1, <2>1 DEF StepOf, MidStep
  <2> QED BY <1>1, <2>1, <2>2 DEF CallsOf, CounterLen, StatLen, CounterDone, StatDone, taken, MidInit
<1>12. CASE updateCounters(r)
  <2>1. /\ mpc[r] = "updateCounters" /\ mpc'[r] = "getCounters" /\ algoSubStepID' = algoSubStepID
        /\ nGradSteps' = nGradSteps /\ statCalls' = statCalls
    BY <1>2, <1>12 DEF updateCounters, Goto, stepVars, statVars
  <2>2. counterCalls'[r] = Append(counterCalls[r], nGradSteps[r])
    BY <1>2, <1>12 DEF updateCounters, globalCounterRdx!update
  <2>3. algoSubStepID[r] = 0
    BY <1>1, <2>1 DEF StepOf, MidStep
  <2>4. Len(counterCalls[r]) = 1 + InitCalls + taken(r)
    BY <1>1, <1>3, <2>1, <2>3 DEF CallsOf, CounterLen, CounterDone
  <2>5. nGradSteps[r] = CounterPlace(Len(counterCalls[r]) + 1)
    <3>1. Len(counterCalls[r]) + 1 # 1
      BY <1>1
    <3>2. Done0 + (Len(counterCalls[r]) + 1) - 2 - InitCalls = nGradSteps[r]
      <4>1. Len(counterCalls[r]) = 1 + InitCalls + (nGradSteps[r] - Done0)
        BY <1>1, <2>4
      <4>2. Done0 \in Int /\ InitCalls \in Int /\ nGradSteps[r] \in Int
        BY <1>1, <1>3
      <4>3. \A d, e, n \in Int : d + ((1 + e + (n - d)) + 1) - 2 - e = n
        OBVIOUS
      <4>4. Done0 + ((1 + InitCalls + (nGradSteps[r] - Done0)) + 1) - 2 - InitCalls = nGradSteps[r]
        BY ONLY <4>2, <4>3
      <4> QED BY ONLY <4>1, <4>4
    <3> QED BY <3>1, <3>2 DEF CounterPlace
  <2>6. /\ Len(counterCalls'[r]) = Len(counterCalls[r]) + 1
        /\ \A i \in 1 .. Len(counterCalls'[r]) : counterCalls'[r][i] = CounterPlace(i)
    <3>0. nGradSteps[r] \in Int
      BY <1>1
    <3>1. \A i \in 1 .. Len(counterCalls[r]) : counterCalls[r][i] = CounterPlace(i)
      BY <1>1 DEF CallsOf
    <3>2. counterCalls[r] \in Seq(Int)
      BY <1>1
    <3> QED BY ONLY <3>0, <2>2, <2>5, <3>1, <3>2, AppendCounter
  <2>7. CounterLen(r)' = Len(counterCalls[r]) + 1
    BY <1>1, <1>3, <2>1, <2>3, <2>4 DEF CounterLen, CounterDone, taken
  <2>8. StatLen(r)' = StatLen(r)
    BY <2>1, <2>3 DEF StatLen, StatDone
  <2> QED BY <1>1, <2>1, <2>3, <2>6, <2>7, <2>8 DEF CallsOf, taken, MidInit
<1>13. CASE getCounters(r)
  <2>1. /\ mpc[r] = "getCounters" /\ mpc'[r] = "stepComplete" /\ algoSubStepID'[r] = 1
        /\ nGradSteps' = nGradSteps /\ counterCalls' = counterCalls /\ statCalls' = statCalls
    BY <1>2, <1>13 DEF getCounters, globalCounterRdx!get, globalCounterRdx!arrive,
       globalCounterRdx!reductorVars, Goto, statVars
  <2>2. algoSubStepID[r] = 0
    BY <1>1, <2>1 DEF StepOf, MidStep
  <2> QED BY <1>1, <2>1, <2>2 DEF CallsOf, CounterLen, StatLen, CounterDone, StatDone, taken, MidInit
<1>14. ASSUME NEW test \in BOOLEAN, stepComplete(r, test) PROVE CallsOf(r)'
  <2>1. /\ mpc[r] = "stepComplete" /\ mpc'[r] = "isOver"
        /\ counterCalls' = counterCalls /\ statCalls' = statCalls
    BY <1>2, <1>14 DEF stepComplete, Goto, counterVars, statVars
  <2>2. \/ nGradSteps'[r] = nGradSteps[r] /\ algoSubStepID'[r] = algoSubStepID[r]
        \/ nGradSteps'[r] = nGradSteps[r] + 1 /\ algoSubStepID[r] = 1 /\ algoSubStepID'[r] = 0
    BY <1>2, <1>14 DEF stepComplete
  <2>3. CASE nGradSteps'[r] = nGradSteps[r] /\ algoSubStepID'[r] = algoSubStepID[r]
    BY <1>1, <2>1, <2>3 DEF CallsOf, CounterLen, StatLen, CounterInit, CounterDone, StatDone, taken, MidInit
  <2>4. CASE nGradSteps'[r] = nGradSteps[r] + 1 /\ algoSubStepID[r] = 1 /\ algoSubStepID'[r] = 0
    <3>0. DoneSteps[r] = Done0
      BY Constants
    <3>1. CounterLen(r)' = 1 + InitCalls + (nGradSteps[r] + 1 - Done0)
      BY <1>1, <1>3, <2>1, <2>4, <3>0 DEF CounterLen, CounterDone, taken
    <3>2. CounterLen(r) = 1 + InitCalls + taken(r) + 1
      BY <2>4 DEF CounterLen, CounterDone
    <3>3. CounterLen(r)' = CounterLen(r)
      BY <1>1, <1>3, <3>1, <3>2
    <3>4. StatLen(r)' = 1 + InitCalls - Done0 \div StatsFreq + (nGradSteps[r] + 1) \div StatsFreq
      BY <1>1, <2>1, <2>4 DEF StatLen, StatDone
    <3>5. StatLen(r) = 1 + InitCalls - Done0 \div StatsFreq + (nGradSteps[r] + 1) \div StatsFreq
      BY <2>4 DEF StatLen, StatDone
    <3> QED BY <1>1, <2>1, <2>4, <3>3, <3>4, <3>5 DEF CallsOf, MidInit
  <2> QED BY <2>2, <2>3, <2>4
<1>15. CASE isOver(r)
  <2>1. /\ mpc[r] = "isOver" /\ algoSubStepID' = algoSubStepID
        /\ nGradSteps' = nGradSteps /\ counterCalls' = counterCalls /\ statCalls' = statCalls
        /\ mpc'[r] \in {"over", "stepInit"}
    BY <1>2, <1>15 DEF isOver, Goto, stepVars, counterVars, statVars
  <2> QED BY <1>1, <2>1 DEF CallsOf, CounterLen, StatLen, CounterInit, CounterDone, StatDone, taken, MidInit
<1> QED BY <1>4, <1>5, <1>6, <1>7, <1>8, <1>9, <1>10, <1>11, <1>12, <1>13, <1>14, <1>15 DEF MainStep

LEMMA CallsStayTyped ==
  ASSUME CallsInv, NEW r \in Ranks, MainStep(r)
  PROVE  CallsTyped'
<1>1. /\ counterCalls \in [Ranks -> Seq(Int)] /\ statCalls \in [Ranks -> Seq(Int)]
      /\ nGradSteps[r] \in Int /\ InitPlace \in Int
  BY DEF CallsInv, CallsTyped, StepInv, StepTyped, InitPlace
<1>2. ASSUME NEW x \in Int
      PROVE  Append(counterCalls[r], x) \in Seq(Int) /\ Append(statCalls[r], x) \in Seq(Int)
  BY <1>1
<1>3. \/ counterCalls' = counterCalls
      \/ \E x \in {InitPlace, nGradSteps[r]} : counterCalls' = [counterCalls EXCEPT ![r] = Append(@, x)]
  BY DEF MainStep, stepInit, initUpdateCounters, initGetCounters, initUpdateStats, initGetStats, stepMain,
     updateRewardsStats, getRewardsStats, updateCounters, getCounters, stepComplete, isOver,
     globalCounterRdx!update, globalCounterRdx!get, globalCounterRdx!arrive,
     globalCounterRdx!reductorVars, counterVars
<1>4. \/ statCalls' = statCalls
      \/ \E x \in {InitPlace, nGradSteps[r]} : statCalls' = [statCalls EXCEPT ![r] = Append(@, x)]
  BY DEF MainStep, stepInit, initUpdateCounters, initGetCounters, initUpdateStats, initGetStats, stepMain,
     updateRewardsStats, getRewardsStats, updateCounters, getCounters, stepComplete, isOver,
     StateRewRdx!update, StateRewRdx!get, StateRewRdx!arrive,
     StateRewRdx!reductorVars, statVars
<1>5. counterCalls' \in [Ranks -> Seq(Int)]
  BY <1>1, <1>2, <1>3
<1>6. statCalls' \in [Ranks -> Seq(Int)]
  BY <1>1, <1>2, <1>4
<1> QED BY <1>5, <1>6 DEF CallsTyped

LEMMA NextCallsInv == SameSteps /\ CallsInv /\ [Next]_vars => CallsInv'
<1> SUFFICES ASSUME SameSteps, CallsInv, [Next]_vars PROVE CallsInv'
  OBVIOUS
<1>1. StepInv'
  BY NextStepInv DEF CallsInv
<1>2. CASE UNCHANGED <<stepVars, counterVars, statVars, mpc>>
  <2>1. CallsTyped' /\ \A r \in Ranks : SameCalls(r) /\ mpc'[r] = mpc[r]
    BY <1>2 DEF CallsInv, CallsTyped, SameCalls, stepVars, counterVars, statVars
  <2> QED BY <1>1, <2>1, SameCallsKeep DEF CallsInv
<1>3. ASSUME NEW r \in Ranks, DataStep(r) PROVE CallsInv'
  BY <1>2, <1>3, DataStepQuiet
<1>4. ASSUME NEW r \in Ranks, MainStep(r) PROVE CallsInv'
  <2>1. CallsTyped'
    BY <1>4, CallsStayTyped
  <2>2. ASSUME NEW s \in Ranks PROVE CallsOf(s)'
    <3>1. CASE s = r
      BY <1>4, <3>1, OwnCalls
    <3>2. CASE s # r
      BY <1>4, <3>2, OthersKeep, SameCallsKeep DEF CallsInv
    <3> QED BY <3>1, <3>2
  <2> QED BY <1>1, <2>1, <2>2 DEF CallsInv
<1> QED BY <1>2, <1>3, <1>4, NextSteps DEF vars

\* The n-th reduction of the counters, and the n-th of the statistics, is called from the
\* same place of the algorithm by all ranks, for any number of ranks and frequency of the
\* statistics, if all ranks begin at the same gradient step.
THEOREM CollectivesMatchHolds == SameSteps => (Spec => []CollectivesMatch)
<1> SUFFICES ASSUME SameSteps PROVE Spec => []CollectivesMatch
  OBVIOUS
<1>1. CallsInv => CollectivesMatch
  <2> SUFFICES ASSUME CallsInv PROVE CollectivesMatch
    OBVIOUS
  <2>1. \A r \in Ranks : Len(counterCalls[r]) \in Nat /\ Len(statCalls[r]) \in Nat
    BY DEF CallsInv, CallsTyped
  <2>2. ASSUME NEW r \in Ranks, NEW s \in Ranks
        PROVE  /\ \A i \in 1 .. Len(counterCalls[r]) : i <= Len(counterCalls[s]) =>
                    counterCalls[r][i] = counterCalls[s][i]
               /\ \A i \in 1 .. Len(statCalls[r]) : i <= Len(statCalls[s]) =>
                    statCalls[r][i] = statCalls[s][i]
    <3>1. CallsOf(r) /\ CallsOf(s)
      BY DEF CallsInv
    <3>2. /\ \A i \in 1 .. Len(counterCalls[r]) : i <= Len(counterCalls[s]) => i \in 1 .. Len(counterCalls[s])
          /\ \A i \in 1 .. Len(statCalls[r]) : i <= Len(statCalls[s]) => i \in 1 .. Len(statCalls[s])
      BY <2>1
    <3> QED BY <3>1, <3>2 DEF CallsOf
  <2> QED BY <2>2 DEF CollectivesMatch
<1>2. Init => CallsInv
  BY InitCallsInv
<1>3. CallsInv /\ [Next]_vars => CallsInv'
  BY NextCallsInv
<1> QED BY <1>1, <1>2, <1>3, PTL DEF Spec

------------------------------------------------------------------------------
(* Sums over the ranks.  Each rank tests its own share of the observations   *)
(* before it hands over gradients, and no rank completes a step before all   *)
(* have handed over theirs: the shares add up to what obsPerStep asks for.   *)

\* Only a rank with environments has episodes of its own to deal out, and its coordinator
\* stays at the list while there are some.
CoordinatorOf(r) ==
  /\ cpc[r] = "distribute" => episodes[r] > 0
  /\ Owned[r] = 0 => ended[r] = 0 /\ episodes[r] = 0 /\ cpc[r] \in {"begin", "receive", "store"}

DataTyped ==
  /\ nSeen \in [Ranks -> Nat] /\ nStored \in [Ranks -> Nat] /\ mail \in [Ranks -> Nat]
  /\ ended \in [Ranks -> Nat] /\ uncounted \in [Ranks -> Nat] /\ episodes \in [Ranks -> Nat]
  /\ cpc \in [Ranks -> CPCs] /\ \A r \in Ranks : CoordinatorOf(r)
  /\ nGatheredB4Startup \in [Ranks -> {NObsB4Start, LongMax}]
  /\ sharingDest \in [Ranks -> Ranks]
  /\ Owned \in [Ranks -> Nat] /\ nEnvironments \in Nat \ {0}
  /\ nEnvironments = SumOf(Owned, Ranks)

\* The gradients that a rank has handed over last were those of a step that its own data
\* backed, and data do not get less.
ShareBacked(r) ==
  gradRounds[r] > 0 => Available(r) >= Required(r, DoneSteps[r] + gradRounds[r] - 1)

RatioInv == DataTyped /\ \A r \in Ranks : ShareBacked(r)

LEMMA RanksFinite == IsFiniteSet(Ranks) /\ Ranks \subseteq Nat /\ 0 \in Ranks
BY GroupAssumption, FS_Interval DEF Ranks

\* The sum of natural numbers of which one is not 0.
LEMMA SumPositive ==
  ASSUME NEW S, IsFiniteSet(S), NEW f \in [S -> Nat], NEW x \in S, f[x] > 0
  PROVE  SumOf(f, S) \in Nat \ {0}
<1> DEFINE g == [y \in S |-> 0]
           h == [y \in S |-> IF y = x THEN f[x] ELSE 0]
<1>1. g \in [S -> Int] /\ (\A y \in S : g[y] = 0) /\ h \in [S -> Int] /\ h[x] = f[x]
      /\ (\A y \in S \ {x} : h[y] = g[y]) /\ f \in [S -> Int] /\ \A y \in S : h[y] <= f[y]
  OBVIOUS
<1> HIDE DEF g, h
<1>2. SumOf(g, S) = Cardinality(S) * 0
  <2>1. 0 \in Int
    OBVIOUS
  <2> QED BY <1>1, <2>1, SumConstant
<1>3. SumOf(h, S) = SumOf(g, S) - g[x] + h[x]
  BY <1>1, SumChange
<1>4. SumOf(h, S) <= SumOf(f, S)
  BY <1>1, SumMono
<1>5. Cardinality(S) \in Nat /\ SumOf(f, S) \in Int
  BY <1>1, FS_CardinalityType, SumType
<1>6. SumOf(h, S) = f[x]
  BY <1>1, <1>2, <1>3, <1>5
<1> QED BY <1>4, <1>5, <1>6

\* The number of environments is that of all ranks.
LEMMA EnvironmentsAreSum ==
  ASSUME Owned \in [Ranks -> Nat]
  PROVE  MapThenSumSet(LAMBDA r : Owned[r], Ranks) = SumOf(Owned, Ranks)
BY DEF SumOf

LEMMA Quotients ==
  ASSUME NEW a \in Nat, NEW b \in Nat \ {0}
  PROVE  a \div b \in Nat
OBVIOUS

LEMMA InitDataTyped == Init => DataTyped
<1> SUFFICES ASSUME Init PROVE DataTyped
  OBVIOUS
<1>1. PICK a \in Arrangements : Owned = a.owned
  BY DEF Init
<1>2. Owned \in [Ranks -> Nat] /\ \E r \in Ranks : Owned[r] > 0
  BY <1>1, GroupAssumption
<1>3. nEnvironments = SumOf(Owned, Ranks)
  BY <1>2, EnvironmentsAreSum DEF Init
<1>4. nEnvironments \in Nat \ {0}
  BY <1>2, <1>3, RanksFinite, SumPositive
<1> DEFINE quotient(r) == (DoneSteps[r] * ObsNum * Owned[r]) \div (ObsDen * nEnvironments)
<1>5. ASSUME NEW r \in Ranks PROVE quotient(r) \in Nat
  <2>1. DoneSteps[r] * ObsNum * Owned[r] \in Nat /\ ObsDen * nEnvironments \in Nat \ {0}
    BY <1>2, <1>4, GroupAssumption
  <2> QED BY <2>1, Quotients
<1>6. nSeen = [r \in Ranks |-> IF DoneSteps[r] = 0 THEN 0 ELSE NObsB4Start + quotient(r)]
      /\ nStored = nSeen
  BY DEF Init
<1> HIDE DEF quotient
<1>7. nSeen \in [Ranks -> Nat]
  BY <1>5, <1>6, GroupAssumption
<1>8. nGatheredB4Startup \in [Ranks -> {NObsB4Start, LongMax}]
  BY DEF Init
<1>9. /\ mail \in [Ranks -> Nat] /\ sharingDest \in [Ranks -> Ranks]
      /\ ended \in [Ranks -> Nat] /\ uncounted \in [Ranks -> Nat] /\ episodes \in [Ranks -> Nat]
      /\ cpc \in [Ranks -> CPCs] /\ \A r \in Ranks : CoordinatorOf(r)
  BY DEF Init, CPCs, CoordinatorOf
<1> QED BY <1>2, <1>3, <1>4, <1>6, <1>7, <1>8, <1>9 DEF DataTyped

LEMMA InitRatioInv == Init => RatioInv
<1>1. Init => \A r \in Ranks : ShareBacked(r)
  BY DEF Init, ShareBacked
<1> QED BY <1>1, InitDataTyped DEF RatioInv

\* Data are only added to, and the start of training only lowers what is left out.
LEMMA AvailableGrows ==
  ASSUME DataTyped, NEW r \in Ranks, UNCHANGED nEnvironments,
         nSeen'[r] \in Nat, nSeen'[r] >= nSeen[r],
         nGatheredB4Startup'[r] \in {NObsB4Start, LongMax},
         nGatheredB4Startup'[r] <= nGatheredB4Startup[r]
  PROVE  Available(r)' >= Available(r) /\ Available(r)' \in Int /\ Available(r) \in Int
<1> DEFINE c == ObsDen * nEnvironments
           x == nLocTimeStepsTrain(r)
           y == nLocTimeStepsTrain(r)'
<1>1. c \in Nat /\ x \in Int /\ y \in Int /\ x <= y
  BY GroupAssumption DEF DataTyped, nLocTimeStepsTrain
<1>2. Available(r) = x * c /\ Available(r)' = y * c
  <2>1. \A u \in Int, v, w \in Nat : u * v * w = u * (v * w)
    OBVIOUS
  <2>2. ObsDen \in Nat /\ nEnvironments \in Nat
    BY GroupAssumption DEF DataTyped
  <2> QED BY <1>1, <2>1, <2>2 DEF Available
<1> HIDE DEF c, x, y
<1>3. (y - x) * c >= 0 /\ (y - x) * c = y * c - x * c /\ y * c \in Int /\ x * c \in Int
  BY <1>1
<1> QED BY <1>2, <1>3

LEMMA NextInRing ==
  ASSUME NEW d \in Ranks
  PROVE  (d + 1) % nLearners \in Ranks
<1>1. \A n \in Nat \ {0}, m \in Nat : m % n \in 0 .. n - 1
  OBVIOUS
<1>2. d + 1 \in Nat /\ nLearners \in Nat \ {0}
  BY GroupAssumption DEF Ranks
<1>3. (d + 1) % nLearners \in 0 .. nLearners - 1
  BY ONLY <1>1, <1>2
<1> QED BY <1>3 DEF Ranks

LEMMA PassOnTyped ==
  ASSUME DataTyped, NEW r \in Ranks, PassOn(r)
  PROVE  /\ nStored' \in [Ranks -> Nat] /\ mail' \in [Ranks -> Nat]
         /\ sharingDest' \in [Ranks -> Ranks]
<1>1. \A d \in Ranks : (d + 1) % nLearners \in Ranks
  BY NextInRing
<1> QED BY <1>1 DEF PassOn, DataTyped

\* What the threads of a master add.
LEMMA ThreadTyped ==
  ASSUME DataTyped, NEW r \in Ranks, ThreadStep(r)
  PROVE  DataTyped'
<1> USE DEF DataTyped
<1>s. UNCHANGED <<Owned, nEnvironments, nGatheredB4Startup>>
  BY DataStepQuiet DEF DataStep, setup, stepVars
<1>1. CASE Gather(r)
  <2>1. /\ ended' = [ended EXCEPT ![r] = ended[r] + 1]
        /\ UNCHANGED <<nSeen, nStored, uncounted, cpc, episodes, sharingDest, mail>>
    BY <1>1 DEF Gather, sharingVars
  <2>2. Owned[r] # 0
    BY <1>1 DEF Gather
  <2>3. ended' \in [Ranks -> Nat]
    BY <2>1
  <2>4. ASSUME NEW q \in Ranks PROVE CoordinatorOf(q)'
    <3>1. CoordinatorOf(q) /\ (q # r => ended'[q] = ended[q])
      BY <2>1
    <3> QED BY <1>s, <2>1, <2>2, <3>1 DEF CoordinatorOf
  <2> QED BY <1>s, <2>1, <2>3, <2>4
<1>2. CASE addComplete(r)
  <2>1. /\ ended[r] > 0 /\ ended' = [ended EXCEPT ![r] = ended[r] - 1]
        /\ uncounted' = [uncounted EXCEPT ![r] = uncounted[r] + 1]
        /\ \/ episodes' = [episodes EXCEPT ![r] = episodes[r] + 1] /\ nStored' = nStored
           \/ nStored' = [nStored EXCEPT ![r] = nStored[r] + 1] /\ episodes' = episodes
        /\ UNCHANGED <<nSeen, cpc, sharingDest, mail>>
    BY <1>2 DEF addComplete
  <2>2. ended[r] - 1 \in Nat
    BY <2>1
  <2>3. /\ ended' \in [Ranks -> Nat] /\ uncounted' \in [Ranks -> Nat]
        /\ episodes' \in [Ranks -> Nat] /\ nStored' \in [Ranks -> Nat]
    BY <2>1, <2>2
  <2>4. ASSUME NEW q \in Ranks PROVE CoordinatorOf(q)'
    <3>1. CoordinatorOf(q) /\ CoordinatorOf(r)
      OBVIOUS
    <3>2. episodes'[q] >= episodes[q] /\ (q # r => ended'[q] = ended[q] /\ episodes'[q] = episodes[q])
      BY <2>1
    <3> QED BY <1>s, <2>1, <3>1, <3>2 DEF CoordinatorOf
  <2> QED BY <1>s, <2>1, <2>3, <2>4
<1>3. CASE increaseLocalSeenSteps(r)
  <2>1. /\ uncounted[r] > 0 /\ uncounted' = [uncounted EXCEPT ![r] = uncounted[r] - 1]
        /\ nSeen' = [nSeen EXCEPT ![r] = nSeen[r] + 1]
        /\ UNCHANGED <<nStored, ended, cpc, episodes, sharingDest, mail>>
    BY <1>3 DEF increaseLocalSeenSteps, sharingVars
  <2>2. uncounted[r] - 1 \in Nat
    BY <2>1
  <2>3. uncounted' \in [Ranks -> Nat] /\ nSeen' \in [Ranks -> Nat]
    BY <2>1, <2>2
  <2>4. \A q \in Ranks : CoordinatorOf(q)'
    BY <1>s, <2>1 DEF CoordinatorOf
  <2> QED BY <1>s, <2>1, <2>3, <2>4
<1> QED BY <1>1, <1>2, <1>3 DEF ThreadStep

\* A step of the coordinator that takes nothing from the list.
Moved(r, to) ==
  /\ to \in CPCs /\ cpc' = [cpc EXCEPT ![r] = to]
  /\ to = "distribute" => episodes[r] > 0
  /\ Owned[r] = 0 => to \in {"begin", "receive", "store"}

LEMMA MovedTyped ==
  ASSUME DataTyped, NEW r \in Ranks, NEW to, Moved(r, to),
         UNCHANGED <<ended, uncounted, episodes, nGatheredB4Startup, Owned, nEnvironments>>,
         nSeen' \in [Ranks -> Nat], nStored' \in [Ranks -> Nat], mail' \in [Ranks -> Nat],
         sharingDest' \in [Ranks -> Ranks]
  PROVE  DataTyped'
<1> USE DEF DataTyped
<1>1. cpc' \in [Ranks -> CPCs] /\ cpc'[r] = to /\ \A q \in Ranks : q # r => cpc'[q] = cpc[q]
  BY DEF Moved
<1>2. ASSUME NEW q \in Ranks PROVE CoordinatorOf(q)'
  <2>1. CoordinatorOf(q)
    OBVIOUS
  <2> QED BY <1>1, <2>1 DEF Moved, CoordinatorOf
<1> QED BY <1>1, <1>2

LEMMA CoordinatorTyped ==
  ASSUME DataTyped, NEW r \in Ranks, CoordinatorStep(r)
  PROVE  DataTyped'
<1> USE DEF DataTyped
<1>s. UNCHANGED <<Owned, nEnvironments, nGatheredB4Startup>>
  BY DataStepQuiet DEF DataStep, setup, stepVars
<1>c. CoordinatorOf(r) /\ Owned[r] \in Nat /\ episodes[r] \in Nat
  OBVIOUS
<1>1. CASE lockQueue(r)
  <2> DEFINE to == IF episodes[r] > 0 THEN "distribute" ELSE AfterList(r)
  <2>1. cpc' = [cpc EXCEPT ![r] = to] /\ HasTasks(r)
        /\ UNCHANGED <<nSeen, nStored, ended, uncounted, episodes, sharingDest, mail>>
    BY <1>1 DEF lockQueue, Proceeds, dataVars
  <2>2. Moved(r, to)
    BY <1>c, <2>1 DEF Moved, AfterList, HasTasks, RunsServer, CPCs, CoordinatorOf
  <2> QED BY <1>s, <2>1, <2>2, MovedTyped
<1>2. CASE distributePendingEpisodes(r)
  <2>1. /\ cpc[r] = "distribute" /\ episodes[r] > 0
        /\ episodes' = [episodes EXCEPT ![r] = episodes[r] - 1]
        /\ cpc' = [cpc EXCEPT ![r] = IF episodes[r] > 1 THEN "distribute" ELSE AfterList(r)]
        /\ UNCHANGED <<nSeen, ended, uncounted>>
    BY <1>2, <1>c DEF distributePendingEpisodes, Proceeds, CoordinatorOf
  <2>2. episodes[r] - 1 \in Nat /\ Owned[r] # 0
    BY <1>c, <2>1 DEF CoordinatorOf
  <2>3. episodes' \in [Ranks -> Nat] /\ cpc' \in [Ranks -> CPCs]
    BY <2>1, <2>2 DEF CPCs, AfterList
  <2>4. ASSUME NEW q \in Ranks PROVE CoordinatorOf(q)'
    <3>1. CoordinatorOf(q)
      OBVIOUS
    <3>2. CASE q = r
      BY <1>s, <1>c, <2>1, <2>2, <3>2 DEF CoordinatorOf, AfterList
    <3>3. CASE q # r
      BY <1>s, <2>1, <3>1, <3>3 DEF CoordinatorOf
    <3> QED BY <3>2, <3>3
  <2>5. nStored' \in [Ranks -> Nat] /\ mail' \in [Ranks -> Nat] /\ sharingDest' \in [Ranks -> Ranks]
    BY <1>2, PassOnTyped DEF distributePendingEpisodes
  <2> QED BY <1>s, <2>1, <2>3, <2>4, <2>5
<1>3. ASSUME NEW found \in BOOLEAN, mastersRecvEpisodes(r, found) PROVE DataTyped'
  <2> DEFINE to == IF found THEN "store" ELSE AfterMasters(r)
  <2>1. /\ cpc' = [cpc EXCEPT ![r] = to] /\ (found => mail[r] > 0)
        /\ mail' = IF found THEN [mail EXCEPT ![r] = mail[r] - 1] ELSE mail
        /\ UNCHANGED <<nSeen, nStored, ended, uncounted, episodes, sharingDest>>
    BY <1>3 DEF mastersRecvEpisodes, Proceeds, dataVars
  <2>2. Moved(r, to)
    BY <1>c, <2>1 DEF Moved, AfterMasters, RunsServer, CPCs
  <2>3. mail' \in [Ranks -> Nat]
    BY <2>1
  <2> QED BY <1>s, <2>1, <2>2, <2>3, MovedTyped
<1>4. CASE storeReceived(r)
  <2>1. /\ cpc' = [cpc EXCEPT ![r] = AfterMasters(r)] /\ nStored' = [nStored EXCEPT ![r] = nStored[r] + 1]
        /\ UNCHANGED <<nSeen, ended, uncounted, episodes, sharingDest, mail>>
    BY <1>4 DEF storeReceived, Proceeds
  <2>2. Moved(r, AfterMasters(r)) /\ nStored' \in [Ranks -> Nat]
    BY <1>c, <2>1 DEF Moved, AfterMasters, RunsServer, CPCs
  <2> QED BY <1>s, <2>1, <2>2, MovedTyped
<1>5. ASSUME NEW from \in CPCs, NEW to \in CPCs, Proceeds(r, from, to),
             from \in {"workers", "probe", "count", "pass", "answer"}, to # "distribute"
      PROVE  Moved(r, to)
  BY <1>c, <1>5 DEF Moved, Proceeds, CoordinatorOf
<1>6. CASE dataAcquisitionIsLocked(r)
  <2>1. PICK to \in {"begin", "probe"} : Proceeds(r, "workers", to)
    BY <1>6 DEF dataAcquisitionIsLocked
  <2>2. Moved(r, to)
    BY <1>5, <2>1 DEF CPCs
  <2> QED BY <1>s, <1>6, <2>2, MovedTyped DEF dataAcquisitionIsLocked, dataVars
<1>7. ASSUME NEW found \in BOOLEAN, recvWorkersEpisode(r, found) PROVE DataTyped'
  <2>1. PICK to \in {"begin", "count"} : Proceeds(r, "probe", to)
    BY <1>7 DEF recvWorkersEpisode
  <2>2. Moved(r, to)
    BY <1>5, <2>1 DEF CPCs
  <2> QED BY <1>s, <1>7, <2>2, MovedTyped DEF recvWorkersEpisode, dataVars
<1>8. CASE countWorkersEpisode(r)
  <2>1. Moved(r, "pass")
    BY <1>5, <1>8 DEF countWorkersEpisode, CPCs
  <2>2. nSeen' \in [Ranks -> Nat]
    BY <1>8 DEF countWorkersEpisode
  <2> QED BY <1>s, <1>8, <2>1, <2>2, MovedTyped DEF countWorkersEpisode
<1>9. CASE shareWorkersEpisode(r)
  <2>1. Moved(r, "answer")
    BY <1>5, <1>9 DEF shareWorkersEpisode, CPCs
  <2>2. nStored' \in [Ranks -> Nat] /\ mail' \in [Ranks -> Nat] /\ sharingDest' \in [Ranks -> Ranks]
    BY <1>9, PassOnTyped DEF shareWorkersEpisode
  <2> QED BY <1>s, <1>9, <2>1, <2>2, MovedTyped DEF shareWorkersEpisode
<1>10. CASE sendParams(r)
  <2>1. Moved(r, "begin")
    BY <1>5, <1>10 DEF sendParams, CPCs
  <2> QED BY <1>s, <1>10, <2>1, MovedTyped DEF sendParams, dataVars
<1> QED BY <1>1, <1>2, <1>3, <1>4, <1>6, <1>7, <1>8, <1>9, <1>10 DEF CoordinatorStep

LEMMA NextDataTyped == DataTyped /\ [Next]_vars => DataTyped'
<1> SUFFICES ASSUME DataTyped, [Next]_vars PROVE DataTyped'
  OBVIOUS
<1>0. ASSUME UNCHANGED <<dataVars, cpc, episodes, sharingDest, mail, nGatheredB4Startup, Owned, nEnvironments>>
      PROVE  DataTyped'
  BY <1>0 DEF DataTyped, CoordinatorOf, dataVars
<1>1. ASSUME NEW r \in Ranks, DataStep(r) PROVE DataTyped'
  <2>1. CASE \E dest \in Ranks : sendCompletes(r, dest)
    BY <1>0, <2>1 DEF sendCompletes, stepVars, setup
  <2> QED BY <1>1, <2>1, ThreadTyped, CoordinatorTyped DEF DataStep
<1>2. ASSUME NEW r \in Ranks, MainStep(r) PROVE DataTyped'
  <2>0. UNCHANGED <<dataVars, cpc, episodes, sharingDest, mail, Owned, nEnvironments>>
    BY <1>2, MainStepQuiet DEF sharingVars, setup
  <2>1. nGatheredB4Startup' \in [Ranks -> {NObsB4Start, LongMax}]
    BY <1>2 DEF DataTyped, MainStep, stepInit, initUpdateCounters, initGetCounters, initUpdateStats,
       initGetStats, stepMain, updateRewardsStats, getRewardsStats, updateCounters, getCounters,
       stepComplete, isOver, stepVars
  <2> QED BY <2>0, <2>1 DEF DataTyped, CoordinatorOf, dataVars
<1>3. CASE UNCHANGED vars
  BY <1>0, <1>3 DEF vars, sharingVars, stepVars, setup
<1> QED BY <1>1, <1>2, <1>3, NextSteps

LEMMA Products == \A x, y, z \in Int : x * y * z \in Int
OBVIOUS

LEMMA BackedKeeps ==
  ASSUME DataTyped, DataTyped', NEW r \in Ranks, ShareBacked(r), UNCHANGED <<setup, gradRounds>>,
         nSeen'[r] >= nSeen[r], nGatheredB4Startup'[r] <= nGatheredB4Startup[r],
         gradRounds \in [Ranks -> Nat]
  PROVE  ShareBacked(r)'
<1>1. Available(r)' >= Available(r) /\ Available(r)' \in Int /\ Available(r) \in Int
  <2>1. nSeen'[r] \in Nat /\ nGatheredB4Startup'[r] \in {NObsB4Start, LongMax} /\ UNCHANGED nEnvironments
    BY DEF DataTyped, setup
  <2> QED BY <2>1, AvailableGrows
<1>2. UNCHANGED <<Owned, gradRounds>>
  BY DEF setup
<1> DEFINE q == Required(r, DoneSteps[r] + gradRounds[r] - 1)
<1>3. q' = q /\ (gradRounds[r] > 0 => Available(r) >= q)
  BY <1>2 DEF ShareBacked, Required
<1>4. q \in Int
  BY Products, GroupAssumption DEF Required, DataTyped
<1>5. ShareBacked(r)' <=> (gradRounds[r] > 0 => Available(r)' >= q')
  BY <1>2 DEF ShareBacked
<1> HIDE DEF q
<1> QED BY <1>1, <1>3, <1>4, <1>5

LEMMA SeenGrows ==
  ASSUME NEW r \in Ranks, DataStep(r)
  PROVE  nSeen' = nSeen \/ nSeen' = [nSeen EXCEPT ![r] = nSeen[r] + 1]
<1>1. CASE ThreadStep(r)
  BY <1>1 DEF ThreadStep, Gather, addComplete, increaseLocalSeenSteps
<1>2. CASE CoordinatorStep(r)
  BY <1>2 DEF CoordinatorStep, lockQueue, distributePendingEpisodes, mastersRecvEpisodes,
     storeReceived, dataAcquisitionIsLocked, recvWorkersEpisode, countWorkersEpisode,
     shareWorkersEpisode, sendParams, dataVars
<1>3. CASE \E dest \in Ranks : sendCompletes(r, dest)
  BY <1>3 DEF sendCompletes, dataVars
<1> QED BY <1>1, <1>2, <1>3 DEF DataStep

LEMMA NextRatioInv == StepInv /\ RatioInv /\ [Next]_vars => RatioInv'
<1> SUFFICES ASSUME StepInv, RatioInv, [Next]_vars PROVE RatioInv'
  OBVIOUS
<1>1. DataTyped /\ DataTyped'
  BY NextDataTyped DEF RatioInv
<1>2. gradRounds \in [Ranks -> Nat] /\ \A r \in Ranks : ShareBacked(r)
  BY DEF StepInv, StepTyped, RatioInv
<1>k. ASSUME UNCHANGED <<setup, gradRounds>>, 
             \A r \in Ranks : nSeen'[r] >= nSeen[r] /\ nGatheredB4Startup'[r] <= nGatheredB4Startup[r]
      PROVE  RatioInv'
  BY <1>1, <1>2, <1>k, BackedKeeps DEF RatioInv
<1>t. \A r \in Ranks : nSeen[r] \in Nat /\ nGatheredB4Startup[r] \in Nat
                       /\ NObsB4Start <= nGatheredB4Startup[r]
  BY <1>1, GroupAssumption DEF DataTyped
<1>0. ASSUME UNCHANGED <<setup, gradRounds, nSeen, nGatheredB4Startup>> PROVE RatioInv'
  BY <1>0, <1>k, <1>t
<1>3. ASSUME NEW r \in Ranks, DataStep(r) PROVE RatioInv'
  <2>1. UNCHANGED <<setup, gradRounds, nGatheredB4Startup>>
    BY <1>3, DataStepQuiet DEF gradVars, stepVars
  <2>2. \A s \in Ranks : nSeen'[s] >= nSeen[s]
    <3>1. nSeen' = nSeen \/ nSeen' = [nSeen EXCEPT ![r] = nSeen[r] + 1]
      BY <1>3, SeenGrows
    <3> QED BY <1>1, <1>t, <3>1 DEF DataTyped
  <2> QED BY <1>k, <1>t, <2>1, <2>2
<1>4. ASSUME NEW r \in Ranks, initGetStats(r) PROVE RatioInv'
  <2>1. /\ nGatheredB4Startup' = [nGatheredB4Startup EXCEPT ![r] = NObsB4Start]
        /\ UNCHANGED <<setup, gradRounds, nSeen>>
    BY <1>4 DEF initGetStats, gradVars, dataVars
  <2>2. \A s \in Ranks : nGatheredB4Startup'[s] <= nGatheredB4Startup[s]
    BY <1>1, <1>t, <2>1, GroupAssumption DEF DataTyped
  <2> QED BY <1>k, <1>t, <2>1, <2>2
<1>5. ASSUME NEW r \in Ranks, stepMain(r) PROVE RatioInv'
  <2>1. CASE algoSubStepID[r] = 0 /\ ~blockGradientUpdates(r)
    <3>1. /\ mpc[r] = "stepMain" /\ gradRounds' = [gradRounds EXCEPT ![r] = gradRounds[r] + 1]
          /\ UNCHANGED <<setup, nSeen, nGatheredB4Startup>>
      BY <1>5, <2>1 DEF stepMain, Goto, dataVars, stepVars
    <3>2. gradRounds[r] = taken(r)
      BY <2>1, <3>1 DEF StepInv, StepOf, MidStep
    <3>3. Available(r) >= Required(r, nGradSteps[r])
      <4>1. Available(r) \in Int /\ Required(r, nGradSteps[r]) \in Int
        <5>1. nLocTimeStepsTrain(r) \in Int
          <6>1. nSeen[r] \in Nat /\ nGatheredB4Startup[r] \in Nat
            BY <1>1, <1>t DEF DataTyped
          <6> QED BY <6>1 DEF nLocTimeStepsTrain
        <5>2. ObsDen \in Int /\ nEnvironments \in Int /\ ObsNum \in Int /\ Owned[r] \in Int
          BY <1>1, GroupAssumption DEF DataTyped
        <5>3. nGradSteps[r] \in Int
          BY DEF StepInv, StepTyped
        <5> QED BY <5>1, <5>2, <5>3, Products DEF Available, Required
      <4> QED BY <2>1, <4>1 DEF blockGradientUpdates
    <3>4. DoneSteps[r] + (gradRounds[r] + 1) - 1 = nGradSteps[r]
      BY <3>2, GroupAssumption DEF taken, StepInv, StepTyped
    <3>5. ASSUME NEW s \in Ranks PROVE ShareBacked(s)'
      <4>1. UNCHANGED <<Owned, nEnvironments, nSeen, nGatheredB4Startup>>
        BY <3>1 DEF setup
      <4>2. CASE s = r
        BY <1>2, <3>1, <3>3, <3>4, <4>1, <4>2
           DEF ShareBacked, Available, Required, nLocTimeStepsTrain
      <4>3. CASE s # r
        BY <1>2, <3>1, <4>1, <4>3 DEF ShareBacked, Available, Required, nLocTimeStepsTrain
      <4> QED BY <4>2, <4>3
    <3> QED BY <1>1, <3>5 DEF RatioInv
  <2>2. CASE ~(algoSubStepID[r] = 0 /\ ~blockGradientUpdates(r))
    BY <1>0, <1>5, <2>2 DEF stepMain, dataVars, stepVars
  <2> QED BY <2>1, <2>2
<1>6. ASSUME NEW r \in Ranks, MainStep(r), ~initGetStats(r), ~stepMain(r)
      PROVE  RatioInv'
  BY <1>0, <1>6 DEF MainStep, stepInit, initUpdateCounters,
     initGetCounters, initUpdateStats, updateRewardsStats, getRewardsStats, updateCounters,
     getCounters, stepComplete, isOver, dataVars, stepVars, gradVars
<1>7. CASE UNCHANGED vars
  BY <1>0, <1>7 DEF vars, dataVars, stepVars, gradVars
<1> QED BY <1>3, <1>4, <1>5, <1>6, <1>7, NextSteps

\* The observations of all ranks as a sum of a function.
Gathered == [r \in Ranks |-> nLocTimeStepsTrain(r)]

LEMMA GatheredIsSum ==
  ASSUME DataTyped
  PROVE  Gathered \in [Ranks -> Int] /\ MapThenSumSet(nLocTimeStepsTrain, Ranks) = SumOf(Gathered, Ranks)
<1> DEFINE Def(iter) == iter = [s \in SUBSET Ranks |-> IF s = {} THEN 0
               ELSE nLocTimeStepsTrain(AnyOf(s)) + iter[s \ {AnyOf(s)}]]
<1>1. MapThenSumSet(nLocTimeStepsTrain, Ranks) = (CHOOSE iter : Def(iter))[Ranks]
  BY DEF MapThenSumSet, MapThenFoldSet, AnyOf
<1>2. ASSUME NEW iter PROVE Def(iter) <=> Adds(iter, Gathered, Ranks)
  <2>1. \A s \in SUBSET Ranks : s # {} => Gathered[AnyOf(s)] = nLocTimeStepsTrain(AnyOf(s))
    BY AnyFacts DEF Gathered
  <2> QED BY <2>1 DEF Adds
<1>3. Gathered \in [Ranks -> Int]
  BY GroupAssumption DEF Gathered, nLocTimeStepsTrain, DataTyped
<1> HIDE DEF Def
<1>5. Adds(CHOOSE iter : Def(iter), Gathered, Ranks)
  BY <1>2, <1>3, RanksFinite, AddsExists
<1>6. SumOf(Gathered, Ranks) = (CHOOSE iter : Def(iter))[Ranks]
  BY <1>3, <1>5, RanksFinite, SumIs
<1> QED BY <1>1, <1>3, <1>6

LEMMA CancelFactor ==
  ASSUME NEW a \in Int, NEW b \in Int, NEW n \in Nat \ {0}, a * n <= b * n
  PROVE  a <= b
<1> SUFFICES ASSUME b + 1 <= a PROVE FALSE
  OBVIOUS
<1>1. (b + 1) * n <= a * n /\ (b + 1) * n = b * n + n /\ b * n \in Int /\ a * n \in Int
  OBVIOUS
<1> QED BY <1>1

\* Each rank's share of the observations that the first n steps ask for.
LEMMA SharesBacked ==
  ASSUME SameSteps, StepInv, RatioInv, NEW q \in Ranks, nGradSteps[q] > DoneSteps[q],
         NEW r \in Ranks
  PROVE  Required(r, nGradSteps[q] - 1) <= Available(r)
<1> DEFINE g == DoneSteps[r] + gradRounds[r] - 1
           n == nGradSteps[q] - 1
<1>1. /\ DoneSteps[q] \in Nat /\ DoneSteps[r] = DoneSteps[q] /\ nGradSteps[q] \in Nat
      /\ gradRounds[r] \in Nat /\ nGradSteps[q] - DoneSteps[q] <= gradRounds[r]
  BY GroupAssumption DEF SameSteps, StepInv, StepTyped, taken
<1>2. gradRounds[r] > 0 /\ g \in Nat /\ n \in Nat /\ n <= g
  BY <1>1
<1>3. Required(r, g) <= Available(r)
  BY <1>2 DEF RatioInv, ShareBacked
<1>4. ObsNum \in Nat /\ Owned[r] \in Nat
  BY GroupAssumption DEF RatioInv, DataTyped
<1>5. Available(r) \in Int
  <2>1. nLocTimeStepsTrain(r) \in Int /\ ObsDen \in Int /\ nEnvironments \in Int
    BY GroupAssumption DEF nLocTimeStepsTrain, RatioInv, DataTyped
  <2> QED BY <2>1, Products DEF Available
<1> HIDE DEF g, n
<1>6. Required(r, n) <= Required(r, g) /\ Required(r, n) \in Int /\ Required(r, g) \in Int
  <2> DEFINE c == ObsNum * Owned[r]
  <2>1. c \in Nat /\ Required(r, n) = n * c /\ Required(r, g) = g * c
    <3>1. \A u, v, w \in Nat : u * v * w = u * (v * w) /\ v * w \in Nat
      OBVIOUS
    <3> QED BY <1>2, <1>4, <3>1 DEF Required
  <2> HIDE DEF c
  <2>2. (g - n) * c >= 0 /\ (g - n) * c = g * c - n * c /\ g * c \in Int /\ n * c \in Int
    BY <1>2, <2>1
  <2> QED BY <2>1, <2>2
<1>7. Required(r, n) <= Available(r)
  BY <1>3, <1>5, <1>6
<1> QED BY <1>7 DEF n

\* obsPerStep is kept over all ranks, for any number of them, any assignment of
\* environments to ranks and any interleaving.  The restarted count of steps must be
\* the same everywhere: a rank restarted behind the others could take steps that their
\* data do not back.
THEOREM GlobalRatioHolds == SameSteps => (Spec => []GlobalRatio)
<1> SUFFICES ASSUME SameSteps PROVE Spec => []GlobalRatio
  OBVIOUS
<1>1. ASSUME StepInv, RatioInv, SameSteps PROVE GlobalRatio
  <2> SUFFICES ASSUME NEW q \in Ranks, nGradSteps[q] > DoneSteps[q]
               PROVE  (nGradSteps[q] - 1) * ObsNum
                        <= MapThenSumSet(nLocTimeStepsTrain, Ranks) * ObsDen
    BY DEF GlobalRatio
  <2> DEFINE n == nGradSteps[q] - 1
             c == n * ObsNum
             d == ObsDen * nEnvironments
             asked == [r \in Ranks |-> Required(r, n)]
             there == [r \in Ranks |-> Available(r)]
  <2>1. DataTyped /\ StepTyped /\ DoneSteps \in [Ranks -> Nat]
    BY <1>1, GroupAssumption DEF RatioInv, StepInv
  <2>2. n \in Nat /\ ObsNum \in Nat /\ ObsDen \in Nat \ {0} /\ nEnvironments \in Nat \ {0}
    BY <2>1, GroupAssumption DEF StepTyped, DataTyped
  <2>3. \A r \in Ranks : asked[r] <= there[r]
    BY <1>1, SharesBacked
  <2> HIDE DEF n
  <2>4. c \in Int /\ d \in Int
    BY <2>2
  <2>5. \A r \in Ranks : Owned[r] \in Int /\ Gathered[r] = nLocTimeStepsTrain(r) /\ Gathered[r] \in Int
    <3>1. Gathered \in [Ranks -> Int] /\ Owned \in [Ranks -> Nat]
      BY <2>1, GatheredIsSum DEF DataTyped
    <3> QED BY <3>1 DEF Gathered
  <2>6. \A r \in Ranks : asked[r] = c * Owned[r] /\ asked[r] \in Int
    BY <2>2, <2>4, <2>5 DEF Required
  <2>7. \A r \in Ranks : there[r] = d * Gathered[r] /\ there[r] \in Int
    <3>1. \A u, v, w \in Int : u * v * w = (v * w) * u /\ (v * w) * u \in Int
      OBVIOUS
    <3>2. \A r \in Ranks : there[r] = Gathered[r] * ObsDen * nEnvironments
      BY <2>5 DEF Available
    <3> HIDE DEF there
    <3>3. ObsDen \in Int /\ nEnvironments \in Int
      BY <2>2
    <3> QED BY <2>5, <3>1, <3>2, <3>3
  <2>8. asked \in [Ranks -> Int] /\ there \in [Ranks -> Int]
    BY <2>6, <2>7
  <2>9. Gathered \in [Ranks -> Int] /\ Owned \in [Ranks -> Int]
    BY <2>1, GatheredIsSum DEF DataTyped
  <2> HIDE DEF asked, there, c, d
  <2>10. SumOf(asked, Ranks) <= SumOf(there, Ranks)
    BY <2>3, <2>8, RanksFinite, SumMono
  <2>11. SumOf(asked, Ranks) = c * nEnvironments
    <3>1. SumOf(asked, Ranks) = c * SumOf(Owned, Ranks)
      <4>1. \A r \in Ranks : asked[r] = c * Owned[r]
        BY <2>6
      <4> QED BY <2>4, <2>8, <2>9, <4>1, RanksFinite, SumScale, Zenon
    <3> QED BY <2>1, <3>1 DEF DataTyped
  <2>12. SumOf(there, Ranks) = d * SumOf(Gathered, Ranks)
    <3>1. \A r \in Ranks : there[r] = d * Gathered[r]
      BY <2>7
    <3> QED BY <2>4, <2>8, <2>9, <3>1, RanksFinite, SumScale, Zenon
  <2> DEFINE t == SumOf(Gathered, Ranks)
  <2>13. t \in Int
    BY <2>9, RanksFinite, SumType
  <2> HIDE DEF t
  <2>14. d * t = (t * ObsDen) * nEnvironments /\ t * ObsDen \in Int
    BY <2>2, <2>13 DEF d
  <2>15. c <= t * ObsDen
    BY <2>2, <2>4, <2>10, <2>11, <2>12, <2>14, CancelFactor DEF t
  <2> QED BY <2>1, <2>15, GatheredIsSum DEF c, n, t
<1>2. SameSteps /\ StepInv /\ RatioInv => GlobalRatio
  BY <1>1
<1> QED BY <1>2, InitStepInv, InitRatioInv, NextStepInv, NextRatioInv, PTL DEF Spec

------------------------------------------------------------------------------
(* The episodes that are dealt out.                                          *)

\* Of the episodes that were counted, those that wait at their rank and those that were
\* dealt to one.
Waiting == [d \in Ranks |-> episodes[d] + IF cpc[d] = "pass" THEN 1 ELSE 0]
Dealt   == [d \in Ranks |-> DealtTo(d)]
Counted == [d \in Ranks |-> nSeen[d] + uncounted[d]]

\* The rank that gets the next episode of rank o.
NextOf(o) == IF Sharing THEN sharingDest[o] ELSE o

PlacesTyped ==
  Waiting \in [Ranks -> Nat] /\ Dealt \in [Ranks -> Nat] /\ Counted \in [Ranks -> Nat]

LEMMA DataPlaces == DataTyped => PlacesTyped
<1> SUFFICES ASSUME DataTyped PROVE PlacesTyped
  OBVIOUS
<1>1. \A d \in Ranks : /\ episodes[d] \in Nat /\ nStored[d] \in Nat /\ mail[d] \in Nat
                       /\ nSeen[d] \in Nat /\ uncounted[d] \in Nat
  BY DEF DataTyped
<1>2. Waiting \in [Ranks -> Nat]
  BY <1>1 DEF Waiting
<1>3. Dealt \in [Ranks -> Nat]
  BY <1>1 DEF Dealt, DealtTo
<1>4. Counted \in [Ranks -> Nat]
  BY <1>1 DEF Counted
<1> QED BY <1>2, <1>3, <1>4 DEF PlacesTyped

\* What is at the ranks, with n more at rank x.
Plus(f, x, n) == [y \in Ranks |-> IF y = x THEN f[y] + n ELSE f[y]]

\* What a step does to an episode: nothing, rank r counts it and has it, or rank r
\* passes one on.
Stays  == UNCHANGED <<Waiting, Dealt, Counted, sharingDest>>
Enters(r) ==
  /\ Counted' = Plus(Counted, r, 1) /\ sharingDest' = sharingDest
  /\ \/ Waiting' = Plus(Waiting, r, 1) /\ Dealt' = Dealt
     \/ ~Sharing /\ Dealt' = Plus(Dealt, r, 1) /\ Waiting' = Waiting
Passes(r) ==
  /\ Owned[r] # 0 /\ NextOf(r) \in Ranks
  /\ Waiting' = Plus(Waiting, r, -1)
  /\ Dealt' = Plus(Dealt, NextOf(r), 1)
  /\ Counted' = Counted
  /\ sharingDest' = IF Sharing THEN [sharingDest EXCEPT ![r] = (@ + 1) % nLearners]
                               ELSE sharingDest

LEMMA StaysSame ==
  ASSUME UNCHANGED <<nSeen, uncounted, nStored, mail, episodes, sharingDest>>,
         \A d \in Ranks : (cpc'[d] = "pass" <=> cpc[d] = "pass") /\ (cpc'[d] = "store" <=> cpc[d] = "store")
  PROVE  Stays
<1>1. Waiting' = Waiting
  BY DEF Waiting
<1>2. Dealt' = Dealt
  BY DEF Dealt, DealtTo
<1>3. Counted' = Counted
  BY DEF Counted
<1> QED BY <1>1, <1>2, <1>3 DEF Stays

LEMMA ThreadPlaces ==
  ASSUME DataTyped, NEW r \in Ranks, ThreadStep(r)
  PROVE  Stays \/ Enters(r)
<1>t. /\ nSeen \in [Ranks -> Nat] /\ uncounted \in [Ranks -> Nat] /\ nStored \in [Ranks -> Nat]
      /\ mail \in [Ranks -> Nat] /\ episodes \in [Ranks -> Nat]
  BY DEF DataTyped
<1>1. CASE Gather(r)
  BY <1>1, StaysSame DEF Gather, sharingVars
<1>2. CASE addComplete(r)
  <2>1. /\ uncounted' = [uncounted EXCEPT ![r] = uncounted[r] + 1]
        /\ UNCHANGED <<nSeen, cpc, sharingDest, mail>>
        /\ \/ episodes' = [episodes EXCEPT ![r] = episodes[r] + 1] /\ nStored' = nStored
           \/ ~Sharing /\ nStored' = [nStored EXCEPT ![r] = nStored[r] + 1] /\ episodes' = episodes
    BY <1>2 DEF addComplete
  <2>2. Counted' = Plus(Counted, r, 1)
    BY <1>t, <2>1 DEF Counted, Plus
  <2>3. CASE episodes' = [episodes EXCEPT ![r] = episodes[r] + 1] /\ nStored' = nStored
    <3>1. Waiting' = Plus(Waiting, r, 1)
      BY <1>t, <2>1, <2>3 DEF Waiting, Plus
    <3>2. Dealt' = Dealt
      BY <2>1, <2>3 DEF Dealt, DealtTo
    <3> QED BY <2>1, <2>2, <3>1, <3>2 DEF Enters
  <2>4. CASE ~Sharing /\ nStored' = [nStored EXCEPT ![r] = nStored[r] + 1] /\ episodes' = episodes
    <3>1. Dealt' = Plus(Dealt, r, 1)
      <4>1. \A d \in Ranks : DealtTo(d)' = IF d = r THEN DealtTo(d) + 1 ELSE DealtTo(d)
        BY <1>t, <2>1, <2>4 DEF DealtTo
      <4> QED BY <4>1 DEF Dealt, Plus
    <3>2. Waiting' = Waiting
      BY <2>1, <2>4 DEF Waiting
    <3> QED BY <2>1, <2>2, <2>4, <3>1, <3>2 DEF Enters
  <2> QED BY <2>1, <2>3, <2>4
<1>3. CASE increaseLocalSeenSteps(r)
  <2>1. /\ uncounted' = [uncounted EXCEPT ![r] = uncounted[r] - 1]
        /\ nSeen' = [nSeen EXCEPT ![r] = nSeen[r] + 1]
        /\ UNCHANGED <<nStored, cpc, episodes, sharingDest, mail>>
    BY <1>3 DEF increaseLocalSeenSteps, sharingVars
  <2>2. Counted' = Counted
    BY <1>t, <2>1 DEF Counted
  <2>3. Waiting' = Waiting /\ Dealt' = Dealt
    BY <2>1 DEF Waiting, Dealt, DealtTo
  <2> QED BY <2>1, <2>2, <2>3 DEF Stays
<1> QED BY <1>1, <1>2, <1>3 DEF ThreadStep

\* One episode less at the rank, one more at the rank whose turn it is.
LEMMA PassOnPlaces ==
  ASSUME DataTyped, NEW r \in Ranks, PassOn(r), Owned[r] # 0, UNCHANGED <<nSeen, uncounted>>,
         Waiting' = Plus(Waiting, r, -1),
         \A d \in Ranks : cpc'[d] = "store" <=> cpc[d] = "store"
  PROVE  Passes(r)
<1> DEFINE p == NextOf(r)
<1>1. p \in Ranks
  BY DEF NextOf, DataTyped
<1>2. \/ nStored' = [nStored EXCEPT ![p] = nStored[p] + 1] /\ mail' = mail
      \/ mail' = [mail EXCEPT ![p] = mail[p] + 1] /\ nStored' = nStored
  BY DEF PassOn, NextOf
<1>3. sharingDest' = IF Sharing THEN [sharingDest EXCEPT ![r] = (@ + 1) % nLearners] ELSE sharingDest
  BY DEF PassOn
<1>4. nStored \in [Ranks -> Nat] /\ mail \in [Ranks -> Nat]
  BY DEF DataTyped
<1> HIDE DEF p
<1>5. Dealt' = Plus(Dealt, p, 1)
  <2>1. CASE nStored' = [nStored EXCEPT ![p] = nStored[p] + 1] /\ mail' = mail
    <3>1. \A d \in Ranks : DealtTo(d)' = IF d = p THEN DealtTo(d) + 1 ELSE DealtTo(d)
      BY <1>1, <1>4, <2>1 DEF DealtTo
    <3> QED BY <3>1 DEF Dealt, Plus
  <2>2. CASE mail' = [mail EXCEPT ![p] = mail[p] + 1] /\ nStored' = nStored
    <3>1. \A d \in Ranks : DealtTo(d)' = IF d = p THEN DealtTo(d) + 1 ELSE DealtTo(d)
      BY <1>1, <1>4, <2>2 DEF DealtTo
    <3> QED BY <3>1 DEF Dealt, Plus
  <2> QED BY <1>2, <2>1, <2>2
<1>6. Counted' = Counted
  BY DEF Counted
<1> QED BY <1>1, <1>3, <1>5, <1>6 DEF Passes, p

LEMMA CoordinatorPlaces ==
  ASSUME DataTyped, NEW r \in Ranks, CoordinatorStep(r)
  PROVE  Stays \/ Enters(r) \/ Passes(r)
<1>t. /\ nSeen \in [Ranks -> Nat] /\ uncounted \in [Ranks -> Nat] /\ nStored \in [Ranks -> Nat]
      /\ mail \in [Ranks -> Nat] /\ episodes \in [Ranks -> Nat] /\ cpc \in [Ranks -> CPCs]
  BY DEF DataTyped
<1>0. ASSUME NEW from \in CPCs \ {"pass", "store"}, NEW to \in CPCs \ {"pass", "store"}, Proceeds(r, from, to),
             UNCHANGED <<nSeen, uncounted, nStored, mail, episodes, sharingDest>>
      PROVE  Stays
  <2>1. \A d \in Ranks : (cpc'[d] = "pass" <=> cpc[d] = "pass") /\ (cpc'[d] = "store" <=> cpc[d] = "store")
    BY <1>t, <1>0 DEF Proceeds
  <2> QED BY <1>0, <2>1, StaysSame
<1>1. CASE lockQueue(r)
  <2>1. PICK to \in CPCs \ {"pass", "store"} : Proceeds(r, "begin", to)
    BY <1>1 DEF lockQueue, AfterList, CPCs
  <2> QED BY <1>0, <1>1, <2>1 DEF lockQueue, dataVars, CPCs
<1>2. CASE distributePendingEpisodes(r)
  <2>1. /\ cpc[r] = "distribute" /\ episodes' = [episodes EXCEPT ![r] = episodes[r] - 1]
        /\ cpc' = [cpc EXCEPT ![r] = IF episodes[r] > 1 THEN "distribute" ELSE AfterList(r)]
        /\ UNCHANGED <<nSeen, uncounted>> /\ PassOn(r)
    BY <1>2 DEF distributePendingEpisodes, Proceeds
  <2>2. Owned[r] # 0
    BY <2>1 DEF DataTyped, CoordinatorOf
  <2>3. \A d \in Ranks : (cpc'[d] = "pass" <=> cpc[d] = "pass") /\ (cpc'[d] = "store" <=> cpc[d] = "store")
    BY <1>t, <2>1 DEF AfterList
  <2>4. Waiting' = Plus(Waiting, r, -1)
    BY <1>t, <2>1, <2>3 DEF Waiting, Plus
  <2> QED BY <2>1, <2>2, <2>3, <2>4, PassOnPlaces
<1>3. ASSUME NEW found \in BOOLEAN, mastersRecvEpisodes(r, found) PROVE Stays
  <2>1. CASE found
    <3>1. /\ cpc[r] = "receive" /\ cpc' = [cpc EXCEPT ![r] = "store"]
          /\ mail' = [mail EXCEPT ![r] = mail[r] - 1]
          /\ UNCHANGED <<nSeen, uncounted, nStored, episodes, sharingDest>>
      BY <1>3, <2>1 DEF mastersRecvEpisodes, Proceeds, dataVars
    <3>2. Dealt' = Dealt
      <4>1. \A d \in Ranks : DealtTo(d)' = DealtTo(d)
        BY <1>t, <3>1 DEF DealtTo
      <4> QED BY <4>1 DEF Dealt
    <3>3. \A d \in Ranks : cpc'[d] = "pass" <=> cpc[d] = "pass"
      BY <1>t, <3>1
    <3>4. Waiting' = Waiting
      BY <3>1, <3>3 DEF Waiting
    <3>5. Counted' = Counted
      BY <3>1 DEF Counted
    <3> QED BY <3>1, <3>2, <3>4, <3>5 DEF Stays
  <2>2. CASE ~found
    <3>1. Proceeds(r, "receive", AfterMasters(r)) /\ AfterMasters(r) \in CPCs \ {"pass", "store"}
          /\ UNCHANGED <<nSeen, uncounted, nStored, mail, episodes, sharingDest>>
      BY <1>3, <2>2 DEF mastersRecvEpisodes, AfterMasters, CPCs, dataVars
    <3> QED BY <1>0, <3>1 DEF CPCs
  <2> QED BY <2>1, <2>2
<1>4. CASE storeReceived(r)
  <2>1. /\ cpc[r] = "store" /\ cpc' = [cpc EXCEPT ![r] = AfterMasters(r)]
        /\ AfterMasters(r) \in {"workers", "begin"}
        /\ nStored' = [nStored EXCEPT ![r] = nStored[r] + 1]
        /\ UNCHANGED <<nSeen, uncounted, mail, episodes, sharingDest>>
    BY <1>4 DEF storeReceived, Proceeds, AfterMasters
  <2>2. Dealt' = Dealt
    <3>1. \A d \in Ranks : DealtTo(d)' = DealtTo(d)
      BY <1>t, <2>1 DEF DealtTo
    <3> QED BY <3>1 DEF Dealt
  <2>3. \A d \in Ranks : cpc'[d] = "pass" <=> cpc[d] = "pass"
    BY <1>t, <2>1
  <2>4. Waiting' = Waiting
    BY <2>1, <2>3 DEF Waiting
  <2>5. Counted' = Counted
    BY <2>1 DEF Counted
  <2> QED BY <2>1, <2>2, <2>4, <2>5 DEF Stays
<1>5. CASE dataAcquisitionIsLocked(r)
  <2>1. PICK to \in CPCs \ {"pass", "store"} : Proceeds(r, "workers", to)
    BY <1>5 DEF dataAcquisitionIsLocked, CPCs
  <2> QED BY <1>0, <1>5, <2>1 DEF dataAcquisitionIsLocked, dataVars, CPCs
<1>6. ASSUME NEW found \in BOOLEAN, recvWorkersEpisode(r, found) PROVE Stays
  <2>1. PICK to \in CPCs \ {"pass", "store"} : Proceeds(r, "probe", to)
    BY <1>6 DEF recvWorkersEpisode, CPCs
  <2> QED BY <1>0, <1>6, <2>1 DEF recvWorkersEpisode, dataVars, CPCs
<1>7. CASE countWorkersEpisode(r)
  <2>1. /\ cpc[r] = "count" /\ cpc' = [cpc EXCEPT ![r] = "pass"]
        /\ nSeen' = [nSeen EXCEPT ![r] = nSeen[r] + 1]
        /\ UNCHANGED <<uncounted, nStored, mail, episodes, sharingDest>>
    BY <1>7 DEF countWorkersEpisode, Proceeds
  <2>2. Counted' = Plus(Counted, r, 1)
    BY <1>t, <2>1 DEF Counted, Plus
  <2>3. \A d \in Ranks : cpc'[d] = "store" <=> cpc[d] = "store"
    BY <1>t, <2>1
  <2>4. Dealt' = Dealt
    BY <2>1, <2>3 DEF Dealt, DealtTo
  <2>5. Waiting' = Plus(Waiting, r, 1)
    BY <1>t, <2>1 DEF Waiting, Plus
  <2> QED BY <2>1, <2>2, <2>4, <2>5 DEF Enters
<1>8. CASE shareWorkersEpisode(r)
  <2>1. /\ cpc[r] = "pass" /\ cpc' = [cpc EXCEPT ![r] = "answer"]
        /\ UNCHANGED <<nSeen, uncounted, episodes>> /\ PassOn(r)
    BY <1>8 DEF shareWorkersEpisode, Proceeds
  <2>2. Owned[r] # 0
    BY <2>1 DEF DataTyped, CoordinatorOf
  <2>3. \A d \in Ranks : cpc'[d] = "store" <=> cpc[d] = "store"
    BY <1>t, <2>1
  <2>4. Waiting' = Plus(Waiting, r, -1)
    BY <1>t, <2>1 DEF Waiting, Plus
  <2> QED BY <2>1, <2>2, <2>3, <2>4, PassOnPlaces
<1>9. CASE sendParams(r)
  <2>1. "answer" \in CPCs \ {"pass", "store"} /\ "begin" \in CPCs \ {"pass", "store"}
    BY DEF CPCs
  <2> QED BY <1>0, <1>9, <2>1 DEF sendParams, dataVars
<1> QED BY <1>1, <1>2, <1>3, <1>4, <1>5, <1>6, <1>7, <1>8, <1>9 DEF CoordinatorStep

LEMMA NextPlaces ==
  ASSUME DataTyped, [Next]_vars
  PROVE  UNCHANGED setup /\ (Stays \/ \E o \in Ranks : Enters(o) \/ Passes(o))
<1>0. ASSUME UNCHANGED <<nSeen, uncounted, nStored, mail, episodes, sharingDest, cpc>> PROVE Stays
  BY <1>0, StaysSame
<1>1. ASSUME NEW r \in Ranks, DataStep(r)
      PROVE  UNCHANGED setup /\ (Stays \/ Enters(r) \/ Passes(r))
  <2>1. CASE \E dest \in Ranks : sendCompletes(r, dest)
    BY <1>0, <2>1 DEF sendCompletes, dataVars
  <2> QED BY <1>1, <2>1, DataStepQuiet, ThreadPlaces, CoordinatorPlaces DEF DataStep
<1>2. ASSUME NEW r \in Ranks, MainStep(r) PROVE UNCHANGED setup /\ Stays
  BY <1>0, <1>2, MainStepQuiet DEF dataVars, sharingVars
<1>3. CASE UNCHANGED vars
  BY <1>0, <1>3 DEF vars, dataVars, sharingVars
<1> QED BY <1>1, <1>2, <1>3, NextSteps

LEMMA SumPlus ==
  ASSUME NEW f \in [Ranks -> Int], NEW x \in Ranks, NEW n \in Int
  PROVE  SumOf(Plus(f, x, n), Ranks) = SumOf(f, Ranks) + n
<1> DEFINE g == Plus(f, x, n)
<1>1. g \in [Ranks -> Int] /\ g[x] = f[x] + n /\ \A y \in Ranks \ {x} : g[y] = f[y]
  BY DEF Plus
<1> HIDE DEF g
<1>2. SumOf(g, Ranks) = SumOf(f, Ranks) - f[x] + g[x]
  <2> DEFINE S == Ranks
  <2>1. /\ IsFiniteSet(S) /\ f \in [S -> Int] /\ g \in [S -> Int]
        /\ x \in S /\ \A y \in S \ {x} : g[y] = f[y]
    BY <1>1, RanksFinite
  <2> HIDE DEF S
  <2>2. SumOf(g, S) = SumOf(f, S) - f[x] + g[x]
    BY ONLY <2>1, SumChange
  <2> QED BY <2>2 DEF S
<1>3. SumOf(f, Ranks) \in Int /\ f[x] \in Int
  BY RanksFinite, SumType
<1>4. SumOf(g, Ranks) = SumOf(f, Ranks) + n
  BY <1>1, <1>2, <1>3
<1> QED BY <1>4 DEF g

NoneLost ==
  DataTyped /\ SumOf(Waiting, Ranks) + SumOf(Dealt, Ranks) = SumOf(Counted, Ranks)

LEMMA InitNoneLost == Init => NoneLost
<1> SUFFICES ASSUME Init PROVE NoneLost
  OBVIOUS
<1>1. DataTyped /\ PlacesTyped
  BY InitDataTyped, DataPlaces
<1>2. nStored = nSeen /\ \A r \in Ranks : mail[r] = 0 /\ uncounted[r] = 0 /\ episodes[r] = 0 /\ cpc[r] = "begin"
  BY DEF Init
<1>3. Dealt = Counted
  <2>1. \A d \in Ranks : DealtTo(d) = nSeen[d] /\ nSeen[d] + uncounted[d] = nSeen[d]
    BY <1>1, <1>2 DEF DataTyped, DealtTo
  <2> QED BY <2>1 DEF Dealt, Counted
<1>4. SumOf(Waiting, Ranks) = 0
  <2> DEFINE w == Waiting
  <2>1. w \in [Ranks -> Int] /\ (\A d \in Ranks : w[d] = 0) /\ 0 \in Int
    BY <1>1, <1>2 DEF PlacesTyped, Waiting
  <2> HIDE DEF w
  <2>2. SumOf(w, Ranks) = Cardinality(Ranks) * 0
    BY <2>1, RanksFinite, SumConstant
  <2>3. Cardinality(Ranks) \in Nat
    BY RanksFinite, FS_CardinalityType
  <2> QED BY <2>2, <2>3 DEF w
<1>5. SumOf(Counted, Ranks) \in Int
  <2>1. Counted \in [Ranks -> Int]
    BY <1>1 DEF PlacesTyped
  <2> QED BY <2>1, RanksFinite, SumType
<1> QED BY <1>1, <1>3, <1>4, <1>5 DEF NoneLost

LEMMA NextNoneLost == NoneLost /\ [Next]_vars => NoneLost'
<1> SUFFICES ASSUME NoneLost, [Next]_vars PROVE NoneLost'
  OBVIOUS
<1>1. DataTyped /\ DataTyped' /\ PlacesTyped /\ PlacesTyped'
  <2>1. DataTyped /\ DataTyped'
    BY NextDataTyped DEF NoneLost
  <2>2. PlacesTyped
    BY <2>1, DataPlaces
  <2>3. PlacesTyped'
    BY <2>1, DataPlaces, PTL
  <2> QED BY <2>1, <2>2, <2>3
<1> DEFINE w == Waiting
           d == Dealt
           c == Counted
           ww == Waiting'
           dd == Dealt'
           cc == Counted'
<1>2. /\ w \in [Ranks -> Int] /\ d \in [Ranks -> Int] /\ c \in [Ranks -> Int]
      /\ ww \in [Ranks -> Int] /\ dd \in [Ranks -> Int] /\ cc \in [Ranks -> Int]
  BY <1>1 DEF PlacesTyped
<1>3. SumOf(w, Ranks) + SumOf(d, Ranks) = SumOf(c, Ranks)
  BY DEF NoneLost
<1>4. NoneLost' <=> SumOf(ww, Ranks) + SumOf(dd, Ranks) = SumOf(cc, Ranks)
  BY <1>1 DEF NoneLost
<1>5. \/ ww = w /\ dd = d /\ cc = c
      \/ \E o \in Ranks : /\ cc = Plus(c, o, 1)
                          /\ \/ ww = Plus(w, o, 1) /\ dd = d
                             \/ dd = Plus(d, o, 1) /\ ww = w
      \/ \E o, p \in Ranks : ww = Plus(w, o, -1) /\ dd = Plus(d, p, 1) /\ cc = c
  <2>1. Stays \/ \E o \in Ranks : Enters(o) \/ Passes(o)
    BY <1>1, NextPlaces
  <2> QED BY <2>1 DEF Stays, Enters, Passes
<1> HIDE DEF w, d, c, ww, dd, cc
<1>6. SumOf(w, Ranks) \in Int /\ SumOf(d, Ranks) \in Int /\ SumOf(c, Ranks) \in Int
  BY <1>2, RanksFinite, SumType
<1>7. ASSUME NEW o \in Ranks, NEW f \in [Ranks -> Int]
      PROVE  SumOf(Plus(f, o, 1), Ranks) = SumOf(f, Ranks) + 1
             /\ SumOf(Plus(f, o, -1), Ranks) = SumOf(f, Ranks) - 1
  <2>1. 1 \in Int /\ -1 \in Int
    OBVIOUS
  <2>2. SumOf(Plus(f, o, 1), Ranks) = SumOf(f, Ranks) + 1
    BY <2>1, SumPlus
  <2>3. SumOf(Plus(f, o, -1), Ranks) = SumOf(f, Ranks) + -1 /\ SumOf(f, Ranks) \in Int
    BY <2>1, SumPlus, SumType, RanksFinite
  <2> QED BY <2>2, <2>3
<1>9. SumOf(ww, Ranks) + SumOf(dd, Ranks) = SumOf(cc, Ranks)
  <2>1. CASE ww = w /\ dd = d /\ cc = c
    BY <1>3, <2>1
  <2>2. ASSUME NEW o \in Ranks, cc = Plus(c, o, 1), ww = Plus(w, o, 1), dd = d
        PROVE  SumOf(ww, Ranks) + SumOf(dd, Ranks) = SumOf(cc, Ranks)
    BY <1>2, <1>3, <1>6, <1>7, <2>2
  <2>3. ASSUME NEW o \in Ranks, cc = Plus(c, o, 1), dd = Plus(d, o, 1), ww = w
        PROVE  SumOf(ww, Ranks) + SumOf(dd, Ranks) = SumOf(cc, Ranks)
    BY <1>2, <1>3, <1>6, <1>7, <2>3
  <2>4. ASSUME NEW o \in Ranks, NEW q \in Ranks, ww = Plus(w, o, -1), dd = Plus(d, q, 1), cc = c
        PROVE  SumOf(ww, Ranks) + SumOf(dd, Ranks) = SumOf(cc, Ranks)
    BY <1>2, <1>3, <1>6, <1>7, <2>4
  <2> QED BY <1>5, <2>1, <2>2, <2>3, <2>4
<1> QED BY <1>4, <1>9

\* The sums of EpisodesDealt are those of NoneLost.
LEMMA InHandIsSum ==
  ASSUME DataTyped
  PROVE  MapThenSumSet(InHand, Ranks) = SumOf(Waiting, Ranks) + SumOf(Dealt, Ranks)
<1> DEFINE h == [d \in Ranks |-> InHand(d)]
           Def(iter) == iter = [s \in SUBSET Ranks |-> IF s = {} THEN 0
               ELSE InHand(AnyOf(s)) + iter[s \ {AnyOf(s)}]]
<1>0. PlacesTyped
  BY DataPlaces
<1>1. MapThenSumSet(InHand, Ranks) = (CHOOSE iter : Def(iter))[Ranks]
  BY DEF MapThenSumSet, MapThenFoldSet, AnyOf
<1>2. ASSUME NEW iter PROVE Def(iter) <=> Adds(iter, h, Ranks)
  <2>1. \A s \in SUBSET Ranks : s # {} => h[AnyOf(s)] = InHand(AnyOf(s))
    BY AnyFacts
  <2> QED BY <2>1 DEF Adds
<1>3. \A d \in Ranks : InHand(d) = Waiting[d] + Dealt[d]
  <2> SUFFICES ASSUME NEW d \in Ranks PROVE InHand(d) = Waiting[d] + Dealt[d]
    OBVIOUS
  <2>1. InHand(d) = (episodes[d] + (IF cpc[d] = "pass" THEN 1 ELSE 0)) + DealtTo(d)
    BY DEF InHand
  <2> QED BY <2>1 DEF Waiting, Dealt
<1>4. h \in [Ranks -> Int] /\ \A d \in Ranks : h[d] = Waiting[d] + Dealt[d]
  BY <1>0, <1>3 DEF PlacesTyped
<1> HIDE DEF Def, h
<1>5. Adds(CHOOSE iter : Def(iter), h, Ranks)
  BY <1>2, <1>4, RanksFinite, AddsExists
<1>6. SumOf(h, Ranks) = (CHOOSE iter : Def(iter))[Ranks]
  BY <1>4, <1>5, RanksFinite, SumIs
<1>7. Waiting \in [Ranks -> Int] /\ Dealt \in [Ranks -> Int]
  BY <1>0 DEF PlacesTyped
<1>8. SumOf(h, Ranks) = SumOf(Waiting, Ranks) + SumOf(Dealt, Ranks)
  <2> DEFINE w == Waiting
             d == Dealt
  <2>1. w \in [Ranks -> Int] /\ d \in [Ranks -> Int] /\ \A x \in Ranks : h[x] = w[x] + d[x]
    BY <1>4, <1>7
  <2> HIDE DEF w, d
  <2> DEFINE S == Ranks
  <2>2. /\ IsFiniteSet(S) /\ h \in [S -> Int] /\ w \in [S -> Int] /\ d \in [S -> Int]
        /\ \A x \in S : h[x] = w[x] + d[x]
    BY <1>4, <2>1, RanksFinite
  <2> HIDE DEF S
  <2>3. SumOf(h, S) = SumOf(w, S) + SumOf(d, S)
    BY ONLY <2>2, SumAdd
  <2> QED BY <2>3 DEF w, d, S
<1> QED BY <1>1, <1>6, <1>8

LEMMA CountedIsSum ==
  ASSUME DataTyped
  PROVE  MapThenSumSet(LAMBDA r : nSeen[r] + uncounted[r], Ranks) = SumOf(Counted, Ranks)
<1> DEFINE Def(iter) == iter = [s \in SUBSET Ranks |-> IF s = {} THEN 0
               ELSE (nSeen[AnyOf(s)] + uncounted[AnyOf(s)]) + iter[s \ {AnyOf(s)}]]
<1>1. MapThenSumSet(LAMBDA r : nSeen[r] + uncounted[r], Ranks) = (CHOOSE iter : Def(iter))[Ranks]
  BY DEF MapThenSumSet, MapThenFoldSet, AnyOf
<1>2. ASSUME NEW iter PROVE Def(iter) <=> Adds(iter, Counted, Ranks)
  <2>1. \A s \in SUBSET Ranks : s # {} => Counted[AnyOf(s)] = nSeen[AnyOf(s)] + uncounted[AnyOf(s)]
    BY AnyFacts DEF Counted
  <2> QED BY <2>1 DEF Adds
<1>3. Counted \in [Ranks -> Int]
  BY DataPlaces DEF PlacesTyped
<1> HIDE DEF Def
<1>5. Adds(CHOOSE iter : Def(iter), Counted, Ranks)
  BY <1>2, <1>3, RanksFinite, AddsExists
<1>6. SumOf(Counted, Ranks) = (CHOOSE iter : Def(iter))[Ranks]
  BY <1>3, <1>5, RanksFinite, SumIs
<1> QED BY <1>1, <1>6

------------------------------------------------------------------------------
(* Who gets the next episode.  From rank o, the ranks are dealt to in the    *)
(* order o, o + 1, ..., nLearners - 1, 0, ..., o - 1.                         *)

NoneRestarted == \A r \in Ranks : DoneSteps[r] = 0

Place(o, d) == IF d >= o THEN d - o ELSE d - o + nLearners
Before(o, d) == Place(o, d) < Place(o, sharingDest[o])

\* g[o][d]: episodes of rank o dealt to rank d.
Column(g, d) == [o \in Ranks |-> g[o][d]]
EvenRow(g, o) == \E m \in Nat : \A d \in Ranks : g[o][d] = IF Before(o, d) THEN m + 1 ELSE m
DealtOut(g) ==
  /\ \A d \in Ranks : Dealt[d] = SumOf(Column(g, d), Ranks)
  /\ \A o \in Ranks : EvenRow(g, o)
  /\ \A o \in Ranks : Owned[o] = 0 => \A d \in Ranks : g[o][d] = 0
Rounds == [Ranks -> [Ranks -> Nat]]
RoundsInv == DataTyped /\ (Sharing => \E g \in Rounds : DealtOut(g))

LEMMA RankNumbers ==
  nLearners \in Nat \ {0} /\ \A r \in Ranks : r \in Int /\ r >= 0 /\ r < nLearners
BY GroupAssumption DEF Ranks

LEMMA NextPlace ==
  ASSUME NEW p \in Ranks
  PROVE  (p + 1) % nLearners = IF p + 1 = nLearners THEN 0 ELSE p + 1
<1>1. \A n \in Nat \ {0}, m \in Nat : m <= n => m % n = IF m = n THEN 0 ELSE m
  <2> SUFFICES ASSUME NEW n \in Nat \ {0}, NEW m \in Nat, m <= n
               PROVE  m % n = IF m = n THEN 0 ELSE m
    OBVIOUS
  <2>1. CASE m = n
    BY <2>1
  <2>2. CASE m < n
    BY <2>2
  <2> QED BY <2>1, <2>2
<1>2. p + 1 \in Nat /\ p + 1 <= nLearners /\ nLearners \in Nat \ {0}
  BY RankNumbers
<1> QED BY <1>1, <1>2

\* The rank whose turn it was comes before the next, or the round is over.
LEMMA TurnPassed ==
  ASSUME NEW o \in Ranks, NEW p \in Ranks, NEW q, q = (p + 1) % nLearners
  PROVE  \/ /\ Place(o, q) = Place(o, p) + 1
            /\ \A d \in Ranks : Place(o, d) < Place(o, q) <=> (Place(o, d) < Place(o, p) \/ d = p)
         \/ /\ Place(o, q) = 0 /\ \A d \in Ranks : Place(o, d) >= 0
            /\ \A d \in Ranks : d # p => Place(o, d) < Place(o, p)
<1>1. q = IF p + 1 = nLearners THEN 0 ELSE p + 1
  BY NextPlace
<1>2. \A d \in Ranks : d \in Int /\ d >= 0 /\ d < nLearners
  BY RankNumbers
<1>3. o \in Int /\ p \in Int /\ nLearners \in Int /\ o >= 0 /\ p >= 0 /\ o < nLearners /\ p < nLearners
  BY RankNumbers
<1>4. CASE q = o
  <2>1. Place(o, q) = 0 /\ Place(o, p) = nLearners - 1
    BY <1>1, <1>3, <1>4 DEF Place
  <2>2. \A d \in Ranks : Place(o, d) >= 0 /\ (d # p => Place(o, d) < nLearners - 1)
    BY <1>1, <1>2, <1>3, <1>4 DEF Place
  <2> QED BY <2>1, <2>2
<1>5. CASE q # o
  <2>1. Place(o, q) = Place(o, p) + 1
    BY <1>1, <1>3, <1>5 DEF Place
  <2>2. \A d \in Ranks : Place(o, d) \in Int /\ (d # p => Place(o, d) # Place(o, p))
    BY <1>2, <1>3 DEF Place
  <2>3. Place(o, p) \in Int
    BY <2>2
  <2> QED BY <2>1, <2>2, <2>3
<1> QED BY <1>4, <1>5

LEMMA InitRoundsInv == NoneRestarted /\ Init => RoundsInv
<1> SUFFICES ASSUME NoneRestarted, Init PROVE RoundsInv
  OBVIOUS
<1>1. DataTyped
  BY InitDataTyped
<1> DEFINE g == [o \in Ranks |-> [d \in Ranks |-> 0]]
<1>2. g \in Rounds
  BY DEF Rounds
<1>3. ASSUME NEW d \in Ranks PROVE Dealt[d] = SumOf(Column(g, d), Ranks)
  <2>1. nStored[d] = 0 /\ mail[d] = 0 /\ cpc[d] = "begin"
    <3> DEFINE Quotient(r) == NObsB4Start + (DoneSteps[r] * ObsNum * Owned[r]) \div (ObsDen * nEnvironments)
    <3>1. nStored = [r \in Ranks |-> IF DoneSteps[r] = 0 THEN 0 ELSE Quotient(r)]
          /\ mail = [r \in Ranks |-> 0] /\ cpc = [r \in Ranks |-> "begin"]
      BY DEF Init
    <3> HIDE DEF Quotient
    <3> QED BY <3>1 DEF NoneRestarted
  <2>2. Dealt[d] = 0
    BY <2>1 DEF Dealt, DealtTo
  <2> DEFINE c == Column(g, d)
  <2>3. c \in [Ranks -> Int] /\ (\A o \in Ranks : c[o] = 0) /\ 0 \in Int
    BY DEF Column
  <2>4. Cardinality(Ranks) * 0 = 0
    BY RanksFinite, FS_CardinalityType
  <2> HIDE DEF c
  <2>5. SumOf(c, Ranks) = Cardinality(Ranks) * 0
    BY <2>3, RanksFinite, SumConstant
  <2> QED BY <2>2, <2>4, <2>5 DEF c
<1>4. ASSUME NEW o \in Ranks PROVE EvenRow(g, o)
  <2>1. sharingDest[o] = o
    BY DEF Init
  <2>2. \A d \in Ranks : ~Before(o, d)
    BY <2>1, RankNumbers DEF Before, Place
  <2>3. \A d \in Ranks : g[o][d] = 0
    OBVIOUS
  <2> HIDE DEF g
  <2> QED BY <2>2, <2>3 DEF EvenRow
<1>5. DealtOut(g)
  BY <1>3, <1>4 DEF DealtOut
<1> HIDE DEF g
<1> QED BY <1>1, <1>2, <1>5 DEF RoundsInv

LEMMA DealRoundsInv ==
  ASSUME RoundsInv, DataTyped', NEW o \in Ranks, Passes(o), UNCHANGED setup
  PROVE  RoundsInv'
<1>1. DataTyped /\ Owned[o] # 0
  BY DEF RoundsInv, Passes
<1>2. Sharing' <=> Sharing
  BY DEF Sharing, setup
<1> SUFFICES ASSUME Sharing PROVE \E g \in Rounds : DealtOut(g)'
  BY <1>2 DEF RoundsInv
<1>3. PICK g \in Rounds : DealtOut(g)
  BY DEF RoundsInv
<1> DEFINE p == sharingDest[o]
<1>4. /\ p \in Ranks /\ Dealt'[p] = Dealt[p] + 1 /\ \A d \in Ranks \ {p} : Dealt'[d] = Dealt[d]
      /\ sharingDest' = [sharingDest EXCEPT ![o] = (p + 1) % nLearners]
  <2>1. Dealt \in [Ranks -> Nat]
    BY <1>1, DataPlaces DEF PlacesTyped
  <2>2. NextOf(o) = p
    BY DEF NextOf
  <2> QED BY <2>1, <2>2 DEF Passes, Plus
<1>5. PICK h \in Rounds :
        \A a, d \in Ranks : h[a][d] = IF a = o /\ d = p THEN g[a][d] + 1 ELSE g[a][d]
  <2> DEFINE m == [a \in Ranks |-> [d \in Ranks |-> IF a = o /\ d = p THEN g[a][d] + 1 ELSE g[a][d]]]
  <2>1. \A a, d \in Ranks : g[a][d] \in Nat
    BY <1>3 DEF Rounds
  <2>2. m \in Rounds /\ \A a, d \in Ranks : m[a][d] = IF a = o /\ d = p THEN g[a][d] + 1 ELSE g[a][d]
    BY <2>1 DEF Rounds
  <2> QED BY <2>2
<1>6. Dealt \in [Ranks -> Nat] /\ \A d \in Ranks : Dealt[d] = SumOf(Column(g, d), Ranks)
  BY <1>1, <1>3, DataPlaces DEF DealtOut, PlacesTyped
<1> HIDE DEF p
<1>7. ASSUME NEW d \in Ranks PROVE Dealt'[d] = SumOf(Column(h, d), Ranks)
  <2> DEFINE b == Column(g, d)
             c == Column(h, d)
  <2>1. /\ b \in [Ranks -> Int] /\ c \in [Ranks -> Int]
        /\ \A a \in Ranks : b[a] = g[a][d] /\ c[a] = h[a][d]
    <3>1. \A a \in Ranks : g[a][d] \in Int /\ h[a][d] \in Int
      BY <1>3, <1>5 DEF Rounds
    <3> QED BY <3>1 DEF Column
  <2>2. CASE d = p
    <3>1. c = Plus(b, o, 1)
      <4>1. c[o] = b[o] + 1 /\ \A a \in Ranks \ {o} : c[a] = b[a]
        BY <1>5, <2>1, <2>2
      <4> HIDE DEF b, c
      <4> QED BY <2>1, <4>1 DEF Plus
    <3> HIDE DEF b, c
    <3>2. SumOf(c, Ranks) = SumOf(b, Ranks) + 1
      BY <2>1, <3>1, SumPlus
    <3> QED BY <1>4, <1>6, <2>2, <3>2 DEF b, c
  <2>3. CASE d # p
    <3>1. \A a \in Ranks : c[a] = b[a]
      BY <1>5, <2>1, <2>3
    <3> HIDE DEF b, c
    <3>2. c = b
      BY <2>1, <3>1
    <3> QED BY <1>4, <1>6, <2>3, <3>2 DEF b, c
  <2> QED BY <2>2, <2>3
<1>8. ASSUME NEW a \in Ranks PROVE EvenRow(h, a)'
  <2>1. PICK m \in Nat : \A d \in Ranks : g[a][d] = IF Before(a, d) THEN m + 1 ELSE m
    BY <1>3 DEF DealtOut, EvenRow
  <2>2. CASE a # o
    <3>1. sharingDest'[a] = sharingDest[a]
      BY <1>1, <1>4, <2>2 DEF DataTyped
    <3>2. \A d \in Ranks : h[a][d] = g[a][d] /\ (Before(a, d)' <=> Before(a, d))
      BY <1>5, <2>2, <3>1 DEF Before
    <3> QED BY <2>1, <3>2 DEF EvenRow
  <2>3. CASE a = o
    <3> DEFINE q == (p + 1) % nLearners
    <3>1. sharingDest'[o] = q
      BY <1>1, <1>4 DEF DataTyped
    <3>2. \A d \in Ranks : h[o][d] = IF d = p THEN g[o][d] + 1 ELSE g[o][d]
      BY <1>5
    <3>3. \A d \in Ranks : Before(o, d) <=> Place(o, d) < Place(o, p)
      BY DEF Before, p
    <3>4. \A d \in Ranks : Before(o, d)' <=> Place(o, d) < Place(o, q)
      BY <3>1 DEF Before
    <3>0. g[o][p] = m /\ Place(o, p) \in Int
      <4>1. Place(o, p) \in Int
        BY <1>4, RankNumbers DEF Place
      <4> QED BY <1>4, <2>1, <2>3, <3>3, <4>1
    <3> HIDE DEF q
    <3>5. CASE \A d \in Ranks : Place(o, d) < Place(o, q) <=> (Place(o, d) < Place(o, p) \/ d = p)
      <4>1. \A d \in Ranks : h[o][d] = IF Before(o, d)' THEN m + 1 ELSE m
        BY <2>1, <2>3, <3>0, <3>2, <3>3, <3>4, <3>5
      <4> QED BY <2>3, <4>1 DEF EvenRow
    <3>6. CASE Place(o, q) = 0 /\ (\A d \in Ranks : Place(o, d) >= 0)
               /\ \A d \in Ranks : d # p => Place(o, d) < Place(o, p)
      <4>1. \A d \in Ranks : Place(o, d) \in Int
        BY RankNumbers DEF Place
      <4>2. \A d \in Ranks : ~Before(o, d)'
        BY <3>4, <3>6, <4>1
      <4>3. \A d \in Ranks : h[o][d] = m + 1
        BY <2>1, <2>3, <3>0, <3>2, <3>3, <3>6
      <4>4. m + 1 \in Nat
        OBVIOUS
      <4> QED BY <2>3, <4>2, <4>3, <4>4 DEF EvenRow
    <3> QED BY <1>4, <3>5, <3>6, TurnPassed DEF q
  <2> QED BY <2>2, <2>3
<1>9. ASSUME NEW a \in Ranks, Owned'[a] = 0, NEW d \in Ranks PROVE h[a][d] = 0
  <2>1. Owned[a] = 0 /\ a # o
    BY <1>1, <1>9 DEF setup
  <2> QED BY <1>3, <1>5, <2>1 DEF DealtOut
<1> QED BY <1>5, <1>7, <1>8, <1>9 DEF DealtOut

LEMMA NextRoundsInv == RoundsInv /\ [Next]_vars => RoundsInv'
<1> SUFFICES ASSUME RoundsInv, [Next]_vars PROVE RoundsInv'
  OBVIOUS
<1>1. DataTyped /\ DataTyped'
  BY NextDataTyped DEF RoundsInv
<1>2. CASE \E o \in Ranks : Passes(o) /\ UNCHANGED setup
  BY <1>1, <1>2, DealRoundsInv
<1>3. CASE Dealt' = Dealt /\ UNCHANGED <<sharingDest, setup>>
  <2>1. UNCHANGED <<Dealt, sharingDest, Owned, nEnvironments>>
    BY <1>3 DEF setup
  <2>2. \A g : DealtOut(g) => DealtOut(g)'
    BY <2>1 DEF DealtOut, EvenRow, Before
  <2> QED BY <1>1, <2>1, <2>2 DEF RoundsInv, Sharing
<1>4. CASE ~Sharing /\ UNCHANGED setup
  BY <1>1, <1>4 DEF RoundsInv, Sharing, setup
<1>5. UNCHANGED setup /\ (Stays \/ \E o \in Ranks : Enters(o) \/ Passes(o))
  BY <1>1, NextPlaces
<1> QED BY <1>2, <1>3, <1>4, <1>5 DEF Stays, Enters

\* What a rank has been given of an owner's episodes is at most one more than what
\* any other rank has.
LEMMA AtMostOnePerOwner ==
  ASSUME RoundsInv, Sharing, NEW r \in Ranks, NEW s \in Ranks
  PROVE  DealtTo(r) <= DealtTo(s) + Cardinality(Owners)
<1>1. PICK g \in Rounds : DealtOut(g)
  BY DEF RoundsInv
<1> DEFINE b == Column(g, r)
           c == Column(g, s)
           one == [o \in Ranks |-> IF o \in Owners THEN 1 ELSE 0]
           most == [o \in Ranks |-> c[o] + one[o]]
<1>2. \A a, d \in Ranks : g[a][d] \in Nat
  BY <1>1 DEF Rounds
<1>3. /\ b \in [Ranks -> Int] /\ c \in [Ranks -> Int]
      /\ \A o \in Ranks : b[o] = g[o][r] /\ c[o] = g[o][s]
  BY <1>2 DEF Column
<1>4. one \in [Ranks -> Int] /\ \A o \in Ranks : one[o] = IF o \in Owners THEN 1 ELSE 0
  OBVIOUS
<1>5. \A o \in Ranks : b[o] <= c[o] + one[o]
  <2> SUFFICES ASSUME NEW o \in Ranks PROVE b[o] <= c[o] + one[o]
    OBVIOUS
  <2>1. PICK m \in Nat : \A d \in Ranks : g[o][d] = IF Before(o, d) THEN m + 1 ELSE m
    BY <1>1 DEF DealtOut, EvenRow
  <2>2. Owned[o] = 0 => g[o][r] = 0 /\ g[o][s] = 0
    BY <1>1 DEF DealtOut
  <2>3. Owned[o] \in Nat
    BY DEF RoundsInv, DataTyped
  <2> HIDE DEF b, c, one
  <2>4. CASE Owned[o] = 0
    BY <1>3, <1>4, <2>2, <2>4 DEF Owners
  <2>5. CASE Owned[o] # 0
    <3>1. one[o] = 1
      BY <1>4, <2>3, <2>5 DEF Owners
    <3>2. b[o] <= m + 1 /\ c[o] >= m /\ c[o] \in Int
      BY <1>3, <2>1
    <3> QED BY <1>3, <3>1, <3>2
  <2> QED BY <2>4, <2>5
<1> HIDE DEF b, c, one
<1>6. most \in [Ranks -> Int] /\ (\A o \in Ranks : most[o] = c[o] + one[o])
      /\ \A o \in Ranks : b[o] <= most[o]
  BY <1>3, <1>4, <1>5
<1> HIDE DEF most
<1>7. SumOf(b, Ranks) <= SumOf(most, Ranks)
  BY <1>3, <1>6, RanksFinite, SumMono
<1>8. SumOf(most, Ranks) = SumOf(c, Ranks) + SumOf(one, Ranks)
  <2>1. \A o \in Ranks : most[o] = c[o] + one[o]
    BY <1>6
  <2>2. most \in [Ranks -> Int]
    BY <1>6
  <2>3. c \in [Ranks -> Int] /\ one \in [Ranks -> Int] /\ IsFiniteSet(Ranks)
    BY <1>3, <1>4, RanksFinite
  <2> QED BY ONLY <2>1, <2>2, <2>3, SumAdd
<1>9. Cardinality(Owners) = SumOf(one, Ranks)
  BY <1>4, RanksFinite, SumOfOnes DEF Owners
<1>10. DealtTo(r) = SumOf(b, Ranks) /\ DealtTo(s) = SumOf(c, Ranks)
  BY <1>1 DEF DealtOut, Dealt, b, c
<1> QED BY <1>7, <1>8, <1>9, <1>10

\* No episode is lost or stored twice between a thread, the list of its rank and the rank
\* that it is dealt to, and a sharing group that starts afresh gets them evenly, up to
\* one for each rank that deals out its own: for any number of ranks and environments.
THEOREM EpisodesDealtHolds == NoneRestarted => (Spec => []EpisodesDealt)
<1>1. ASSUME RoundsInv, NoneLost PROVE EpisodesDealt
  <2>1. MapThenSumSet(InHand, Ranks) = MapThenSumSet(LAMBDA r : nSeen[r] + uncounted[r], Ranks)
    <3>1. DataTyped
      BY <1>1 DEF NoneLost
    <3> QED BY <1>1, <3>1, InHandIsSum, CountedIsSum DEF NoneLost
  <2>2. ASSUME Sharing, NEW r \in Ranks, NEW s \in Ranks
        PROVE  DealtTo(r) <= DealtTo(s) + Cardinality(Owners)
    BY <1>1, <2>2, AtMostOnePerOwner
  <2> QED BY <2>1, <2>2 DEF EpisodesDealt
<1> QED BY <1>1, InitRoundsInv, NextRoundsInv, InitNoneLost, NextNoneLost, PTL DEF Spec
==============================================================================
