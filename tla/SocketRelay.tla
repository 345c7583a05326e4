----------------------------- MODULE SocketRelay -----------------------------
(***************************************************************************)
(* A worker process that forked its environment and stands between it and  *)
(* the master: Worker::loopSocketsToMaster reads a state from the socket   *)
(* of the application, passes it on over MPI, waits for the action and     *)
(* writes it to the socket.  A worker owns one environment                 *)
(* (figureOutWorkersPattern asserts it), so that there is one client.  The *)
(* master is the one of MasterComm, seen through this one connection, with *)
(* what storeState checks of a state.                                      *)
(*                                                                         *)
(* A state is abstracted to its status, an action to the state it answers. *)
(***************************************************************************)
EXTENDS Integers, Sequences

CONSTANT SockCap  \* messages a socket buffers before SOCKET_Bsend waits

ASSUME RelayAssumption == SockCap \in Nat \ {0}

VARIABLES
  app,        \* the application runs, waits, is over or aborted (lost)
  status,     \* status of the state it sends next or has sent
  sockUp,     \* states in the socket
  sockDown,   \* actions in the socket
  todo,       \* the receive request of the relay is not finished
  relay,      \* next operation of the relay
  dataState,  \* its state buffer
  dataAction, \* its action buffer
  mpiUp,      \* state messages to the master
  mpiDown,    \* action messages from the master
  inProgress, \* the master's open episode of this environment has states
  bExit,      \* the master ends training
  master      \* the master serves or has told KILL

appVars    == <<app, status>>
sockVars   == <<sockUp, sockDown>>
relayVars  == <<todo, relay, dataState, dataAction>>
mpiVars    == <<mpiUp, mpiDown>>
masterVars == <<inProgress, bExit, master>>
vars == <<appVars, sockVars, relayVars, mpiVars, masterVars>>

Statuses == {"INIT", "CONT", "LAST"}
Answers  == Statuses \cup {"KILL"}

------------------------------------------------------------------------------
(* The application                                                         *)

\* A send on a socket whose other end is closed aborts the program.
SendState ==
  /\ app = "run"
  /\ IF relay = "exit"
     THEN app' = "lost" /\ UNCHANGED sockUp
     ELSE /\ Len(sockUp) < SockCap
          /\ app' = "wait" /\ sockUp' = Append(sockUp, status)
  /\ UNCHANGED <<status, sockDown, relayVars, mpiVars, masterVars>>

RecvAction(next) ==
  /\ app = "wait" /\ sockDown # <<>>
  /\ sockDown' = Tail(sockDown)
  /\ IF Head(sockDown) = "KILL"
     THEN app' = "over" /\ UNCHANGED status
     ELSE /\ app' = "run"
          /\ (next = "INIT") = (status = "LAST")
          /\ status' = next
  /\ UNCHANGED <<sockUp, relayVars, mpiVars, masterVars>>

------------------------------------------------------------------------------
(* loopSocketsToMaster: SOCKET_Irecv is called before the loop, once.      *)

\* A request with nothing left to do tests as completed and reads nothing.
SOCKET_Test ==
  /\ relay = "test" /\ (todo => sockUp # <<>>)
  /\ IF todo
     THEN dataState' = Head(sockUp) /\ sockUp' = Tail(sockUp)
     ELSE UNCHANGED <<dataState, sockUp>>
  /\ todo' = FALSE
  /\ relay' = "isend"
  /\ UNCHANGED <<appVars, sockDown, dataAction, mpiVars, masterVars>>

\* Mutant of MPI_Isend: the relay does not wait for the action.
SendAndGoOn ==
  /\ relay = "isend"
  /\ mpiUp' = Append(mpiUp, dataState)
  /\ relay' = "test"
  /\ UNCHANGED <<appVars, sockVars, todo, dataState, dataAction, mpiDown, masterVars>>

MPI_Isend ==
  /\ relay = "isend"
  /\ mpiUp' = Append(mpiUp, dataState)
  /\ relay' = "irecv"
  /\ UNCHANGED <<appVars, sockVars, todo, dataState, dataAction, mpiDown, masterVars>>

\* Mutant of MPI_Irecv: the action is received in the buffer of the state.
ReceiveInStateBuffer ==
  /\ relay = "irecv" /\ mpiDown # <<>>
  /\ dataState' = Head(mpiDown)
  /\ mpiDown' = Tail(mpiDown)
  /\ relay' = "bsend"
  /\ UNCHANGED <<appVars, sockVars, todo, dataAction, mpiUp, masterVars>>

MPI_Irecv ==
  /\ relay = "irecv" /\ mpiDown # <<>>
  /\ dataAction' = Head(mpiDown)
  /\ mpiDown' = Tail(mpiDown)
  /\ relay' = "bsend"
  /\ UNCHANGED <<appVars, sockVars, todo, dataState, mpiUp, masterVars>>

\* Mutant of SOCKET_Bsend: KILL does not end the loop.
SendAndStay ==
  /\ relay = "bsend" /\ Len(sockDown) < SockCap
  /\ sockDown' = Append(sockDown, dataAction)
  /\ relay' = "test"
  /\ UNCHANGED <<appVars, sockUp, todo, dataState, dataAction, mpiVars, masterVars>>

\* KILL goes through sendKillMsgs, to the only client there is.
SOCKET_Bsend ==
  /\ relay = "bsend" /\ Len(sockDown) < SockCap
  /\ sockDown' = Append(sockDown, dataAction)
  /\ relay' = IF dataAction = "KILL" THEN "exit" ELSE "test"
  /\ UNCHANGED <<appVars, sockUp, todo, dataState, dataAction, mpiVars, masterVars>>

RelayStep == SOCKET_Test \/ MPI_Isend \/ MPI_Irecv \/ SOCKET_Bsend

------------------------------------------------------------------------------
(* The master                                                              *)

Answer ==
  /\ master = "serve" /\ mpiUp # <<>>
  /\ inProgress' = (Head(mpiUp) # "LAST")
  /\ mpiUp' = Tail(mpiUp)
  /\ mpiDown' = Append(mpiDown, IF bExit THEN "KILL" ELSE Head(mpiUp))
  /\ master' = IF bExit THEN "killed" ELSE "serve"
  /\ UNCHANGED <<appVars, sockVars, relayVars, bExit>>

Exit == /\ ~bExit /\ bExit' = TRUE
        /\ UNCHANGED <<appVars, sockVars, relayVars, mpiVars, inProgress, master>>

relayInit ==
  /\ app = "run" /\ status = "INIT" /\ sockUp = <<>> /\ sockDown = <<>>
  /\ todo = TRUE /\ relay = "test" /\ dataState = "INIT" /\ dataAction = "INIT"
  /\ mpiUp = <<>> /\ mpiDown = <<>>
  /\ inProgress = FALSE /\ bExit = FALSE /\ master = "serve"

relayNext ==
  \/ SendState \/ (\E next \in Statuses : RecvAction(next))
  \/ RelayStep \/ Answer \/ Exit

relaySpec == relayInit /\ [][relayNext]_vars

------------------------------------------------------------------------------
(* Properties                                                              *)

\* Every variable has its type.
relayTypeOK ==
  /\ app \in {"run", "wait", "over", "lost"} /\ status \in Statuses
  /\ sockUp \in Seq(Statuses) /\ sockDown \in Seq(Answers)
  /\ todo \in BOOLEAN
  /\ relay \in {"test", "isend", "irecv", "bsend", "exit"}
  /\ dataState \in Statuses /\ dataAction \in Answers
  /\ mpiUp \in Seq(Statuses) /\ mpiDown \in Seq(Answers)
  /\ inProgress \in BOOLEAN
  /\ bExit \in BOOLEAN /\ master \in {"serve", "killed"}

\* The relay and the master answer each other in turn, so that the master's one
\* receive request and buffer per worker are enough.
RelayLockstep ==
  Len(mpiUp) + Len(mpiDown) = IF relay = "irecv" THEN 1 ELSE 0

\* KILL is told once and is the last message on its way to the application.
KillIsLast ==
  /\ \A i \in 1 .. Len(sockDown) :
       sockDown[i] = "KILL" => i = Len(sockDown) /\ relay = "exit"
  /\ app = "over" => relay = "exit" /\ sockDown = <<>>

\* storeState asserts of every state that the master receives that it starts an
\* episode exactly when none is open.
StatusFitsEpisode ==
  [][Answer => (Head(mpiUp) = "INIT") = ~inProgress]_vars
==============================================================================
