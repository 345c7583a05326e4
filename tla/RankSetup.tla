------------------------------- MODULE RankSetup -------------------------------
(***************************************************************************)
(* From mpirun to the first state: the ranks of the world find out which   *)
(* of them are masters and which workers, and split the communicators      *)
(* (ExecutionInfo::figureOutWorkersPattern); workers run the application   *)
(* in teams, each in a directory of its own (Launcher::createGoRunDir), or *)
(* workers or masters fork it and wait for it on a socket                  *)
(* (Launcher::forkApplication); and the description of the environment     *)
(* goes from the applications to the masters, field by field               *)
(* (Worker::synchronizeEnvironments, with the fields of Description).      *)
(*                                                                         *)
(* Every rank computes its own part from the numbers alone: the calls fit  *)
(* together only if all ranks come to the same arrangement.  A send of a   *)
(* field returns when it is received (MPI may be quicker), and an          *)
(* assertion that fails ends the run.                                      *)
(***************************************************************************)
EXTENDS Episodes, FiniteSets, FiniteSetsExt

CONSTANTS
  Shapes,  \* [nMasters, nWorkers, workerProcessesPerEnv, nEnvironments] of a run, and
           \* the calls that its application makes after it has given the dimensions
  OldDirs  \* directories <<group, number>> that may be there from earlier runs

ASSUME ShapesAssumption ==
  /\ Shapes \subseteq [nMasters : Nat, nWorkers : Nat, workerProcessesPerEnv : Nat,
                       nEnvironments : Nat \ {0}, calls : Nat]
  /\ \A s \in Shapes : s.nMasters + s.nWorkers > 0
  /\ OldDirs \subseteq SUBSET (Nat \X Nat)

VARIABLES
  shape,     \* the command line
  pc,        \* next collective or exchange of each rank
  bIsMaster,
  learners_train_comm,     \* communicators, each as seen by each rank: the
  master_workers_comm,     \* set of its members, {} if it is not made
  workerless_masters_comm,
  environment_app_comm,
  calls,       \* left to the application
  client,      \* the description in the forked processes of each rank,
  environment, \* and in the rank itself,
  step,        \* number of the field that it is at,
  received,    \* which it has got,
  heard,       \* and the inner rank that it has heard of, or told, last
  socketFile,\* rank that listens at the name of the socket; -1: nobody
  children,  \* forked processes of each rank that have not connected yet
  clients,   \* connections to each rank
  dirs,      \* directories of simulations
  dirIter    \* number of the directory that each rank looks at, or is in

comms == <<bIsMaster, learners_train_comm, master_workers_comm,
           workerless_masters_comm, environment_app_comm>>
syncVars == <<client, environment, step, received, heard>>
socketVars == <<socketFile, children, clients>>
dirVars == <<dirs, dirIter>>
setupVars == <<shape, pc, comms, asked, calls, syncVars, socketVars, dirVars>>

World == 0 .. shape.nMasters + shape.nWorkers - 1

------------------------------------------------------------------------------
(* The arrangement, as each rank computes it                               *)

CeilDiv(a, b) == (a + b - 1) \div b

\* Mutant of notRoundedSplitting: the last share is not cut off at the end.
RoundedSplitting(nSplitters, nToSplit, rank) == CeilDiv(nToSplit, nSplitters)

notRoundedSplitting(nSplitters, nToSplit, rank) ==
  LET nPerSplitter == CeilDiv(nToSplit, nSplitters)
  IN Min({(rank + 1) * nPerSplitter, nToSplit}) - Min({rank * nPerSplitter, nToSplit})

nInGroup(i) == notRoundedSplitting(shape.nMasters, shape.nWorkers, i)

\* nInGroup resources and one handler for each group before the i-th.
countIndex(i) == MapThenSumSet(LAMBDA j : nInGroup(j) + 1, 0 .. i - 1)

indxStripedMPISplitting(r) == Min({i \in 0 .. shape.nMasters - 1 : r < countIndex(i + 1)})
rankStripedMPISplitting(r) == r - countIndex(indxStripedMPISplitting(r))

forkableApplication == shape.workerProcessesPerEnv <= 1

\* Without masters nothing runs: the groups are counted from rank 1 on, so that the
\* number of rank 0's own is -1 with one process per environment, and the divisions
\* by the processes per environment do not come out, or are by zero, with any other.
Refused ==
  \/ ~forkableApplication /\ (shape.nWorkers = 0
                              \/ shape.nWorkers % shape.workerProcessesPerEnv # 0)
  \/ shape.nMasters = 0

\* Forked environments are dealt out to the workers in equal shares.
nEnvironments ==
  IF shape.nWorkers = 0 THEN shape.nEnvironments
  ELSE IF forkableApplication
       THEN CeilDiv(shape.nEnvironments, shape.nWorkers) * shape.nWorkers
       ELSE shape.nWorkers

nForkedProcesses2spawn(r) ==
  IF shape.nWorkers = 0 THEN notRoundedSplitting(shape.nMasters, nEnvironments, r)
  ELSE IF ~bIsMaster[r] /\ shape.workerProcessesPerEnv = 0 THEN 1 ELSE 0

------------------------------------------------------------------------------
(* Collective calls: a rank leaves with the last one to enter              *)

SplitBy(color) == [r \in World |-> {s \in World : color[s] = color[r]}]
RankIn(comm, r) == Cardinality({s \in comm : s < r})

Together(comm, from, to) ==
  /\ \A r \in comm : pc[r] = from
  /\ pc' = [r \in World |-> IF r \in comm THEN to[r] ELSE pc[r]]
  /\ UNCHANGED <<shape, asked, calls, syncVars, socketVars, dirVars>>

\* What a master does once it has its communicators (Engine::run).
Arranged(r) ==
  IF shape.nWorkers > 0 /\ shape.workerProcessesPerEnv > 0 THEN "env"
  ELSE IF nForkedProcesses2spawn(r) > 0 THEN "fork" ELSE "recv"

\* Masters without workers share the world.
FigureOut ==
  /\ Together(World, "figure",
              [r \in World |-> IF Refused THEN "died"
                               ELSE IF shape.nWorkers > 0 THEN "learners"
                               ELSE IF nEnvironments < shape.nMasters THEN "dup"
                               ELSE Arranged(r)])
  /\ bIsMaster' = [r \in World |-> shape.nWorkers = 0]
  /\ learners_train_comm' = [r \in World |-> IF shape.nWorkers = 0 THEN World ELSE {}]
  /\ UNCHANGED <<master_workers_comm, workerless_masters_comm, environment_app_comm>>

SplitLearners ==
  LET master == [r \in World |-> rankStripedMPISplitting(r) = 0] IN
  /\ Together(World, "learners", [r \in World |-> "workers"])
  /\ bIsMaster' = master
  /\ learners_train_comm' = SplitBy(master)
  /\ UNCHANGED <<master_workers_comm, workerless_masters_comm, environment_app_comm>>

\* With fewer workers than masters these go on to duplicate their communicator;
\* the workers free theirs.
SplitWorkers ==
  /\ Together(World, "workers",
              [r \in World |-> IF bIsMaster[r] /\ shape.nWorkers < shape.nMasters
                               THEN "dup" ELSE Arranged(r)])
  /\ master_workers_comm' = SplitBy([r \in World |-> indxStripedMPISplitting(r)])
  /\ learners_train_comm' =
       [r \in World |-> IF bIsMaster[r] THEN learners_train_comm[r] ELSE {}]
  /\ UNCHANGED <<bIsMaster, workerless_masters_comm, environment_app_comm>>

DupWorkerless ==
  LET masters == {r \in World : bIsMaster[r]} IN
  /\ masters # {}
  /\ Together(masters, "dup", [r \in World |-> Arranged(r)])
  /\ workerless_masters_comm' = [r \in World |-> learners_train_comm[r]]
  /\ UNCHANGED <<bIsMaster, learners_train_comm, master_workers_comm, environment_app_comm>>

nOwnedEnvironments(r) == Cardinality(master_workers_comm[r]) - 1

\* A worker has one environment, and its group can be cut into teams.
teamsFit(r) ==
  /\ nEnvironments = shape.nWorkers
  /\ shape.workerProcessesPerEnv > 0 =>
       nOwnedEnvironments(r) % shape.workerProcessesPerEnv = 0

WorkersDie(r) ==
  /\ pc[r] \in {"env", "fork"} /\ ~bIsMaster[r]
  /\ ~teamsFit(r)
  /\ pc' = [pc EXCEPT ![r] = "died"]
  /\ UNCHANGED <<shape, comms, asked, calls, syncVars, socketVars, dirVars>>

\* A team runs one environment.
thisWorkerGroupID(r) == (RankIn(master_workers_comm[r], r) - 1) \div shape.workerProcessesPerEnv

SplitEnvironments(r) ==
  LET group == master_workers_comm[r] IN
  /\ pc[r] = "env" /\ teamsFit(r)
  /\ Together(group, "env", [s \in World |-> IF bIsMaster[s] THEN "recv" ELSE "launch"])
  /\ environment_app_comm' =
       [s \in World |->
          IF s \in group /\ ~bIsMaster[s]
          THEN {q \in group : ~bIsMaster[q] /\ thisWorkerGroupID(q) = thisWorkerGroupID(s)}
          ELSE environment_app_comm[s]]
  /\ UNCHANGED <<bIsMaster, learners_train_comm, master_workers_comm, workerless_masters_comm>>

------------------------------------------------------------------------------
(* The application: in the directory of its team, or forked                *)

dirOf(r, n) == <<thisWorkerGroupID(r), n>>

\* stat: the first number that is free; the team meets at a barrier then.
LookForDir(r) ==
  /\ pc[r] = "launch"
  /\ IF dirOf(r, dirIter[r]) \in dirs
     THEN dirIter' = [dirIter EXCEPT ![r] = @ + 1] /\ UNCHANGED pc
     ELSE pc' = [pc EXCEPT ![r] = "barrier"] /\ UNCHANGED dirIter
  /\ UNCHANGED <<shape, comms, asked, calls, syncVars, socketVars, dirs>>

\* Mutant of TeamReady: the root makes the directory without the first barrier.
RootReady(team) ==
  \A r \in team : RankIn(team, r) = 0 => pc[r] = "barrier"

TeamReady(team) == \A r \in team : pc[r] = "barrier"

\* The root of the team makes the directory that it has looked for; that mkdir fails
\* is not noticed.
MakeDir(r) ==
  /\ pc[r] = "barrier" /\ RankIn(environment_app_comm[r], r) = 0
  /\ TeamReady(environment_app_comm[r])
  /\ dirs' = dirs \cup {dirOf(r, dirIter[r])}
  /\ pc' = [pc EXCEPT ![r] = "made"]
  /\ UNCHANGED <<shape, comms, asked, calls, syncVars, socketVars, dirIter>>

\* After the second barrier every member goes to the directory that it has looked for,
\* and the application describes its problem.
EnterDir(r) ==
  LET team == environment_app_comm[r] IN
  /\ pc[r] = "made" /\ \A s \in team \ {r} : pc[s] = "barrier"
  /\ pc' = [s \in World |-> IF s \notin team THEN pc[s]
                            ELSE IF asked.died THEN "died" ELSE "send"]
  /\ environment' = [s \in World |-> IF s \in team THEN asked ELSE environment[s]]
  /\ UNCHANGED <<shape, comms, asked, calls, client, step, received, heard, socketVars, dirVars>>

\* The children know nothing but the name of the socket, which is the same in all.
Fork(r) ==
  /\ pc[r] = "fork" /\ (bIsMaster[r] \/ teamsFit(r))
  /\ children' = [children EXCEPT ![r] = nForkedProcesses2spawn(r)]
  /\ pc' = [pc EXCEPT ![r] = "bind"]
  /\ client' = [client EXCEPT ![r] = asked]
  /\ UNCHANGED <<shape, comms, asked, calls, environment, step, received, heard>>
  /\ UNCHANGED <<socketFile, clients, dirVars>>

Bind(r) ==
  /\ pc[r] = "bind"
  /\ socketFile' = r
  /\ pc' = [pc EXCEPT ![r] = "accept"]
  /\ UNCHANGED <<shape, comms, asked, calls, syncVars, children, clients, dirVars>>

SOCKET_clientConnect(r) ==
  /\ children[r] > 0 /\ socketFile # -1
  /\ children' = [children EXCEPT ![r] = @ - 1]
  /\ clients' = [clients EXCEPT ![socketFile] = @ + 1]
  /\ UNCHANGED <<shape, pc, comms, asked, calls, syncVars, socketFile, dirVars>>

SOCKET_serverConnect(r) ==
  /\ pc[r] = "accept" /\ clients[r] >= nForkedProcesses2spawn(r)
  /\ pc' = [pc EXCEPT ![r] = "recv"]
  /\ UNCHANGED <<shape, comms, asked, calls, syncVars, socketVars, dirVars>>

------------------------------------------------------------------------------
(* synchronizeEnvironments                                                 *)

\* Where a rank takes its next field from: workers that run the application have it.
Begin(r) == IF ~bIsMaster[r] /\ nForkedProcesses2spawn(r) = 0 THEN "send" ELSE "recv"

\* The ranks of done leave sendRecvFunc; e, h and got are the new values but for that.
Leave(done, e, h, got) ==
  \E left \in {[r \in done |-> Advanced(e[r], step[r])]} :
    /\ environment' = [r \in World |-> IF r \in done THEN left[r] ELSE e[r]]
    /\ step' = [r \in World |-> IF r \in done THEN step[r] + 1 ELSE step[r]]
    /\ heard' = [r \in World |-> IF r \in done THEN 0 ELSE h[r]]
    /\ received' = [r \in World |-> r \notin done /\ got[r]]
    /\ pc' = [r \in World |-> IF r \notin done THEN pc[r]
                              ELSE IF left[r].died THEN "died"
                              ELSE IF step[r] = nFields(left[r]) THEN "running"
                              ELSE Begin(r)]
    /\ UNCHANGED client

\* Rank s gets the field of rank r.
Get(s, r) ==
  IF Field(environment[s], step[s]) = Field(environment[r], step[r])
  THEN Stored(environment[s], step[s], Value(environment[r], step[r]))
  ELSE [environment[s] EXCEPT !.died = TRUE]

unchangedBySync == <<shape, comms, asked, calls, socketVars, dirVars>>

\* From the clients of the socket, which all run the same application, ...
HostRecv(r) ==
  /\ pc[r] = "recv" /\ nForkedProcesses2spawn(r) > 0
  /\ IF client[r].died
     THEN pc' = [pc EXCEPT ![r] = "died"] /\ UNCHANGED <<client, environment, received>>
     ELSE /\ environment' = [environment EXCEPT ![r] = Stored(@, step[r], Value(client[r], step[r]))]
          /\ client' = [client EXCEPT ![r] = Advanced(@, step[r])]
          /\ received' = [received EXCEPT ![r] = TRUE]
          /\ pc' = [pc EXCEPT ![r] = IF bIsMaster[r] THEN "relay" ELSE "send"]
  /\ UNCHANGED <<unchangedBySync, step, heard>>

LastHeard(r) == heard[r] = nOwnedEnvironments(r)

\* ... or from each worker in turn, all of which must say the same.
MasterRecv(r) ==
  /\ pc[r] = "recv" /\ bIsMaster[r] /\ nForkedProcesses2spawn(r) = 0 /\ ~LastHeard(r)
  /\ \E w \in master_workers_comm[r] :
       LET mine == Get(r, w) IN
       /\ RankIn(master_workers_comm[r], w) = heard[r] + 1 /\ pc[w] = "send"
       /\ IF mine.died \/ (heard[r] > 0 /\ mine # environment[r])
          THEN pc' = [pc EXCEPT ![r] = "died"] /\ UNCHANGED syncVars
          ELSE Leave({w}, [environment EXCEPT ![r] = mine],
                     [heard EXCEPT ![r] = @ + 1], [received EXCEPT ![r] = TRUE])
  /\ UNCHANGED unchangedBySync

\* A master without workers goes on at once.
MasterHeard(r) ==
  /\ pc[r] = "recv" /\ bIsMaster[r] /\ nForkedProcesses2spawn(r) = 0
  /\ shape.nWorkers > 0 => LastHeard(r)
  /\ pc' = [pc EXCEPT ![r] = "relay"]
  /\ heard' = [heard EXCEPT ![r] = 0]
  /\ UNCHANGED <<unchangedBySync, client, environment, step, received>>

RankOf(comm, i) == CHOOSE r \in comm : RankIn(comm, r) = i

\* Rank 0 of the masters has the field, and no other.
relayRefused(r) ==
  /\ workerless_masters_comm[r] # {}
  /\ received[r] # (RankIn(workerless_masters_comm[r], r) = 0)

RelayRefused(r) ==
  /\ pc[r] = "relay" /\ relayRefused(r)
  /\ pc' = [pc EXCEPT ![r] = "died"]
  /\ UNCHANGED <<unchangedBySync, syncVars>>

\* Mutant of LastTold: only one of the other masters is sent the field.
LastToldEarly(r) == TRUE

LastTold(r) == heard[r] + 2 = Cardinality(workerless_masters_comm[r])

\* Rank 0 sends the field to each of the other masters in turn.
RelaySend(r) ==
  /\ pc[r] = "relay" /\ workerless_masters_comm[r] # {} /\ ~relayRefused(r)
  /\ RankIn(workerless_masters_comm[r], r) = 0
  /\ LET s == RankOf(workerless_masters_comm[r], heard[r] + 1) IN
     /\ pc[s] = "relay" /\ ~relayRefused(s)
     /\ Leave(IF LastTold(r) THEN {r, s} ELSE {s},
              [environment EXCEPT ![s] = Get(s, r)], [heard EXCEPT ![r] = @ + 1], received)
  /\ UNCHANGED unchangedBySync

\* All masters have workers of their own, or their own children.
RelayNone(r) ==
  /\ pc[r] = "relay" /\ workerless_masters_comm[r] = {}
  /\ Leave({r}, environment, heard, received)
  /\ UNCHANGED unchangedBySync

------------------------------------------------------------------------------

Ended == (\A r \in World : pc[r] = "running") \/ \E r \in World : pc[r] = "died"

\* The application has given the dimensions of its first agent.
setupInit ==
  /\ shape \in Shapes
  /\ pc = [r \in World |-> "figure"]
  /\ bIsMaster = [r \in World |-> FALSE]
  /\ learners_train_comm = [r \in World |-> {}]
  /\ master_workers_comm = [r \in World |-> {}]
  /\ workerless_masters_comm = [r \in World |-> {}]
  /\ environment_app_comm = [r \in World |-> {}]
  /\ asked = [Environment EXCEPT !.mdps[1].dimState = 1, !.mdps[1].dimAction = 1]
  /\ calls = shape.calls
  /\ client = [r \in World |-> Environment]
  /\ environment = [r \in World |-> Environment]
  /\ step = [r \in World |-> 1]
  /\ received = [r \in World |-> FALSE]
  /\ heard = [r \in World |-> 0]
  /\ socketFile = -1
  /\ children = [r \in World |-> 0] /\ clients = [r \in World |-> 0]
  /\ dirs \in OldDirs /\ dirIter = [r \in World |-> 0]

\* All processes of the application make the same calls.
Describe ==
  /\ calls > 0 /\ pc[0] = "figure" /\ Call
  /\ calls' = calls - 1
  /\ UNCHANGED <<shape, pc, comms, syncVars, socketVars, dirVars>>

Arrange == FigureOut \/ SplitLearners \/ SplitWorkers \/ DupWorkerless

RankStep(r) ==
  \/ WorkersDie(r) \/ SplitEnvironments(r)
  \/ LookForDir(r) \/ MakeDir(r) \/ EnterDir(r)
  \/ Fork(r) \/ Bind(r) \/ SOCKET_clientConnect(r) \/ SOCKET_serverConnect(r)
  \/ HostRecv(r) \/ MasterRecv(r) \/ MasterHeard(r)
  \/ RelayRefused(r) \/ RelaySend(r) \/ RelayNone(r)

\* die() takes all ranks down.
setupNext ==
  \/ /\ \A r \in World : pc[r] # "died"
     /\ Describe \/ Arrange \/ \E r \in World : RankStep(r)
  \/ Ended /\ UNCHANGED setupVars

setupSpec == setupInit /\ [][setupNext]_setupVars
FairSpec == setupSpec /\ WF_setupVars(setupNext /\ ~Ended)

------------------------------------------------------------------------------
(* Properties                                                              *)

PCs == {"figure", "learners", "workers", "dup", "env", "launch", "barrier", "made", "fork",
        "bind", "accept", "recv", "send", "relay", "running", "died"}

\* Every variable has its type.
setupTypeOK ==
  /\ shape \in Shapes /\ pc \in [World -> PCs] /\ received \in [World -> BOOLEAN]
  /\ bIsMaster \in [World -> BOOLEAN]
  /\ \A f \in {learners_train_comm, master_workers_comm, workerless_masters_comm,
               environment_app_comm} : f \in [World -> SUBSET World]
  /\ heard \in [World -> Nat] /\ step \in [World -> Nat] /\ calls \in 0 .. shape.calls
  /\ \A e \in {asked} \cup {environment[r] : r \in World} : DOMAIN e = DOMAIN Environment
  /\ socketFile \in World \cup {-1}
  /\ children \in [World -> Nat] /\ clients \in [World -> Nat]
  /\ dirs \subseteq Nat \X Nat /\ dirIter \in [World -> Nat]

\* The ranks agree: each communicator of a master and its workers holds exactly
\* one rank that thinks that it is the master, which is its rank 0, and there are
\* as many masters as the command line says (asserted by each worker).
OneMasterPerGroup ==
  \A r \in World : master_workers_comm[r] # {} =>
    /\ bIsMaster[r] <=> RankIn(master_workers_comm[r], r) = 0
    /\ Cardinality({s \in World : bIsMaster[s]}) = shape.nMasters

nCallingEnvironments(r) ==
  IF ~bIsMaster[r] THEN 1
  ELSE IF shape.nWorkers > 0 THEN nOwnedEnvironments(r) ELSE nForkedProcesses2spawn(r)

\* The description in the application, for ranks that run it or have forked it.
Hosts == {r \in World : ~bIsMaster[r] \/ nForkedProcesses2spawn(r) > 0}
ofApplication(r) == IF nForkedProcesses2spawn(r) > 0 THEN client[r] ELSE environment[r]

\* Bounds are for continuous actions only.
Space(mdp) == IF bDiscreteActions(mdp) THEN [mdp EXCEPT !.bounds = <<>>] ELSE mdp

\* A master that gets to run has for each agent of each of its environments the state
\* and action spaces that the application gave to it, whoever passed them on.
MastersDescribed ==
  \A r \in World, w \in Hosts : pc[r] = "running" /\ bIsMaster[r] /\ pc[w] = "running" =>
    LET mine == agentsOf(environment[r], nCallingEnvironments(r))
        theirs == agentsOf(ofApplication(w), 1)
    IN Cardinality(DOMAIN mine) = nCallingEnvironments(r) * Cardinality(DOMAIN theirs)
       /\ \A i \in DOMAIN mine :
            /\ Space(mine[i].MDP) = Space(theirs[mine[i].localID].MDP)
            /\ mine[i].trackEpisodes = theirs[mine[i].localID].trackEpisodes

\* The calls that an application makes for an agent: an episode or two, of which the
\* last may go on.
Lives == {<<INIT, TERM>>, <<INIT, CONT, TERM, INIT, CONT>>, <<INIT, LAST, INIT, CONT, LAST>>}

\* What a master with the described problem stores, learns from and passes on is what the
\* application gave: the labels of discrete actions stand for its actions, one for each,
\* its agents go through the same steps, the returns of an episode are the sums of what
\* follows, before training and after, and episodes come out of a buffer as they went in
\* (storeState, updateReturnEstimator, packEpisode, isEqual).  An agent that is not
\* tracked leaves none; the others are told the average reward at the end of an episode.
EpisodesAsPlayed ==
  \A r \in World : pc[r] = "running" /\ bIsMaster[r] =>
    LET agents == agentsOf(environment[r], 1) IN
    \A i \in DOMAIN agents :
      /\ LabelsAreActions(agents[i].MDP)
      /\ \A learner \in Learners, statuses \in Lives : LifeKept(agents[i], learner, statuses)

\* Arrangements with workers for every master, or one worker for all of them,
\* that can be cut into teams, or with one rank that forks the environments.
Supported ==
  /\ ~Refused
  /\ IF shape.nWorkers = 0
     THEN shape.nMasters = 1 \/ shape.nEnvironments = 1
     ELSE /\ nEnvironments = shape.nWorkers
          /\ shape.nWorkers = 1 \/ \A i \in 0 .. shape.nMasters - 1 : nInGroup(i) > 0
          /\ IF shape.workerProcessesPerEnv = 0
             THEN shape.nWorkers = 1
             ELSE \A i \in 0 .. shape.nMasters - 1 :
                    nInGroup(i) % shape.workerProcessesPerEnv = 0

\* With one master the ranks of a team run their application in one directory, that
\* no other team uses, whichever of them is quick to look.
TeamsInOneDirectory ==
  shape.nMasters = 1 =>
    \A r, s \in World :
      environment_app_comm[r] # {} /\ environment_app_comm[s] # {}
        /\ pc[r] \in {"send", "running"} /\ pc[s] \in {"send", "running"} =>
        /\ dirOf(r, dirIter[r]) \in dirs
        /\ environment_app_comm[r] = environment_app_comm[s]
             <=> dirOf(r, dirIter[r]) = dirOf(s, dirIter[s])

ApplicationError ==
  \/ asked.died
  \/ \E r \in World : client[r].died \/ (~bIsMaster[r] /\ environment[r].died)

\* In these arrangements all ranks get to run: nobody waits for a call that
\* another rank skips or for a connection that another takes, no two ranks take
\* a message for different fields, and nothing is refused but errors that the
\* application itself finds in its description.
SetupCompletes ==
  <>(Supported => (\A r \in World : pc[r] = "running") \/ ApplicationError)
==============================================================================
