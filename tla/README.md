# smarties in TLA+

A verification development for *smarties*, a reinforcement learning library in
which applications ("environments") ask masters for actions over MPI or sockets,
and masters learn from what they are told, on one or several ranks. The modules
here model the parts of `src/source/smarties` whose correctness depends on what
happens at the same time or in which order: the training loop and its gates, the
master threads and their messages, the relay of worker ranks, the reductions
among learner ranks, the sampling of the replay memory, the checkpoint files, the
arrangement of the ranks and the description of the problem, and the paths that
gradients take through the networks. What a layer, a policy or a learner computes is
modelled as far as it has a derivative that the code writes by hand: the two must agree.

Paths below are relative to `src/source/smarties` unless they begin with `src/`.

## 1. Inventory

### Processes and threads

A run has *learner/master ranks* and, optionally, *worker ranks*
(`Settings/ExecutionInfo.cpp`, `figureOutWorkersPattern`). An application either
runs in a worker rank (MPI), in a process forked by a worker rank (sockets, relayed
to the master over MPI), or in a process forked by the master itself (sockets). In
a master rank

- the *main thread* runs `Worker::runTraining`: the tasks of each learner
  (`setupTasks`: initialise, step, complete the step) until training is over;
- each *master thread* runs `Master::waitForStateActionCallers` for its share of
  the environments: receive a state, wait at the gate, store it, choose an action,
  answer;
- a *coordinator thread* (`DataCoordinator`) moves episodes among ranks when there
  are fewer environments than learners, or when workers learn.

### Components

| Component | State | Operations | Talks to | Correct when |
|---|---|---|---|---|
| Training loop and gates (`Core/Worker.cpp`, `Learners/Learner.cpp`, `Utils/TaskQueue.h`) | `algoSubStepID`, `isTrainingStarted`, counters | `stepInit`, `stepMain`, `stepComplete`, `isOver`, `blockDataAcquisition`, `blockGradientUpdates` | replay memory, master threads, other ranks | data and gradient steps keep their ratio; training ends |
| Master threads (`Core/Master.*`) | a request and two buffers per caller, `bExit` | receive, gate, answer, kill | applications, training loop | every call is answered once, by its own answer; at the end all are told |
| Agents and messages (`Core/Agent.h`) | status, step, state, action, learner status | pack, unpack, update | both ends of a call | the message is of the agent that asked |
| Socket relay (`Core/Worker.cpp`, `Utils/SocketsLib.h`) | a request per client, MPI requests | `loopSocketsToMaster` | forked applications, master | lockstep; kill last |
| Replay memory (`ReplayMemory/Memory*`) | `episodes`, `inProgress`, counters, `dataset_mutex` | store, push, remove, sort, statistics | all threads of the rank | what is counted is stored; the data set keeps a floor |
| Samplers (`ReplayMemory/Sampling.*`) | prefix sums, distributions | `prepare`, `sample` | replay memory | every sample is a stored transition |
| Checkpoints (`MemoryBuffer::save`, `Network::save`, their `restart`) | files of the networks, the scaling and the data set, and their backups | write, copy, read | replay memory, networks | a restart finds a usable data set and networks that go with it |
| Reductions (`Utils/DelayedReductor.*`) | contribution, request, result | `update`, `get` | learner ranks | all ranks read the same rounds in order |
| Learner group (`Learners/*`, `Network/Optimizer.*`) | step, gradient request | the collective calls of a step | learner ranks | the calls match; the steps are common |
| Episode sharing (`ReplayMemory/DataCoordinator.*`) | list of complete episodes, next destination, messages and their requests | deal out, receive, send parameters | masters, learning workers | nothing lost, nothing twice |
| Ranks and communicators (`Settings/ExecutionInfo.*`) | `bIsMaster`, communicators | split, duplicate, describe the environment | all ranks | the ranks agree; set-up completes |
| Problem description (`Core/Environment.h`, `Core/StateAction.*`) | dimensions, bounds, options, scales | the calls that set them, `synchronize` | application, worker, master | masters have what the application said |
| Application interface (`Communicator.*`, `Engine.*`) | buffers, `bTrainIsOver` | `_sendState`, set-up calls | master or relay | one call at a time |
| Launcher (`Core/Launcher.*`) | directories, children, sockets | make a directory, fork, connect | file system, application | a team meets in one directory |
| Networks and learners (`Network/`, `Learners/*_train.cpp`) | workspaces of threads, errors, gradients | `load`, `forward`, `setGradient`, `backProp` | replay memory, optimizer | the gradient of every layer is complete |
| Gradient sums (`Network/Layers/Parameters.h`, `Network/Optimizer.*`) | the sum, the gradients of the threads | `prepare_update`, `reduceThreadsGrad`, `apply_update` | threads, learner ranks | every thread's gradient is in every parameter |
| Policies, advantages, objectives (`Math/`, `Learners/`) | none | probability, divergence, value, `grad`, `setGradient` | networks, learners | what is passed back is the derivative of what was computed |
| Optimizers' arithmetic (`Network/Optimizer.cpp`, `CMA_Optimizer.cpp`) | moments, covariance | `step` | training loop | -- |
| Settings, statistics, bindings | files, options | I/O | operating system | -- |

### What is hard to test here

- Check-then-act at the gate: a thread passes on a counter that it increases only
  after it has stored the state (`Learner.cpp:102`, `MemoryBuffer.cpp:101`).
- Pushing against sorting, removing, sampling and saving; some readers take
  `dataset_mutex`, others do not (`MemoryBuffer.cpp:298`, `Sampling.cpp:102`).
- Collective calls that each rank makes when *its own* data allow it
  (`Learner.cpp:47-123`), and reductions that are begun in one step and read in
  another (`DelayedReductor.cpp`).
- The end: threads at the gate, in a receive, or in the kill protocol
  (`Master.cpp:88-145`).
- Crashes between the files of a checkpoint (`MemoryBuffer.cpp:295-323`), and
  restarts of which each rank decides alone.
- Arithmetic that each rank does alone and on which blocking exchanges rely
  (`ExecutionInfo.cpp:172-207`); descriptions of a problem in calls of any order
  (`Environment.h:84-97`).
- Gates that look at counters which another thread resets (`CMALearner.cpp:153`,
  `PPO.cpp:57`).
- Workspaces that are used again for the next sample, and errors that come to a layer
  from several sides (`Network.h:175`, `ThreadContext.h:81`).
- Gradients that are written by hand next to what they are gradients of, for every kind
  of layer, policy, advantage and learner (`RACER_common.cpp:29`).
- Threads that add to one vector without a lock, each in a slice of its own
  (`Parameters.h:77`).
- Networks that are saved apart from the replay memory, file by file
  (`Learner_approximator.cpp:139`).

`PROJECT.json` lists these hazards at their lines, with the properties that look at
them, and those that no property covers with the reason.

## 2. Modules

| Module | What it is | Code |
|---|---|---|
| `LearnerLoop` | one learner rank: main loop, master threads, gates, pruning, save, crash, restart | `Worker.cpp`, `Learner.cpp`, `Master.cpp`, `MemoryBuffer.cpp`, `MemoryProcessing.cpp` |
| `MasterComm` | master threads and applications, message by message | `Master.*`, `Communicator.cpp`, `Agent.h` |
| `EnvRPC` | *abstract*: a remote call of an application, and closing | `Communicator::_sendState` |
| `SocketRelay` | relay of a worker rank between its application and the master | `Worker.cpp`, `SocketsLib.h` |
| `DelayedReductor` | non-blocking reduction, used by name in `LearnerGroup` | `DelayedReductor.*` |
| `ResultLog` | *abstract*: one sequence of results that each rank reads in order | |
| `LearnerGroup` | several learner ranks; two instances of `DelayedReductor`; sharing of episodes, workers that learn and their parameters | `Learner.cpp`, `MemoryProcessing.cpp`, `Optimizer.*`, `DataCoordinator.cpp`, `ParameterBlob.h` |
| `OnPolicy` | the tasks and gates of PPO and CMA; extends `Population` | `PPO.cpp`, `CMALearner.*`, `AlgoFactory.cpp` |
| `Population` | the weight vectors of CMA on one learner rank: slices that are drawn here, gathers of the others' | `CMA_Optimizer.*` |
| `Replay` | the samplers against pushes, training threads and removal | `Sampling.*`, `MiniBatch.h`, `MemoryProcessing.cpp`, `Episode.h` |
| `BackPass` | one batch of gradients: what `Train` asks for, and the way back through networks, steps and samples | `Learner_approximator.cpp`, `Approximator.*`, `ThreadContext.h`, `Network.*`, `Layers/`, `Learners/` |
| `Nonlinearities` | numbers with their rates of change, and the functions that networks apply to them | `Functions.h` |
| `NetworkLayers` | what each kind of layer computes and passes back; extends `Nonlinearities` | `Layers.h`, `Layer_Base.h`, `Layer_LSTM.h`, `Layer_GRU.h`, `Layer_Conv2D.h` |
| `Policies` | policies: probabilities, divergences, sampling, gradients; extends `NetworkLayers` | `Continuous_policy.h`, `Discrete_policy.h` |
| `Advantages` | advantages, their variance and gradients; extends `Policies` | `Discrete_advantage.h`, `Gaus_advantage.h`, `Quadratic_*.h` |
| `Objectives` | what each learner tells its outputs to change by, the layout of outputs and what they start from, values that are stored; extends `Advantages` | `RACER_*.cpp`, `DQN.cpp`, `NAF.cpp`, `PPO_*.cpp`, `DPG.cpp`, `MixedPG.cpp`, `ACER.cpp`, `StateAction.h` |
| `Storage` | where a network keeps its numbers: layers that `Builder` stacks, their weights in one array, their cells at one step, the file; extends `NetworkLayers` | `Builder.cpp`, `Layers/*.h`, `Network.*`, `Conv2Dfactory.h` |
| `Parameters` | the threads add up their gradients, slice by slice; extended by `BackPass` | `Parameters.h`, `Optimizer.cpp` |
| `Checkpoint` | push, remove, save, copy, crash, restart at the grain of single counters and files; the networks' files too | `MemoryBuffer.cpp`, `Episode.cpp`, `FunctionUtilities.h`, `Learner_approximator.cpp`, `Network.cpp`, `Optimizer.cpp` |
| `Description` | the calls that describe a problem, the order of its fields, agents and action labels | `Communicator.cpp`, `Environment.h`, `StateAction.*` |
| `Episodes` | what an agent does becomes an episode: its messages, what is stored of it, the returns, the packed episode; extends `Description` | `Agent.h`, `MemoryBuffer.cpp`, `MemoryProcessing.cpp`, `Episode.*` |
| `RankSetup` | from mpirun to the first state: arrangement of the ranks, directories, forks and sockets, exchange of the description; extends `Episodes` | `ExecutionInfo.cpp`, `Worker.cpp`, `Launcher.cpp`, `SocketsLib.h` |
| `LearnerLoop_proofs`, `OnPolicy_proofs`, `Replay_proofs` | theorems about the module of that name | |
| `Ranks_proofs` | theorems about `MasterComm` and `LearnerGroup`: ranks that work together | |
| `Episodes_proofs` | theorems about `Description` and `Episodes`: labels, buffers, returns and lives of any size | |
| `Startup_proofs` | theorems about `RankSetup` and `Checkpoint`: how a run comes up, and from what it restarts; extends `Episodes_proofs` | |
| `Exchanges_proofs` | theorems about `DelayedReductor`, `SocketRelay` and `Parameters` | |
| `FiniteSums` | lemmas about sums over finite sets, for the proofs | |
| `MCLearnerLoop`, `MCLearnerGroup`, `MCRankSetup`, `MCReplay`, `MCBackPass` | instances for TLC | |

The other modules are run directly: their constants are numbers or sets in the
`.cfg`. The operators called "Mutant of X" are plausible errors in X; they are used
by nothing and document what each property can see.

### State and actions against the code

**LearnerLoop.** The counters are those of `ReplayCounters`; an episode is its number
of transitions, so that the data set is a bag of lengths. The main thread goes
through `stepInit`, `stepMain`, `removeBackEpisode`/`removalDone` (under
`dataset_mutex`), `logStats` (which saves), `stepComplete` and `isOver`, for each
learner in turn. A handler goes through `Receive`, `PassGate` or `ExitAtGate`,
`storeState`, `storeAction` or `terminateCurrentEpisode`, `pushBackEpisode`, the two
seen-counters and `Reply`. These are the places where another thread may come
between; nothing in between two of them is shared. Which episode is at the back
after the sort is left open (the filters of `getERfilterAlgo` differ), the reduction
of the gradients may be late (`stepComplete(FALSE)`). `logStats` saves at one moment
here; `Checkpoint` takes the save apart. `CrashAndRestart` may strike anywhere.

**MasterComm.** `reqs`, `dataState`, `dataAction` are the request and the buffers of a
caller, `pc`, `current`, `k` the place of a master thread in
`waitForStateActionCallers` and `sendKillMsgs`. Over MPI a test returns at once
(`TestCommFails`), over sockets `recv` waits for the caller whose turn it is. The
learners are reduced to opening and closing the gate and ending the training.

**SocketRelay.** The same for the relay: `SOCKET_Test` on its one client,
`MPI_Isend`/`MPI_Irecv` with the master, `SOCKET_Bsend` of the answer; an application
that sends to a relay that has left its loop aborts (`app = "lost"`).

**DelayedReductor, LearnerGroup.** A contribution to a reduction is the *place* in the
algorithm that it comes from, and the result of the n-th call is the function of the
n-th contributions of all ranks. "The calls match" is then a statement about data:
no rank's contribution from one place is reduced with another's from elsewhere. Data
take the steps of three kinds of threads. A thread of the master plays an episode
(`Gather`), puts it in the list of the coordinator or in the data set (`addComplete`), and
then counts it (`increaseLocalSeenSteps`); `ended` and `uncounted` are the threads in
between. The coordinator thread of each rank (`cpc`) takes the list under its mutex and
deals it out, one episode at a time (`lockQueue`, `distributePendingEpisodes`): it keeps
the episode or waits for its last message to that rank to leave the buffer
(`sharingReq`) and sends it. Then it looks for a message of another rank
(`mastersRecvEpisodes`), stores what it got (`storeReceived`), and, with
`learnersOnWorkers`, tests the gate and looks for an episode of a worker
(`dataAcquisitionIsLocked`, `recvWorkersEpisode`), counts it, stores it or passes it on
(`countWorkersEpisode`, `shareWorkersEpisode`), and polls the gate until it may send the
parameters that the worker waits for (`sendParams`). MPI takes a message from the buffer
at any time (`sendCompletes`). The environments are taken to have a thread each, which
allows more orders than a thread for several of them. An environment has one agent here,
so that every episode ends with the request.

**OnPolicy.** A handler passes the gate (`Gate`), answers a state (`selectAction`) or
ends an episode, which CMA counts (`processTerminal`) before it is stored
(`terminateCurrentEpisode`). The main thread sums what was played with each vector
(`stepMainCMA`), resets it (`resetLoss`), or counts batches and epochs
(`stepComplete` of PPO), and empties the data set (`clearAll`). In CMA the optimizer then
draws this rank's slice of every vector for the next generation (`apply_update`), and
`stepComplete` begins the gathers; the handler that first uses a vector waits for its gather
(`getWeights` of `Population`, in `selectAction`). What is known of a parameter is the
generation that it was drawn for; the other ranks are there in what a gather brings. CMA also removes old
episodes (`applyEpisodesRemovalAlgo`; all of its episodes are one transition long, so that
their number is what counts); its gate may open before `clearAll`. PPO removes none.

**Replay.** A push moves two counters one after the other; the main thread reads them in
the order of each sampler (`prepare`, `fill`, `sample`), without the mutex, and maps
draws to steps by the prefix sums of the vector as it is then (`IDtoSeqStep`). Threads
update importance weights (`readImpW`, `updateImpW`); fractions of far-policy steps are
counted in whole units of `1 / (nsteps * ndata)`, so that the mixture of both
denominators in the code is exact here. `fill` may write past the end of an array; the
behaviour then ends (`overrun`) or goes on with what there is. A draw is any set of
distinct entries: which of them are likely is numerical.

**BackPass.** An error is the number of paths by which it was reached: a gradient that
`Train` places counts one, and a layer passes on what it has. `Train` is the sequence of
calls that it makes for a sample (`forward`, `setAddedInput`, `setGradient`, ...) and
the thread takes them one at a time, with its own workspaces of each network
(`ThreadContext`), which keep what the sample before has left. Every learner and its
networks are taken from its constructor, the layers from `Builder` and `Approximator`.
When the batch is over the threads add up their gradients, one network's, by the
actions of `Parameters`: an addition is a read and a write (`Read`, `Store`), and an
element of the sum is the set of threads whose gradient is in it, so that a lost addition
shows. Which threads have one is what the batch has left (`Trained`).

**Nonlinearities to Objectives.** These have no state: they are the arithmetic that
`BackPass` counts paths of. The code computes each quantity and, by hand, its derivative;
what can be wrong is that the two do not belong together. A number is therefore a pair, of
a value and of the rate at which it changes, and every operation carries the rate along,
so that the rate of what the code computes can be compared with what its `backward`,
`grad` or `Train` says. Values are residues modulo a prime, in which TLC computes exactly:
sums, products, quotients and powers obey the laws of real numbers, an identity of formulas
that holds for the reals holds here, and one that fails is seen at nearly every point that
is tried. The order of numbers is that of the residues between `-Half` and `Half`, which
agrees with no arithmetic but decides branches (clipping, far samples, the sign of an
error) consistently, so that all of them are tried. The exponential is a power of two, the
root is the one that is a square, and the points are those for which it exists. What this
cannot see is rounding, overflow and how fast anything grows.

**Storage.** `BackPass` speaks of layers and `NetworkLayers` of their weights as rows and
columns; here they are addresses in one array, padded to vectors of `width` values and then
to equal shares of the ranks. Each class of layer asks for weights, biases and cells, and
indexes them with strides of its own, once more in `initialize`, `save` and `restart`. The
addresses that one of these touches are a set or a sequence, so that those of another can be
compared with them. The file has no padding; a number is an integer, of which a float keeps
the even part, and every parameter that `forward` reads is given an odd one of its own.
`Activation` is the cells of all layers: a vector of inputs, or of errors of the outputs, is
spread over the layers that are marked, in their order.

**Checkpoint.** One learner, two threads that push, a main thread that removes and
saves: each counter read and each file is a step, and a crash can come between any
two. A data file is the sequence of episodes in it. The files of the networks come before
those of the memory, one by one: each is written under the name of its backup and then
copied (`OpenParams`, `FillParams`, `CopyScaling`); a vector of parameters is the number of
updates that have been made to it. The target weights, whose file may be missing, are
left out. `NDEBUG` says whether `assert` is compiled in: a status file that is empty stops
a debug build, and makes a release build start from the first step. The other modules
keep to what both builds do. `LearnerGroup` removes no episodes.

**Description, RankSetup.** The application makes calls in any order (`Call`), after it has
given the dimensions; each may be refused, which ends the run. The two splitting
functions are as they are written, each rank for itself; then come the splits, the
duplicate for masters without workers, the cutting of teams, the directory of each team
(`LookForDir`, `MakeDir`, `EnterDir`) or the forks and their sockets (`Fork`, `Bind`,
`SOCKET_clientConnect`, `SOCKET_serverConnect`), and the exchange of the description,
field by field: `HostRecv` from a child, `MasterRecv` from a worker, `RelaySend` from
master to master. A collective call is left with the last rank that enters. A send
returns when it is received, which is what a program may rely on. The removal of the old
name of a socket and its binding are one step.

**Episodes.** A step of an agent is a function of the application's agent, the master's
and the episode: `update` and `packStateMsg` at one end, `unpackStateMsg`, `storeState`
and `storeAction` or `terminateCurrentEpisode` at the other, and the answer. A buffer is a
sequence of cells, one for a number; the numbers of a state, an action or a policy are all
different, so that a cell read at the wrong place shows. Learners differ in the length of
their policy, in whether they keep the values of a critic, and in how they estimate
returns. Rewards are not scaled, and the discounts are whole numbers (`gamma = 2`,
`lambda = 3`): an estimate is a polynomial in them, and one that is wrong at these numbers
is wrong. `retraceExplore`, which needs the entropy of the policy, is left out, and the
status `FAIL`, which no call of an application gives. Agents that are not tracked, of which
only the last state is kept, are there.

### Abstract specifications

- `MasterComm` implements `EnvRPC` (`ImplementsRPC`): whatever happens in buffers and
  requests, an application sees calls that are answered once and a closing that is
  announced to all callers of a thread. The refinement maps `closing` to the threads
  in the second half of the kill protocol.
- `DelayedReductor` implements `ResultLog` (`ImplementsLog`): there is one sequence of
  results, and every rank reads it in order without leaving any out. The log is the
  sequence of rounds that all ranks have contributed to.

## 3. Runs

| Run | Question | Bounds |
|---|---|---|
| `LearnerLoop_safety` | gates, floor of the data set, steps backed by data, accounting of transitions, across a restart | 2 environments, 2 threads, 4 observations, episodes of up to 2 transitions, 1 crash, 3/2 observations a step |
| `LearnerLoop_learners` | end of training and of evaluation | 2 agents with a learner each, 4 observations |
| `MasterComm_shutdown` | kill protocol, refinement, end | 3 applications, 2 threads, 2 agents; MPI and sockets |
| `SocketRelay_safety` | relay in lockstep, kill last | one application, `SockCap = 3` |
| `SocketRelay_status` | **violated**, see section 6 | |
| `DelayedReductor_three` | matched calls, refinement | 3 ranks, 3 rounds, 2 values |
| `LearnerGroup_training` | lockstep, matched collectives, ratio, no episode lost or stored twice, end of training | 2 ranks with 2+1 or 1+0 environments, 1+1 or 1+0 with workers that learn, 3 observations each |
| `OnPolicy_generations` | populations evaluated, vectors whole when used, data bounded, ratio, gates alternate | 2 environments of 2 agents, 2 vectors of 4 parameters over 4 ranks, rank 1 seen; CMA: 2 generations; PPO: horizon 4, episodes of up to 3 transitions, 9 steps |
| `Replay_sampling` | samples exist and are what their index stands for, far-policy counts, enough to draw | 4 samplers, 1 thread that pushes 3 episodes of up to 2 transitions, batch of 2, 2 steps |
| `BackPass_gradients` | gradients complete, added inputs given, workspaces kept apart, none lost in the sum; derivatives belong to their functions; parameters and cells are kept apart and come back from files | 7 learners, plain, RNN and LSTM, encoder, convolution, batches of 1, 2 and 4, one and two threads, window of one step back; 5 parameters in vectors of 2; numbers modulo 1019, up to 1000 vectors of outputs |
| `Checkpoint_safety` | counters, backups, lost observations, lost updates, restart | 4 pushes, 3 steps, 2 crashes, 2 threads, 2 files of parameters |
| `RankSetup_shapes` | agreement, description, directories, agents and their episodes, completion | up to 3 masters, 4 workers, teams of 2, 2 forked environments, `MaxDim = 2`, 2 calls of the application; of every agent that can be described, two episodes of up to 3 steps |

Why these are enough: every interaction modelled is between the main thread and a
handler, between two handlers, or between two ranks, and the instances have two of
each (three where an order of three can matter: callers of a thread, ranks of a
reduction, the masters that share a description). `MaxSeen` leaves room for the data of
the start, for two steps and for one observation per thread beyond the gate;
`NObsB4Start` and `MaxTotObs` are such that episodes are removed. `LearnerLoop_safety`
has a ratio that is no integer, because rounding is where the saved step and the saved
data could part; its two environments, each with its thread, are interchangeable
(`Swap`), and no run with a temporal property uses symmetry. `OnPolicy` takes PPO through
two horizons of four one-sample batches, and CMA through two generations, so that the
episodes that began before `clearAll` and end after it are there in both. Four parameters
over four ranks with vector instructions of two leave the last two ranks without a
parameter, so that their counts are negative and wrap at `UintRange`. In `LearnerGroup`
a rank that owns the one environment deals its episodes to itself and to a rank without
any, while threads add to its list and the other looks for what it is sent; more ranks and
owners, whose turns cross, are for the theorem about any number of them. The statistics of
the states are reduced in every third step, so that there are steps with and without them.
`Replay` has a push in every place between the reads of `prepare`, of `sample` and of the removal, and a
data set that is pruned in both steps. In `BackPass` one step back and one ahead, with
two layers in each network and an encoder below, is the least in which an error comes
to a layer from above, from later, from an added sample and from another network; the
threads of two weight vectors find workspaces by the number of the sample. Five
parameters for two threads and vectors of two make slices of four and one, so that a share
rounded down leaves one out. `NumbersBehindPaths` is evaluated before the first batch of
each learner, for what that learner is made of: an identity of rational functions that is
false is true at one point in some hundreds, and each is tried at tens of points, with one
and two dimensions, every kind of component, near and far samples, and with ReF-ER or
without. A part of it, `NumbersStored`, does not depend on the learner and is evaluated with
one of them: networks of one and two hidden layers of each type, growing and shrinking,
behind an image (with and without a matrix library) and glued to further inputs, with
parameters at the end or with no output layer; vectors of two and of four values, also one
in the build that saves and the other in the build that restarts; one, two and three ranks. `Checkpoint` has two files of parameters, the least of which
one can be new and the other old, and a second crash after the restart from the first.
`RankSetup`
has all shapes in which groups are full, partly full and empty; two dimensions are the
least in which a vector can be cut short or two labels be confused, and any two calls
(of states, actions, agents, descriptors) can come in either order.

`TransitionsAccounted` speaks of the counters as they are kept: `logStats` of
`LearnerLoop` reads them all at one moment, which would hide what a save in the middle
of a push does. `Checkpoint` has that save, and states what is true of it
(`EpisodesCounted`, `ObservationsSaved`): files may announce other numbers than they
hold, never in a way that a restart cannot read.

The type invariants of the modules with proofs are proved as they stand or as a part of
the inductive invariant (section 4), and are not run again; that of `RankSetup` holds in
its run and is left in the module. The same goes for `OneMessage`
and `ActionsMatch` (every answer is that of its own call) of `MasterComm` and
`ReadsOneRound` of `DelayedReductor`, which are proved.

`CHECK_DEADLOCK FALSE` is set where the system may stop: `LearnerGroup`, `OnPolicy`,
`Replay` and `Checkpoint` at their bounds, `BackPass` at the end of the batch, `RankSetup`
outside the arrangements that are supported; `SocketRelay` when all applications are gone.

### Fairness

- Threads are not starved (weak fairness of the main loop, of every handler, of every
  application): they are operating system threads, and applications that compute.
- A reduction that all ranks have called completes, and a test that is made again and
  again finds it (`SF` of `stepComplete(TRUE)`): progress of MPI.
- A thread polls its callers in turn, so that an environment whose state is ready is
  served (`SF` of `Receive` in `LearnerLoop`, where polling is abstract).
- A thread that polls an open gate gets through if the gate is opened again and again
  (`SF` of `PassGate`): the polling interval is much shorter than a gradient step.
- `LearnerGroup`: as above for the main loop, the threads and the coordinator of each
  rank, and an episode that a worker has sent is found by some probe
  (`SF` of `recvWorkersEpisode(TRUE)`): the coordinator probes again and again.
- `OnPolicy`: environments go on playing and the main loop goes on.
- `RankSetup`: while ranks can go on some rank does.

Nothing is assumed of the applications' episodes (they may go on or end), of which
ranks are fast, or of the order in which threads get the mutex.

## 4. Proofs

### LearnerLoop

`LearnerLoop_proofs` is about `Spec` of `LearnerLoop` for every number of
environments, agents, learners, threads, observations and crashes that
`LoopAssumption` allows. `LoopAssumption` says of the parameters what the settings
enforce: every thread has an environment, a learner for all agents or one for each,
`minTotObsNum <= maxTotObsNum`, positive ratio denominators and frequencies, and a
value `LongMax` that is more than what training waits for. The environments are finitely
many, of which only `TransitionsAccounted` makes use.

| Theorem | Statement |
|---|---|
| `TypeCorrect` | `Spec => []TypeOK` |
| `Inductive` | `Spec => []IInv` |
| `DataSetFloorHolds` | `Spec => []DataSetFloor` |
| `GradientsBackedHolds` | `Spec => []GradientsBackedByData` |
| `AcquisitionBoundedHolds` | `Spec => []AcquisitionBounded` |
| `TransitionsAccountedHolds` | `Spec => []TransitionsAccounted` |

`DataSetFloor` and `GradientsBackedByData` are not inductive. `IInv` adds to them

- `HandlerInv`: what a handler holds is its own (the threads' shares are disjoint,
  `ServedApart`), so that the episode it will push is still there;
- `StepInv`: between the test of `blockGradientUpdates` and the completion of the step
  the step stays backed by data. The tested counter only grows, except at a crash,
  which also forgets the step;
- `SavedInv`: the files hold a state from which all of this holds: the step that was
  saved ahead is one that was tested. Without it a restart would end the argument;
- `EvaluationInv`: an evaluation never runs a learner's tasks.

The proof has one step per action; `Quiet` states once what an action must not
disturb, so that most of them are a line. The floor under removal needs
`NObsB4Start <= MaxTotObs` and the test that leaves the last episode out.

`AcquisitionBounded` says that of the learners (whose gates must all be closed to stop
a thread) one is within its quota of observations plus one per thread. The argument is
that a thread has at most one state between gate and counter: `InFlight(l)` is the set
of these threads, and `Excess(l)`, the observations ahead plus these threads less all
threads, never grows but when some learner's gate is open (`AcquisitionStep`).

`TransitionsAccounted` equates sums over lengths, agents and threads. `Accounts` writes
the sums over the threads as one, of what each owes to the counters (`Debt`), so that
every action changes one summand of one sum or two (`SumChange` of `FiniteSums`). It needs
`EpisodeInv`: a state in the hands of a thread may follow the last one of its agent, and
an episode on its way to the data set has a length. What is written to the files has to
be described by the counters written with it (`SavedDescribed`), or a restart would lose
the account.

### DelayedReductor

In `Exchanges_proofs`, about `Spec` of `DelayedReductor` for every non-empty set of
ranks (`ReductorAssumption`), every set of values and every number of rounds; that the
values and ranks are finite is not used.

| Theorem | Statement |
|---|---|
| `TypeCorrect` | `Spec => []TypeOK` |
| `Inductive` | `Spec => []IInv` |
| `CallsMatchedHolds` | `Spec => []CallsMatched` |
| `ReadsOneRoundHolds` | `Spec => []ReadsOneRound` |
| `Refinement` | `Spec => ImplementsLog` |

`IInv` adds `PendingIsReal` to the three invariants: a pending request stands for a
contribution, and a single rank never has one. The argument rests on `CallsMatched`: ranks
are at most one contribution apart, so that the rounds a rank has been shown are complete
(`ShownIsComplete`) and a contribution changes none of them (`ResultKept`). For the
refinement the log is the sequence of the rounds that all ranks have contributed to; the
least number of contributions is that of any one rank or the one before
(`LeastContribution`), which gives the length of the log without an induction over the
ranks. A call of `update` leaves the log as it is or adds one result (`LogGrows`), and a
rank that can read one more reads the next of the log (`ReadsNext`).

### MasterComm

In `Ranks_proofs`, about `masterSpec` for every number of environments, threads and agents,
over MPI and over sockets.

| Theorem | Statement |
|---|---|
| `TypeCorrect` | `masterSpec => [](masterTypeOK /\ InShare)` |
| `Inductive` | `masterSpec => []IInv` |
| `OneMessageHolds`, `KillProtocolHolds`, `ActionsMatchHolds` | `masterSpec => []OneMessage`, `[]KillProtocol`, `[]ActionsMatch` |
| `SafeRefinement` | `masterSpec => RPC!Init /\ [][RPC!Next]_<<app, closingNow>>` |

None of the three invariants is inductive. `IInv` says of every call that it is in one
place: with the application, on the way to the master, in the buffer of the request, in the
hands of the thread that owns the caller (`Held`), on the way back, or ended by the kill.
Which thread owns a caller is arithmetic: shares are rounded up and the last are cut short,
and `ShareOfHandler` and `HandlerOfClient` show that they are a partition. A thread then
touches the calls of its own callers only (`OtherCalls`), and each of its actions has a
lemma that says where it moves a call. The refinement is that of the initial condition
and of every step; the fairness of `EnvRPC` stays with the run.

### SocketRelay

In `Exchanges_proofs`: `Lockstep` and `KillComesLast` (`relaySpec => []RelayLockstep`,
`relaySpec => []KillIsLast`) hold for every capacity of the socket; both are inductive
beside `relayTypeOK` (`RelayTypeCorrect`). They are about one application, its relay and
its master, which is what a worker has: `figureOutWorkersPattern` asserts that it owns one
environment. In which order a relay would poll several is not modelled.

### LearnerGroup

In `Ranks_proofs`.

| Theorem | Statement |
|---|---|
| `LockstepHolds` | `Spec => []StepsInLockstep` |
| `CollectivesMatchHolds` | `SameSteps => (Spec => []CollectivesMatch)` |
| `GlobalRatioHolds` | `SameSteps => (Spec => []GlobalRatio)` |
| `EpisodesDealtHolds` | `NoneRestarted => (Spec => []EpisodesDealt)` |

`StepInv` says how many gradient reductions a rank has begun, from its number of steps and
its place in the loop, and that no rank has completed one that another has not begun. This
needs no assumption on where the ranks restart. `CallsInv` does: it gives the place of the
algorithm from which the *i*-th call of each kind is made (`CounterPlace`, `StatPlace`),
the same for all ranks only if they restart at the same step (`SameSteps`); section 6
tells why they may not. In every arrangement some rank has environments, which
`GroupAssumption` states because the launcher asserts it (`Launcher.cpp:101`).

`GlobalRatio` is a sum of what each rank's gate lets it do: `ShareBacked` says that the
gradients a rank has handed over last were those of a step that its own share of the data
backed. Lockstep turns that into a statement about the steps of all, and the shares add up
to the whole because every rank's share is its part of the environments (`SumScale`). It
is false without `SameSteps`: a rank that restarts behind the others could take steps that
their data do not back.

`EpisodesDealt` has two parts. That nothing is lost or stored twice is a sum over all ranks
and all places where an episode can be: `Waiting` (in a list, or in the hands of a
coordinator that has counted it), `Dealt` (on its way to a rank, received there, or stored)
and `Counted`. No step of one thread changes more than one place of each: `NextPlaces` says
that a step leaves them alone (`Stays`), puts an episode into one rank's list or data set as
it is counted (`Enters`), or takes one from the list of a rank to the rank whose turn it is
(`Passes`), and `NoneLost` follows. For this the list of a coordinator must not be empty when
it takes from it, and a rank without environments has nothing to deal (`CoordinatorOf`).

The second part is about who gets the next episode. `RoundsInv` says that there is a table
of what each rank has dealt to each, every row of which is one turn after another
(`EvenRow`): those before the next destination have one more. Its columns are what the ranks
have been given, so two ranks differ by one for each rank that deals
(`AtMostOnePerOwner`). This does not speak of ranks that come back from a restart with data
of their own, which nobody has dealt to them (`NoneRestarted`).

### OnPolicy

`TypeCorrect` includes the counts that the code asserts (an agent does not start or end
twice in an episode). `StoredIsBounded` (`Spec => []StoredBounded`) rests on
`RoomForPast`: what is stored and one episode for each handler that is past the gate never
come to the quota and one episode for each environment. A handler that passes the gate
has seen less than the quota, which is what makes room for all (`BelowQuota`).

`DrawnByAll` is that in every vector that is not being gathered all parameters are of the
current generation, those that this rank drew and those that came from the others, unless
the main thread is between `apply_update` and the gathers. It holds for every number of
parameters, ranks and vectors, and for every width of vector instructions that
`PopulationAssumption` allows. It needs that the slices of the ranks are a partition
(`SlicesPartition`), where a count that wraps gives an empty slice because the end of the
loop wraps back (`StrideFacts`, `DrawnIsSent`), and the invariant `Vectors`: a vector that
is still being gathered has this rank's slice already.

| Theorem | Statement |
|---|---|
| `StoredIsBounded` | `Spec => []StoredBounded` |
| `GradientsBackedHolds` | `Spec => []GradientsBacked` |
| `EverySampleEvaluatedHolds` | `Spec => []EverySampleEvaluated` |
| `SamplesWholeHolds` | `Cardinality(Envs) > 1 \/ BatchSize > 1 => (Spec => []SamplesWhole)` |

`GradientsBacked`: `PPOInv` says where PPO is (`Backed(k, j)`): *k* horizons have been used,
*j* batches of this epoch have been taken, and what was seen is *k* horizons, what is stored
and what is under way. The rest is arithmetic of the roundings (`HorizonFacts`).

`EverySampleEvaluated` is the deepest of them. Vectors are handed out in turn, but
environments keep theirs for one episode of each of their agents, and a slow one may take a
generation for it. `PopInv` bounds what the others can have stored meanwhile: for a vector that
is not evaluated yet, the episodes that are stored or under way with other vectors are not more than
the turns since it was handed out, times the agents (`Accounted`). A generation asks for more than
that. Two facts carry it over the end of a generation: a vector that was handed out last is
still with its environment (`Rotation`), and the environment whose episode ended the
generation does not go on until the data set is emptied (`Closed`).

`SamplesWhole` adds to `DrawnByAll` that no gather is pending when the vectors are drawn again.
Like `DrawnByAll` it leaves out the time of the drawing, in which a thread that has passed the
gate may use a vector that is half drawn (section 6).
`AllUsed` bounds the episodes that can be played without a vector whose gather nobody has
waited for, by the turns since it was handed out. The hypothesis is needed: with one environment
and a batch of one TLC finds a behaviour in which it fails (section 6).

### Parameters

In `Exchanges_proofs`: `GradientsSummedHolds` (`gradSpec => []GradientsSummed`) holds for any numbers of threads,
of parameters and of parameters in a vector instruction. `GradInductive` keeps three facts: the
threads are in the same turn (`Together`, which the barrier provides), each is in its slice
(`Placed`), and a parameter has the gradient of a thread if and only if that thread has
passed it (`SumInv`). That no other thread is at the same parameter follows from
arithmetic: slices of the same turn differ (`SlicesDiffer`) and different slices have
nothing in common (`SlicesApart`). That nothing is left out needs the rounding up
(`ShareCovers`, `SlicesCover`) and that a thread gets to every slice (`Turns`). The
steps of `BackPass` are steps of `gradSpec` or leave its variables alone.

### RankSetup

In `Startup_proofs`, for every number of masters and workers and every size of a team.

| Theorem | Statement |
|---|---|
| `OneMasterHolds` | `setupSpec => []OneMasterPerGroup` |
| `TeamsInOneDirectoryHolds` | `setupSpec => []TeamsInOneDirectory` |
| `DirectoriesAreNew` | `setupSpec => [][\A r \in World : shape.nMasters = 1 /\ MakeDir(r) => dirOf(r, dirIter[r]) \notin dirs]_setupVars` |
| `DescribedInductive` | `setupSpec => []DescribedInv` |
| `MastersDescribedHolds` | `setupSpec => []MastersDescribed` |
| `SpacesInductive` | `setupSpec => [](DescribedInv /\ SpacesTyped(asked))` |
| `EpisodesAsPlayedHolds` | `setupSpec => []EpisodesAsPlayed` |

What each rank finds out alone has to fit together. The ranks of group *i* are those from
`FirstRank(i)`, its number and the workers of the groups before, up to where the next group
begins (`CountedUp`): the code adds the shares up in a loop, and the shares, rounded up and
the last cut short, come to all workers (`ShareIsEnough`). So the ranges are disjoint and
cover the world, each rank is in one group, the lowest of which is its master, and the
masters are as many as the groups (`GroupOf`, `SplitsRight`). `GroupsInv` says that the
communicators of every rank are those of its group from the moment it has split.

`TeamsInOneDirectory` is not inductive. With one master `TeamsInv` says of a team that every
number below that of a rank that is looking was taken (`Looking`); that ranks that wait have
found the least free one, until one of the team makes it, which it does when all wait
(`FoundFree`, `Made`); and that a team is either all before its directory or all in it
(`Entered`). Two ranks that looked at different times agree since nobody of another team
makes a directory under their number (`TeamsApart`), and none of their own before all
wait.

`MastersDescribed` compares two descriptions at the end of an exchange in which they are
never the same: the application's has been filled in and its bounds ordered as far as it was
sent, the master's is what it had been made with, further on. `DescribedInv` says that there
is one course, the descriptions that the application's becomes field by field
(`Course`), and that every rank is somewhere on it: a rank that runs the application has the
description of its own field (`FollowsRun`), a forked application that of the field its host
will read next, and any other rank agrees with the course in all fields that it has got
(`Follows`, `Same`), whatever else it holds. That two ranks exchange the same field needs
that a worker is one field ahead of its master just when that has heard it (`InStep`), and
the other masters one ahead of the first when they have been told (`InStepMasters`), which in
turn needs that communicators number their members without gaps (`RankOfIs`). The lemmas
about one field (`StoredSame`, `AdvancedSame`) hold for any description of any number of
agents and dimensions: what is received makes the field equal, and what is put in for the
next field, or found wrong with this one, depends on the fields before alone. The
calls of the application are in the proof too: whatever was called, in whatever order,
leaves a description with its fields and a descriptor (`CallKeeps`). A
master that nobody sends anything dies at its fourth field (`LeavesStarved`). TLC has
checked `DescribedInv` on worlds of up to three masters or three workers before.

`EpisodesAsPlayed` joins what a master was told with what it does with it. An agent can only
act in a space that makes sense: it is said of each component of a state whether it is
observed, an action has components, and discrete ones have options. No call of the application gives that, the exchange
does, where it dies of what is missing: `Accepted` says which fields of a descriptor are
in order after how many have been sent, `Sound` says it of a description on the course, and
`CourseSound` that each description of the course is sound up to its field, since what is put
in before a field is passed on settles it (`SettledSound`, `AdvancedSound`). A master that
runs is at the end of the course and agrees with it, so its agents are given such spaces
(`RunningSpaces`), and with them the theorems about episodes below give the property
(`RunningEpisodes`).

With more than one master teams of different masters have the same numbers: the
property leaves that out and section 6 tells what happens.

### Episodes

In `Episodes_proofs`, for any agent that has a space it can act in.

| Theorem | Statement |
|---|---|
| `LabelsInvert` | an action comes out of its label, for any numbers of components and of options |
| `PackedEpisodesAreRead` | an episode of any length and any dimensions comes out of its buffer as it went in |
| `ReturnsComputed` | the backward recursion of Retrace and GAE is the sum that defines the return |
| `LivesKept` | episodes are kept as they were played along a life of any number of calls |

Here the data may be of any size: the number of components of states and actions, of
observed ones among them, of options, steps of an episode, calls of a life. The recursive
functions and folds of `Description` and `Episodes` choose a function that satisfies an
equation; that there is one is shown first (`RecursionExists`, `IterationExists`), and then
what it gives, by induction over the numbers as a statement about a set of them
(`UpFromZero`), as in `FiniteSums`. `LabelsInvert` divides a label from its highest component
down: what is left is the label of the components before. `PackedEpisodesAreRead` follows a
place in a buffer through the parts it was put together from (`Joins`, `Rows`), and a component of
a state through those that are observed and those that are not (`PartsOfState`).
`ReturnsComputed` unrolls a recursion from the last step to any step before
(`RecursionUnrolled`): the weights of the sum are products along the way. `LivesKept` is an
induction over the calls of a life (`Lived`): between calls, the episode that is being played
holds what the application played since its last first state (`Building`), and the finished
ones are kept. It holds for every life whose episodes begin
with a first state and end with a last one; `EpisodesAsPlayed` names three of them. The
discounts may be any whole numbers; a ratio of whole numbers changes nothing but the
denominators.

### Checkpoint

In `Startup_proofs`.

| Theorem | Statement |
|---|---|
| `Inductive` | `Spec => []IInv` |
| `EpisodesCountedHolds`, `BackupsAgreeHolds` | `Spec => []EpisodesCounted`, `[]BackupsAgree` |
| `RestartSucceedsHolds` | `Spec => RestartSucceeds` |
| `UpdatesKeptHolds` | `Spec => []UpdatesKept` |
| `ObservationsSavedHolds` | `Spec => []ObservationsSaved` |

`IInv` is `MemInv /\ NetTyped`: who holds the mutex and how far a counter lags behind the
data set, what the backups and the files hold at each place of a save (`SaveInv`), and that
a restart reads a usable memory unless one of the files is being replaced (`LoadInv`,
`Usable`). `UpdatesKept` is not inductive: `UpdateInv` adds that the networks' files are
saved before the status that counts their updates (`SavedInOrder`), and that neither the
networks nor their files are behind that status by more than the step of the save and one
for each restart (`NotBehind`). The order of the saves is what the proof turns on.

`ObservationsSaved` compares a counter with the sum over a sequence. `ObsInv` says that
before a crash the counter of transitions is the sum but for the last episode while one is
pushed (`TransitionsCounted`), and that what a save has read of it is at least the sum of the
episodes that it has found before the last one (`CounterSaved`): it reads the counter of
episodes and that of transitions at different moments, and episodes are removed by the
thread that saves.

### Replay

`Replay_proofs` is about `Spec` for every number of master threads and of episodes, every
batch and all samplers.

| Theorem | Statement |
|---|---|
| `TypeCorrect` | `Spec => []TypeOK` |
| `DrawsInductive` | `Spec => []DrawInv` |
| `SamplesExistHolds`, `PriorityOfDrawnHolds` | `Spec => []SamplesExist`, `[]PriorityOfDrawn` |
| `FarInductive`, `FarCountedHolds` | `Spec => [](DrawInv /\ FarInv)`, `Spec => []FarCounted` |
| `EnoughToDrawHolds` | `(\A x \in Setups : ~(x[1] = "PERseq" /\ x[2])) /\ BatchSize <= maxTotObs + 2 => (Spec => []EnoughToDraw)` |

`DrawInv` is a conjunction. `SetInv`: the vector has pushed episodes only, each once and
with a step at least, and the counter of transitions is its sum, or that of all episodes but
the last while one is pushed. `SamplerInv`: what the main thread has read of a counter is
at most what the vector has, and the entries of the distribution are the first steps of the
vector in its order. `BatchInv`: the samples are steps of the vector, all different, and those of
their indices. `StepInv`: threads train only while the main thread waits. A push changes
nothing of what was read (`Grows`: the vector gets longer, and prefix sums and steps
below stay), and a removal comes when nothing read is in use. That no step is sampled
twice needs that the steps of the vector are all different and as many as the sum of the
lengths (`StepsListed`), for a definition that joins sequences of any number of episodes.

`FarInv` is what the training threads rely on: as long as `CmaxRet` is the limit that the
counts were made with, they are near those of the weights (`NearOf`), and what a thread has
read of the weight that it will change is still true, since no other thread of the batch has the
same step. `CmaxRet` changes at one moment of training and never back, which is why it is
not that of the counts again when it has moved.

`FloorInv` is that since learning began there are enough transitions for a batch, in the
data set and in what the sampler has read of it. A removal keeps `maxTotObs` transitions
or everything (`RemovalLeaves`). For `PERseq` the pairs to draw are as many as the steps
of its episodes (`PairsCounted`). The first hypothesis leaves out the sampler of section
6; the second holds because the settings make `minTotObsNum` at most `maxTotObsNum`
(`HyperParameters.cpp:191-197`) and training waits for a batch, which
`ReplayAssumption` states.

### FiniteSums

The sums of the models are folds over sets (`MapThenSumSet`, `FoldFunction`), each a
recursive function of a set that picks an element in every call. `SumFacts` is what the
other modules use: the sum over a finite set is a number, that over the empty set is 0, and
an element adds its value, whichever element the fold picks first. The library's
induction over finite sets takes an operator as its parameter, which the provers cannot
instantiate; here it is a statement about sets of numbers (`UpFromZero`), from the theorem
that the natural numbers are well-founded. `Replay_proofs` does the same for the sequences that
`FlattenSeq` joins.

### What is not proved

Only model-checked: `SetupCompletes` of `RankSetup`, `GradientsAreChainRule` and
`AddedInputGiven` of `BackPass`, which defines paths through a network by RECURSIVE
operators that the provers cannot read; `NumbersBehindPaths`, for which they have no residues and no
rates of change; all liveness, and the fairness part of `ImplementsRPC`, which are out of
the prover's reach. `EpisodesAsPlayed` is proved of the model's numbers, where states, actions
and rewards are whole numbers that the calls of an application give; rounding is not modelled.

## 5. Plan

The modules are as they were planned: each component whose correctness depends on order or
concurrency has one, parameters are constants with named assumptions, there is one action
per operation, and invariants have named parts. What is left to do:

1. The removal of episodes in `LearnerGroup`.
2. The choice of a learner and its settings (`AlgoFactory`, `HyperParameters::check`) as
   a relation: which combinations a run accepts.

## 6. What was found

Shown by a run that must fail:

- **`SocketRelay_status`.** `loopSocketsToMaster` never posts a new receive after it has
  answered a client (`Worker.cpp:332-341`): `SOCKET_Test` finds the old request
  complete, and the same state goes to the master again. The master stores an initial
  state twice, which `MemoryBuffer.cpp:72` asserts against.

The rest was seen while modelling and has no run. Where it matters to a model the
properties are stated for the arrangements in which it does not happen.

**Ranks, directories, sockets**

- With fewer workers than masters every master is given `workerless_masters_comm`, and
  those that own a worker die (`ExecutionInfo.cpp:291`, `Worker.cpp:268`). A master whose
  share of the workers is empty although there are enough (three masters, four workers:
  2+2+0) gets no such communicator and no description (`ExecutionInfo.cpp:293`);
  with no relay either it dies at `StateAction.cpp:28`. `MastersDescribed` speaks of the
  masters that get to run, and its proof shows that these never do.
- Without masters rank 0 dies (`ExecutionInfo.cpp:365-371`, where it takes one from its rank 0), although the texts at lines
  350 and 356 offer it. More masters than ranks underflow at `ExecutionInfo.cpp:211`. More
  environments than workers fail the assertion at line 311; a release build counts
  workers (line 289).
- All forking ranks of a directory use one socket name, which each removes and binds
  (`SocketsLib.h:196-213`): with `--nLearners K` (`src/bin/smarties.py:147-161`,
  `src/README.rst:221`) a child may connect to the server of another rank, and its own
  waits for ever. TLC showed it for two masters that fork one environment each.
- The groups of different masters number their teams alike, so that their roots compete for
  one simulation directory; `mkdir` and `chdir` are not checked. `workloadID` is the same
  on all ranks (`Launcher.cpp:44`), and `globalTstepCounter` is never increased, so that
  the first settings file is always taken (`Launcher.cpp:99`).
- A connection that breaks between a state and its answer aborts the process that finds it
  closed and leaves the others waiting (`SocketsLib.h:113`).

**End of training, gates, groups**

- `sendKillMsgs` sends the last answer with another status: the agent it names is not
  always the one that asks (`Master.cpp:109-115`, asserted at `Agent.h:233`).
- `isOverTraining` notices the start of training on learner rank 0 only
  (`Worker.cpp:70`); `LearnerLoop_learners` is about that rank.
- Learners that share episodes wait in `MPI_Wait` for their last message to the same rank
  (`DataCoordinator.cpp:103`, `164`), and it is the waiting thread that would receive.
  Where MPI holds a large message back until it is received, two coordinators that each
  wait for the other stay there, with all threads that add an episode behind the mutex;
  so does one that waits for a rank whose coordinator has ended. `EpisodesDealt` is about
  what is where, not about whether it arrives; no liveness property speaks of such ranks.
- With learners on workers the coordinator spins at `DataCoordinator.cpp:176` for ever when
  the main loop leaves with the gate locked, and is joined by it (`Worker.cpp:140-141`);
  the workers are not told of the end, since only masters' answers tell it. Parameters are
  sent while the weights may be updated, so that a worker can get some of each.
- A learner rank without environments sees no observations, so that its gate for gradients
  stays closed (`Learner.cpp:122` with `HyperParameters.cpp:202`) and holds up the others;
  the liveness properties of `LearnerGroup` speak of ranks that own some.
- Checkpoints of a group are written by learner rank 0 alone (`Learner.cpp:146`), and read by
  each rank under its own name (`MemoryBuffer.cpp:215`). Rank 0 then skips the initialisation that the others make, which has
  collective calls. `LockstepHolds` holds nevertheless, `CollectivesMatchHolds` needs
  `SameSteps`.
- `updateCounters` begins the new reduction before it reads the previous one
  (`MemoryProcessing.cpp:48-58`), so that it may read the new one.

**Replay memory and checkpoints**

- `prepare` reads the number of episodes and then of steps without the mutex: with a push
  in between `fill` writes past its array (`Sampling.cpp:108`, `MemoryBuffer.h:54`).
- With `PERseq` and whole episodes a batch can ask for more episodes than there are, which
  `Learner_approximator.cpp:38` does not see; and a restart returns from
  `initializeLearner` early, before the sampler has its distribution. Both loop for ever
  for batches of more than one.
- The comment on the removal of episodes speaks of `ndata()`, the code of `nsteps()`,
  one more (`MemoryProcessing.cpp:339-344`). The count of far-policy steps is asserted not
  to be more than that of stored ones, which are read later (`MemoryProcessing.cpp:62`).
  The fraction of an episode is corrected by `1/nsteps` in one place and `1/ndata` in
  another, and not at all when the limit is annealed.
- `Episode::standardizedState` takes `max((Uint) samp - j, 0)`, which underflows
  (`Episode.h:177`).
- `save` reads the counters without `dataset_mutex` (`MemoryBuffer.cpp:298-303`).
- The networks' files are replaced one by one before the long data file is written: a crash
  in between leaves networks that are newer than the memory, and an empty file of a network
  or of the scaling ends the next restart. After every restart the optimizer's count of
  steps is one ahead of the updates of the weights. An empty status file is only asserted
  against: a release build starts from step 0 with trained networks. The result of
  `AdamOptimizer::restart` is not looked at.

**Learners and networks**

- `Agent::unpackStateMsg` adds the reward of the step before to the cumulative reward
  (`Agent.h:186`), `Agent::update` that of the step: `CMALearner.cpp:57` leaves the last
  reward of an episode out. `EpisodesAsPlayed` says it of every step: the master's sum and
  the last reward are the application's. CMA also counts episodes that began with older
  weights.
- An agent that is not tracked has no average reward in the answer to its last state; the
  application reads the first number of the action in its place (`Communicator.cpp:290`).
- CMA draws its vectors anew while handlers that passed the gate before may read them
  (`CMA_Optimizer.cpp:189`, no lock). Its gathers are waited for by the threads that use a
  vector only, which is enough because every vector is used in every generation
  (`SamplesWhole`). `restart` reads the weights and draws no samples
  (`CMA_Optimizer.cpp:232`), so that the first generation after it is around the
  untrained mean.
- With one environment and a batch of one, `SamplesWhole` fails when the data set is much
  smaller than a generation: removing episodes opens the gate again before `clearAll`
  empties the data set, the environment plays on meanwhile, and a vector that was used before its
  gather was begun is not used after it. `apply_update` then draws it anew with the
  gather pending. The theorem leaves this out, and the run has two environments.
- The second half of a generation reads the noise of the first without a barrier
  (`CMA_Optimizer.cpp:190`, `201`, `nowait`), which relies on `for` and `for simd` giving
  a thread the same indices; the model draws all vectors in one step.
- A rank whose slice starts behind the last parameter has a `pCount` that wraps
  (`CMA_Optimizer.h:107`); the end of its loop wraps too, and it draws nothing.
- `StateAction.h:242` applies `atanh` to unbounded actions, and line 291 `tanh` to bounded
  ones only; `getScaled` has a path without `return`.
- `ParametricResidualLayer::backward` overwrites the error of the layer below
  (`Layers.h:372`) where the comment of `Network.h` speaks of adding; with the order of
  the layers nothing is lost, which `GradientsAreChainRule` shows.
- `ParametricResidualLayer` takes the narrower of its size and that of the layer below
  (`Layers.h:352`), whose size for LSTM and MGU counts cell states and gates too: with a
  narrower recurrent layer below, the skip reads cell states, and writes its error into the
  gates' slots.
- An LSTM or MGU layer that is an output (an encoder that ends with one) counts its states
  and gates among the outputs of the network; `Builder` is overruled by a warning
  (`Builder.cpp:152-158`). `MemoryKept` says so by what it asks for the other outputs.
- Input and join layers assert that they are the first to ask for memory
  (`Layers.h:210`, `217`, `275`, `281`), though `addInput` may come after other layers, which
  gives both: with assertions a network with glued inputs stops. `Storage` has the other build.
- The gradient of an action (`Approximator.h:207-230`) goes back through one step as if it
  were the first: for LSTM and MGU critics after the first step the terms of the gates
  that depend on the step before are missing.
- `JoinLayer` puts the newer input first, one case of `Approximator.cpp:150-168` assumes
  the state; no learner gets there. `ifMatchAddConv2D` compares the sizes crosswise, which
  is harmless for square inputs. The tests' `evalLogProbability` starts its sum at 1.
- MixedPG with recurrent networks has no added input for past steps (assertion at
  `Approximator.h:170`) and passes back through its critic twice. ACER writes its added
  vectors to the first row of an array that it reads by steps (`ThreadContext.h:67`).
  `Approximator.h:274` asserts that all steps of an added sample are computed. Such
  combinations are not in the setups of `BackPass`.
- Several weight vectors with threads that do not divide the batch, or with whole episodes,
  would share workspaces; batches smaller than the number of threads give a chunk of 0
  (`Learner_approximator.cpp:67`). For the others `GradientsAreChainRule` says that a thread finds its own.
- PPO is built with `PPO_PENALKL` (`PPO.cpp:12`) and weighs its two gradients by
  `weightSum2Grads(polG, penG, 1)` (`PPO_train.cpp:60`): all for the policy, none for the
  divergence, so that `penalCoef` is updated and has no effect (`PPOFollows`). The clipping
  looks at the sign of the return, not of the gain. The gradient goes to the actor as it
  is, without `makeNetworkGrad` (line 76), which is harmless as long as outputs start at 0.
- `Quadratic_advantage::advantageVariance` multiplies by the variance of its outer index
  where the inner one is meant (`Quadratic_advantage.h:110`), which is right only if all
  components vary alike (`AdvantagesCentred` says so); nothing calls it.
  `Quadratic_advantage::grad` asserts that it has no policy, and RACER gives it one.
- NAF weighs the gradient of the mean alone by beta, not those of value and matrix
  (`NAF.cpp:169`); its advantage takes the mean of bounded actions through a `HardSigmoid`,
  its policy does not. DPG weighs its pull on the exploration by beta as well (`DPG.cpp:74`).
- For a squashed policy the divergence takes the mean as it is, the vector that is stored
  with a step has it cut off at its bound: beyond the bound there is divergence from the
  same policy (`VectorStandsForPolicy` leaves this out).
- The parts of CMA's loss for RACER (`RACER_common.cpp:52-66`) fall along the gradient that
  RACER uses, the value by `2 (1 - alpha) min(1, avgRho)` times as fast
  (`PopulationFollows`).
- `src/README.rst:339` says of `ESpopSize` "Only compatible with (V)RACER"; PPO rounds its
  number of epochs down, to 0 if the horizon is short.

## 7. Not modelled

- **Arithmetic** of Adam and of CMA, the scaling of states and rewards, the penalty
  coefficient of PPO, the factors of MixedPG, and the random numbers that weights start
  from. Rounding, overflow and the small constants that guard against them are left out
  everywhere, and so is the second draw of a noise that is beyond its bounds
  (`sampleClippedGaussian`).
- **Contents of files**: what CMA saves, target weights, the bytes of a number. A file is
  the episodes or the number of updates in it. What is in a message or a packed episode is
  in `Episodes`; elsewhere a message is its status, learner status, agent and sender.
- **Input and output**: settings files, the command line, argument lists, redirected
  output, profiler, warnings, statistics. `Engine`'s options are assignments.
- **Bindings, applications, plotting tools, vendored headers**, among them the largest files
  of the repository (`src/apps`, `src/source/extern`): examples and other people's code.
- **Broken connections**: the code aborts on them and has no recovery to model.
- CMA under the replay learners (`ESpopSize > 1` with RACER): `OnPolicy` has CMA with its
  own learner, `LearnerLoop` one vector.
- `AlgoFactory` beyond the order of tasks, and which settings a run accepts (section 5).
