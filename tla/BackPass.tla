------------------------------ MODULE BackPass ------------------------------
(***************************************************************************)
(* One batch of gradients.  Every training thread takes samples of the     *)
(* batch in turn: it loads them into its own workspace of every network,   *)
(* runs the Train function of the learner, which asks for outputs          *)
(* (forward), places gradients on them (setGradient) and sometimes takes a *)
(* gradient out (oneStepBackProp, getStepBackProp), and then passes the    *)
(* errors back through the networks, last to first.                        *)
(*                                                                         *)
(* Numbers are not modelled.  A gradient that is placed has size one and a *)
(* layer passes on what it has, so that an error is the number of paths by *)
(* which it was reached, and the gradient of a layer the number of paths   *)
(* from the outputs whose gradient was asked for.  Time is the place in    *)
(* the window of steps that is loaded for the sample.                      *)
(*                                                                         *)
(* When the batch is over the threads add up their gradients.              *)
(***************************************************************************)
EXTENDS Parameters, Sequences, SequencesExt, FiniteSetsExt, Folds

CONSTANTS
  Setups,     \* learners and networks looked at
  MaxBPTT     \* bound: settings.nnBPTTseq

ASSUME BackPassAssumption ==
  /\ MaxBPTT \in Nat
  /\ \A x \in Setups :
       /\ x.algo \in {"RACER", "DQN", "NAF", "PPO", "DPG", "MixedPG", "ACER"}
       /\ x.cell \in {"none", "RNN", "LSTM"} /\ x.encoder \in BOOLEAN /\ x.conv \in BOOLEAN
       /\ x.conv => x.encoder
       /\ x.nThreads \in 1 .. MaxThreads /\ x.batchSize >= x.nThreads
       /\ x.ESpopSize \in Nat \ {0}

VARIABLES
  setup,
  pc,               \* what each thread does: idle, train, back
  done,             \* iterations of the parallel loop that it has begun
  window,           \* the sample: its place in the window, and what follows it
  todo,             \* what Train still has to do, then the networks still to go back through
  ctx,              \* ThreadContext of each network
  gradient,         \* what the sample adds to partialGradient, for each layer
  stepGradient,     \* gradient with respect to the added input, in Train of DPG and MixedPG
  threadsPerBatch

batchVars == <<setup, pc, done, window, todo, ctx, gradient, stepGradient, threadsPerBatch>>
vars == <<batchVars, gradVars>>

Threads  == 1 .. setup.nThreads
Elements == 1 .. setup.batchSize     \* bID
recurrent == setup.cell # "none"

------------------------------------------------------------------------------
(* Networks                                                                *)

nAexpectation == 1   \* bound: extra policy samples of ACER

Approximator(preprocessing, aux, added, tgt, params) ==
  [preprocessing |-> preprocessing, aux |-> aux, nAddedSamples |-> added,
   bHaveTargetW |-> tgt, params |-> params]

\* The networks of each learner: whether they are fed by the encoder, what their
\* added input is, workspaces besides the first, layer of parameters at the end.
NetsOf(algo, enc) ==
  LET encoder == Approximator(FALSE, "none", 0, FALSE, FALSE) IN
  CASE algo = "RACER" -> ("net" :> Approximator(FALSE, "none", 0, FALSE, TRUE))
    [] algo = "DQN"   -> ("net" :> Approximator(FALSE, "none", 0, TRUE, FALSE))
    [] algo = "NAF"   -> ("net" :> Approximator(FALSE, "none", 0, TRUE, TRUE))
    [] algo = "PPO"   -> ("encoder" :> encoder @@
                          "actor" :> Approximator(enc, "none", 0, FALSE, TRUE) @@
                          "critic" :> Approximator(enc, "none", 0, FALSE, FALSE))
    [] algo = "DPG"   -> ("encoder" :> encoder @@
                          "actor" :> Approximator(enc, "none", 0, TRUE, TRUE) @@
                          "critic" :> Approximator(enc, "actor", 0, TRUE, FALSE))
    [] algo = "MixedPG" -> ("encoder" :> encoder @@
                          "actor" :> Approximator(enc, "none", 0, FALSE, TRUE) @@
                          "critic" :> Approximator(enc, "actor", 1, FALSE, FALSE))
    [] OTHER          -> ("encoder" :> encoder @@
                          "actor" :> Approximator(enc, "none", 0, TRUE, TRUE) @@
                          "critic" :> Approximator(enc, "none", 0, FALSE, FALSE) @@
                          "advtg" :> Approximator(enc, "vector", 1 + nAexpectation, FALSE, FALSE))

Single == setup.algo \in {"RACER", "DQN", "NAF"}

\* In the order in which they were created; learners with one network build it on top
\* of the layers of the encoder.
networks == (IF setup.encoder /\ ~Single THEN <<"encoder">> ELSE <<>>) \o
            (CASE Single -> <<"net">> [] setup.algo = "ACER" -> <<"actor", "critic", "advtg">>
               [] OTHER -> <<"actor", "critic">>)
Nets == ToSet(networks)
net(n) == NetsOf(setup.algo, setup.encoder)[n]

\* A hidden layer, and a connection around it unless it comes first.
Hidden(below) == IF below = 1 THEN <<setup.cell>> ELSE <<setup.cell, "residual">>
Encoding == IF setup.conv THEN <<"conv">> \o Hidden(2) ELSE Hidden(1) \o Hidden(2)

layers(n) ==
  LET head == IF net(n).params THEN <<"none", "param">> ELSE <<"none">>
      low  == IF n = "encoder" \/ (Single /\ setup.encoder) THEN Encoding ELSE Hidden(1)
  IN <<"input">> \o low \o (IF n = "encoder" THEN <<>> ELSE Hidden(1 + Len(low)) \o head)

AddedPart == 0       \* added inputs, in the input layer next to the state: layer 1
Layers(n) == AddedPart .. Len(layers(n))
Output(n) == {l \in 1 .. Len(layers(n)) : layers(n)[l] = "param"} \cup
             {Max({l \in 1 .. Len(layers(n)) : layers(n)[l] # "param"})}

\* The layer below, of which the state is left out when no encoder needs its error.
Below(n, l) ==
  IF l # 2 THEN {l - 1}
  ELSE (IF net(n).aux # "none" THEN {AddedPart} ELSE {}) \cup
       (IF net(n).preprocessing THEN {1} ELSE {})

Samples(n) == 0 .. net(n).nAddedSamples + (IF net(n).bHaveTargetW THEN 1 ELSE 0)
Target == -1

\* Workspace of a sample: one that the network does not have is the first, the target
\* is the last.
SampleOf(n, samp) ==
  IF samp = Target THEN Max(Samples(n))
  ELSE IF samp > net(n).nAddedSamples THEN 0 ELSE samp

Steps == 0 .. MaxBPTT + 1

------------------------------------------------------------------------------
(* Workspaces                                                              *)

NoErrors(n) == [l \in Layers(n) |-> 0]
Empty(n) == [written |-> FALSE, input |-> "none", E |-> NoErrors(n), state |-> NoErrors(n)]

\* What load does; the types of the added inputs stay those of the sample before, and
\* so do added vectors.
Loaded(n, C) ==
  [C EXCEPT !.endBackPropStep = [s \in Samples(n) |-> -1],
            !.activations = [s \in Samples(n) |-> [k \in Steps |-> Empty(n)]]]

NewContext(n) ==
  Loaded(n, [addedInputType |-> [s \in Samples(n) |-> "none"], vectors |-> {},
             endBackPropStep |-> <<>>, activations |-> <<>>])

activation(C, n, s, k) == C[n].activations[s][k]

setAddedInputType(C, n, type, samp) ==
  [C EXCEPT ![n].addedInputType[SampleOf(n, samp)] = type]

\* An added vector is kept at the place that its sample number has among the steps.
setAddedInput(C, n, samp) ==
  [C EXCEPT ![n].addedInputType[samp] = "vector",
            ![n].vectors = @ \cup {<<0, samp>>}]

AddedInput(C, n, s, k) ==
  IF C[n].addedInputType[s] = "vector" /\ <<s, k>> \notin C[n].vectors THEN "missing"
  ELSE C[n].addedInputType[s]

\* Computes an output unless it is there, and before it what it is computed from: the
\* step before, with the action that was taken as added input; the encoder; and the
\* network whose output is the added input.
RECURSIVE forward(_, _, _, _)
forward(C, n, samp, k) ==
  LET s    == SampleOf(n, samp)
      type == C[n].addedInputType[0]
      past == [C EXCEPT ![n].addedInputType[0] = IF type = "none" THEN type ELSE "action"]
      C1 == IF k > 0 /\ ~activation(C, n, 0, k - 1).written
            THEN [forward(past, n, 0, k - 1) EXCEPT ![n].addedInputType[0] = type] ELSE C
      C2 == IF net(n).preprocessing THEN forward(C1, "encoder", samp, k) ELSE C1
      C3 == IF C2[n].addedInputType[s] = "network" THEN forward(C2, net(n).aux, samp, k) ELSE C2
  IN IF activation(C, n, s, k).written THEN C
     ELSE [C3 EXCEPT ![n].activations[s][k] =
             [@ EXCEPT !.written = TRUE, !.input = AddedInput(C3, n, s, k)]]

setGradient(C, n, amount, samp, k) ==
  LET s == SampleOf(n, samp) IN
  [C EXCEPT ![n].endBackPropStep[s] = Max({@, k + 1}),
            ![n].activations[s][k].E =
               [l \in Layers(n) |-> IF l \in Output(n) THEN @[l] + amount ELSE @[l]]]

------------------------------------------------------------------------------
(* Going back through a network                                            *)

AddTo(E, targets, amount) == [l \in DOMAIN E |-> IF l \in targets THEN E[l] + amount ELSE E[l]]

\* What a layer does to the errors of its step: it adds to those of the layer below; a
\* residual connection copies its error to the layer that it goes around.
Spread(n, l, E, amount) ==
  CASE layers(n)[l] \in {"input", "param"} -> E
    [] layers(n)[l] = "residual" -> AddTo([E EXCEPT ![l - 1] = amount], {l - 2}, amount)
    [] OTHER -> AddTo(E, Below(n, l), amount)

\* A cell passes on its error through its output gate, and the error of its state, which
\* has come from the step after it as well, through all the others.
CellState(n, l, E, next) == IF layers(n)[l] = "LSTM" THEN E[l] + next ELSE 0

\* Layer::backward.  D holds the errors of all samples of network n and the gradient;
\* the step before a step is one of the first sample, the step after it one of its own.
backward(D, n, s, l, k, last) ==
  LET here   == D.acts[s][k]
      state  == CellState(n, l, here.E, IF k < last THEN D.acts[s][k + 1].state[l] ELSE 0)
      amount == here.E[l] + state
      acts   == [D.acts EXCEPT ![s][k].E = Spread(n, l, here.E, amount), ![s][k].state[l] = state]
  IN [gradient |-> IF l = 1 THEN D.gradient ELSE [D.gradient EXCEPT ![l] = @ + amount],
      acts |-> IF layers(n)[l] \in {"RNN", "LSTM"} /\ k > 0
               THEN [acts EXCEPT ![0][k - 1].E[l] = @ + amount] ELSE acts]

\* Layers from the last to the first, and steps from the last to the first in each.
\* Mutant: the steps from the first to the last.
OrderForward(n, end) == [i \in 1 .. Len(layers(n)) * end |->
  <<Len(layers(n)) - ((i - 1) \div end), (i - 1) % end>>]
Order(n, end) == [i \in 1 .. Len(layers(n)) * end |->
  <<Len(layers(n)) - ((i - 1) \div end), end - 1 - ((i - 1) % end)>>]

\* Network::backProp for one sample.
ThroughSample(D, n, s, end) ==
  FoldLeft(LAMBDA d, x : backward(d, n, s, x[1], x[2], end - 1), D, Order(n, end))

\* Approximator::backProp for one sample: the error of the input is the gradient of the
\* encoder.
SampleBack(G, n, s) ==
  LET end == G.ctx[n].endBackPropStep[s]
      D   == ThroughSample([acts |-> G.ctx[n].activations, gradient |-> G.gradient[n]], n, s, end)
      C   == [G.ctx EXCEPT ![n].activations = D.acts, ![n].endBackPropStep[s] = -1]
      inputGradient(c, k) == setGradient(c, "encoder", D.acts[s][k].E[1], s, k)
  IN IF end < 0 THEN G
     ELSE [ctx |-> IF net(n).preprocessing
                   THEN FoldLeft(inputGradient, C, [k \in 1 .. end |-> k - 1]) ELSE C,
           gradient |-> [G.gradient EXCEPT ![n] = D.gradient]]

backProp(G, n) ==
  FoldLeft(LAMBDA g, s : SampleBack(g, n, s), G, Reverse(SetToSortSeq(Samples(n), <)))

\* backPropToLayer: the errors of the step are forgotten, and the gradient goes as far
\* as the input.
oneStepBackProp(C, n, samp, k) ==
  LET s == SampleOf(n, samp)
      Down(E, l) == Spread(n, l, E, E[l] + CellState(n, l, E, 0))
  IN [C EXCEPT ![n].activations[s][k].E =
        FoldLeft(Down, AddTo(NoErrors(n), Output(n), 1),
                 [j \in 1 .. Len(layers(n)) - 1 |-> Len(layers(n)) + 1 - j])]

------------------------------------------------------------------------------
(* What the learners do with a sample                                      *)

\* Calls that Train makes, of a network and one of its samples, at a step of the window.
Call(op, n, samp, k, type) == [op |-> op, net |-> n, samp |-> samp, step |-> k, type |-> type]
Fwd(n, samp, k)     == Call("forward", n, samp, k, "none")
Type(n, type, samp) == Call("setAddedInputType", n, samp, 0, type)
Vector(n, samp)     == Call("setAddedInput", n, samp, 0, "vector")
Grad(n, samp, k)    == Call("setGradient", n, samp, k, "none")
OneStep(n, samp, k) == Call("oneStepBackProp", n, samp, k, "none")
GetStep(n, samp, k) == Call("getStepBackProp", n, samp, k, "none")
Back(n)             == Call("backProp", n, 0, 0, "none")

If(condition, calls) == IF condition THEN calls ELSE <<>>

RACERTrain(w) ==
  <<Fwd("net", 0, w.t)>> \o If(w.next = "truncated", <<Fwd("net", 0, w.t + 1)>>) \o
  <<Grad("net", 0, w.t)>>

DQNTrain(w) ==
  <<Fwd("net", 0, w.t)>> \o
  If(IF w.estimator THEN w.next = "truncated" ELSE w.next # "terminal",
     <<Fwd("net", 0, w.t + 1)>>) \o
  If(~w.estimator /\ w.next # "terminal", <<Fwd("net", Target, w.t + 1)>>) \o
  <<Grad("net", 0, w.t)>>

NAFTrain(w) ==
  <<Fwd("net", 0, w.t)>> \o
  If(w.estimator /\ w.next = "truncated", <<Fwd("net", 0, w.t + 1)>>) \o
  If(~w.estimator /\ w.next # "terminal" /\ ~w.isOff, <<Fwd("net", Target, w.t + 1)>>) \o
  <<Grad("net", 0, w.t)>>

PPOTrain(w) ==
  <<Fwd("actor", 0, w.t), Fwd("critic", 0, w.t), Grad("actor", 0, w.t), Grad("critic", 0, w.t)>>

\* Mutant: the type is taken for what it was set to.
DPGTypeKept(w) == <<Fwd("critic", 0, w.t)>>

\* Value of the action that was taken.
DPGValue(w) == <<Type("critic", "action", 0), Fwd("critic", 0, w.t)>>

DPGTrain(w) ==
  <<Fwd("actor", 0, w.t)>> \o DPGValue(w) \o
  <<Type("critic", "network", Target), Fwd("critic", Target, w.t)>> \o
  If(w.estimator /\ w.next = "truncated",
     <<Fwd("actor", 0, w.t + 1), Type("critic", "network", 0), Fwd("critic", 0, w.t + 1)>>) \o
  If(~w.estimator /\ w.next # "terminal" /\ ~w.isOff,
     <<Fwd("actor", Target, w.t + 1), Type("critic", "network", Target),
       Fwd("critic", Target, w.t + 1)>>) \o
  If(~w.isOff, <<OneStep("critic", Target, w.t)>>) \o
  <<Grad("actor", 0, w.t), Grad("critic", 0, w.t)>>

MixedPGTrain(w) ==
  <<Fwd("actor", 0, w.t), Type("critic", "network", 1), Fwd("critic", 1, w.t),
    Type("critic", "action", 0), Fwd("critic", 0, w.t)>> \o
  If(w.next = "truncated",
     <<Fwd("actor", 0, w.t + 1), Type("critic", "network", 0), Fwd("critic", 0, w.t + 1)>>) \o
  <<Grad("critic", 0, w.t), Grad("critic", 1, w.t), Back("critic")>> \o
  If(~w.isOff, <<GetStep("critic", 1, w.t)>>) \o <<Grad("actor", 0, w.t)>>

\* ACER looks at the steps w.t to w.last of a whole episode.
ACERTrain(w) ==
  LET SampledActions(k) ==
        FlattenSeq([i \in 1 .. 2 + nAexpectation |-> <<Vector("advtg", i - 1), Fwd("advtg", i - 1, k)>>])
      Outputs(k) == <<Fwd("actor", 0, k), Fwd("actor", Target, k), Fwd("critic", 0, k)>>
                    \o SampledActions(k)
      Gradients(k) == <<Grad("actor", 0, k), Grad("critic", 0, k), Grad("advtg", 0, k)>> \o
                      [i \in 1 .. nAexpectation |-> Grad("advtg", i + 1, k)]
      all == [i \in 1 .. w.last - w.t + 1 |-> w.t + i - 1]
  IN FlattenSeq([i \in DOMAIN all |-> Outputs(all[i])]) \o
     If(w.next # "terminal", <<Fwd("critic", 0, w.last + 1)>>) \o
     FlattenSeq([i \in DOMAIN all |-> Gradients(all[Len(all) + 1 - i])])

Train(w) ==
  CASE setup.algo = "RACER" -> RACERTrain(w) [] setup.algo = "DQN" -> DQNTrain(w)
    [] setup.algo = "NAF" -> NAFTrain(w)     [] setup.algo = "PPO" -> PPOTrain(w)
    [] setup.algo = "DPG" -> DPGTrain(w)     [] setup.algo = "MixedPG" -> MixedPGTrain(w)
    [] OTHER -> ACERTrain(w)

\* The window of a sample reaches back as far as there are steps, for recurrent
\* networks, and one step ahead; that of ACER is the episode.
Windows ==
  LET Window(ts, lasts, ests) ==
        [t : ts, last : lasts, next : {"step", "terminal", "truncated"}, isOff : BOOLEAN,
         estimator : ests]
  IN IF setup.algo = "ACER" THEN {w \in Window(Steps, 0 .. MaxBPTT, {TRUE}) : w.t <= w.last /\ ~w.isOff}
     ELSE {w \in Window(IF recurrent THEN 0 .. MaxBPTT ELSE {0}, {0},
                        IF setup.algo \in {"DQN", "NAF", "DPG"} THEN BOOLEAN ELSE {TRUE}) :
             setup.algo \notin {"NAF", "DPG", "MixedPG"} => ~w.isOff}

------------------------------------------------------------------------------
(* The parallel loop                                                       *)

ChunkSize == setup.batchSize \div setup.nThreads

\* Iterations of the loop over weights and samples that a thread has, in their order;
\* when whole episodes are sampled they are given out one by one.
Iterations == 0 .. setup.ESpopSize * setup.batchSize - 1
Owner(i) == 1 + ((i \div ChunkSize) % setup.nThreads)
Dynamic  == setup.algo = "ACER"
Begun    == UNION {done[p] : p \in Threads}
Free(p)  == {i \in Iterations \ Begun : Dynamic \/ Owner(i) = p}
bID(p)   == 1 + (Max(done[p]) % setup.batchSize)

\* All networks load the sample.
load(p) ==
  /\ pc[p] = "idle" /\ Free(p) # {}
  /\ done' = [done EXCEPT ![p] = @ \cup {Min(Free(p))}]
  /\ \E w \in Windows :
       /\ window' = [window EXCEPT ![p] = w]
       /\ todo' = [todo EXCEPT ![p] = Train(w)]
  /\ threadsPerBatch' = [threadsPerBatch EXCEPT ![1 + (Min(Free(p)) % setup.batchSize)] = p]
  /\ ctx' = [ctx EXCEPT ![p] = [n \in Nets |-> Loaded(n, @[n])]]
  /\ gradient' = [gradient EXCEPT ![p] = [n \in Nets |-> NoErrors(n)]]
  /\ stepGradient' = [stepGradient EXCEPT ![p] = 0]
  /\ pc' = [pc EXCEPT ![p] = "train"]
  /\ UNCHANGED setup

\* The workspace of the thread that the sample was loaded by last.
Here(p) == threadsPerBatch[bID(p)]

TrainCall(p, op) ==
  /\ pc[p] = "train" /\ todo[p] # <<>> /\ Head(todo[p]).op = op
  /\ todo' = [todo EXCEPT ![p] = Tail(@)]
  /\ UNCHANGED <<setup, pc, done, window, threadsPerBatch>>

InContext(p, C) ==
  ctx' = [ctx EXCEPT ![Here(p)] = C] /\ UNCHANGED <<gradient, stepGradient>>

TrainForward(p) ==
  LET c == Head(todo[p]) IN
  TrainCall(p, "forward") /\ InContext(p, forward(ctx[Here(p)], c.net, c.samp, c.step))

TrainSetAddedInput(p) ==
  LET c == Head(todo[p]) IN
  \E op \in {"setAddedInputType", "setAddedInput"} :
    /\ TrainCall(p, op)
    /\ InContext(p, IF op = "setAddedInput" THEN setAddedInput(ctx[Here(p)], c.net, c.samp)
                    ELSE setAddedInputType(ctx[Here(p)], c.net, c.type, c.samp))

\* With several weights the errors are left alone.
TrainSetGradient(p) ==
  LET c == Head(todo[p])
      amount == IF setup.ESpopSize > 1 THEN 0 ELSE 1
  IN TrainCall(p, "setGradient")
     /\ InContext(p, setGradient(ctx[Here(p)], c.net, amount, c.samp, c.step))

\* The gradient with respect to the added input.
TrainOneStep(p) ==
  LET c == Head(todo[p])
      C == oneStepBackProp(ctx[Here(p)], c.net, c.samp, c.step)
  IN /\ TrainCall(p, "oneStepBackProp")
     /\ ctx' = [ctx EXCEPT ![Here(p)] = C]
     /\ stepGradient' = [stepGradient EXCEPT ![p] =
          activation(C, c.net, SampleOf(c.net, c.samp), c.step).E[AddedPart]]
     /\ UNCHANGED gradient

TrainGetStep(p) ==
  LET c == Head(todo[p]) IN
  /\ TrainCall(p, "getStepBackProp")
  /\ stepGradient' = [stepGradient EXCEPT ![p] =
       activation(ctx[Here(p)], c.net, SampleOf(c.net, c.samp), c.step).E[AddedPart]]
  /\ UNCHANGED <<ctx, gradient>>

BackThrough(p, n) ==
  LET G == backProp([ctx |-> ctx[Here(p)], gradient |-> gradient[Here(p)]], n) IN
  /\ ctx' = [ctx EXCEPT ![Here(p)] = G.ctx]
  /\ gradient' = [gradient EXCEPT ![Here(p)] = G.gradient]
  /\ UNCHANGED stepGradient

TrainBack(p) == TrainCall(p, "backProp") /\ BackThrough(p, Head(todo[p]).net)

\* Mutant: the networks as they were created.
FirstToLast == networks

\* From the last network to the first.
BackOrder == Reverse(networks)

\* Train is over: back through the networks, unless there are several weights.
TrainDone(p) ==
  /\ pc[p] = "train" /\ todo[p] = <<>>
  /\ pc' = [pc EXCEPT ![p] = IF setup.ESpopSize > 1 THEN "idle" ELSE "back"]
  /\ todo' = [todo EXCEPT ![p] =
       IF setup.ESpopSize > 1 THEN <<>> ELSE [i \in DOMAIN BackOrder |-> Back(BackOrder[i])]]
  /\ UNCHANGED <<setup, done, window, ctx, gradient, stepGradient, threadsPerBatch>>

BackProp(p) ==
  /\ pc[p] = "back" /\ todo[p] # <<>>
  /\ BackThrough(p, Head(todo[p]).net)
  /\ todo' = [todo EXCEPT ![p] = Tail(@)]
  /\ pc' = [pc EXCEPT ![p] = IF Len(todo[p]) = 1 THEN "idle" ELSE "back"]
  /\ UNCHANGED <<setup, done, window, threadsPerBatch>>

Thread(p) ==
  \/ load(p) \/ TrainForward(p) \/ TrainSetAddedInput(p) \/ TrainSetGradient(p)
  \/ TrainOneStep(p) \/ TrainGetStep(p) \/ TrainBack(p) \/ TrainDone(p) \/ BackProp(p)

\* Parameters counts threads from zero.
Trained == {p - 1 : p \in {q \in Threads : done[q] # {}}}

\* With several weights there are no gradients.
prepareUpdate ==
  /\ setup.ESpopSize = 1 /\ \A p \in Threads : pc[p] = "idle" /\ Free(p) = {}
  /\ prepare_update(Trained)

NoWindow == [t |-> 0, last |-> 0, next |-> "step", isOff |-> FALSE, estimator |-> TRUE]

Init ==
  /\ setup \in Setups
  /\ pc = [p \in Threads |-> "idle"] /\ done = [p \in Threads |-> {}]
  /\ window = [p \in Threads |-> NoWindow] /\ todo = [p \in Threads |-> <<>>]
  /\ ctx = [p \in Threads |-> [n \in Nets |-> NewContext(n)]]
  /\ gradient = [p \in Threads |-> [n \in Nets |-> NoErrors(n)]]
  /\ stepGradient = [p \in Threads |-> 0]
  /\ threadsPerBatch = [b \in Elements |-> 0]
  /\ thrN = setup.nThreads /\ gradInit

Next ==
  \/ (\E p \in Threads : Thread(p)) /\ UNCHANGED gradVars
  \/ (prepareUpdate \/ reduceThreadsGrad) /\ UNCHANGED batchVars

Spec == Init /\ [][Next]_vars

------------------------------------------------------------------------------
(* Properties                                                              *)

\* Paths to a layer of a step of a sample, from all outputs whose gradient Train set:
\* through the layers that are computed from it in its step, through the same layer in
\* the next step of every sample, which is computed from the first sample's, and from an
\* encoder through the networks it feeds.
Placed(p, n, s, k) ==
  Len(SelectSeq(Train(window[p]), LAMBDA c : c.op = "setGradient" /\ c.net = n
                                             /\ SampleOf(n, c.samp) = s /\ c.step = k))

Above(n, l) ==
  {m \in Layers(n) : m > 1 /\ IF layers(n)[m] = "residual" THEN l \in {m - 1, m - 2}
                              ELSE layers(n)[m] # "param" /\ l \in Below(n, m)}

RECURSIVE PathsTo(_, _, _, _, _), StatePaths(_, _, _, _, _)
Recurrent(n, l) == l > 0 /\ layers(n)[l] \in {"RNN", "LSTM"}
StepAfter(p, n, s, k) ==
  IF s = 0 THEN {x \in Samples(n) : k + 1 \in Steps /\ activation(ctx[p], n, x, k + 1).written} ELSE {}

\* From the input of a layer, which for a cell is that of its gates.
Entered(p, n, s, k, l) ==
  PathsTo(p, n, s, k, l) + (IF l > 0 /\ layers(n)[l] = "LSTM" THEN StatePaths(p, n, s, k, l) ELSE 0)
StatePaths(p, n, s, k, l) ==
  PathsTo(p, n, s, k, l) + MapThenSumSet(LAMBDA x : StatePaths(p, n, x, k + 1, l), StepAfter(p, n, s, k))
PathsTo(p, n, s, k, l) ==
  LET Sum(Op(_), S) == MapThenSumSet(Op, S)
      fed == {x \in {<<m, r>> \in Nets \X (0 .. 2 + nAexpectation) :
                 r \in Samples(m) /\ net(m).preprocessing /\ SampleOf(n, r) = s} :
                activation(ctx[p], x[1], x[2], k).written}
  IN (IF l \in Output(n) THEN Placed(p, n, s, k) ELSE 0)
     + Sum(LAMBDA m : Entered(p, n, s, k, m), Above(n, l))
     + (IF Recurrent(n, l) THEN Sum(LAMBDA x : Entered(p, n, x, k + 1, l), StepAfter(p, n, s, k)) ELSE 0)
     + (IF n = "encoder" /\ l \in Output(n) THEN Sum(LAMBDA x : PathsTo(p, x[1], x[2], k, 1), fed) ELSE 0)

\* Paths from the outputs of a network to a layer of the same step.
RECURSIVE StepPaths(_, _)
StepPaths(n, l) ==
  (IF l \in Output(n) THEN 1 ELSE 0) +
  MapThenSumSet(LAMBDA m : (IF layers(n)[m] = "LSTM" THEN 2 ELSE 1) * StepPaths(n, m), Above(n, l))

\* Whether a thread works in its own workspaces, although it finds them by the number of
\* the sample, which the threads of other weights use too.
OwnContext(p) == pc[p] # "idle" => Here(p) = p

\* The gradient of every layer of every network is that of the chain rule: an error is
\* complete when a layer passes it on, no sample leaves errors to the next one, nor a
\* network to the encoder after it has had its turn; and that of the critic with respect
\* to the action of the policy is that of one step.  All this in workspaces of its own.
GradientsAreChainRule ==
  \A p \in Threads :
    /\ OwnContext(p)
    /\ (pc[p] = "idle" /\ tpc[p - 1] = "idle" /\ done[p] # {} /\ setup.ESpopSize = 1) =>
         /\ \A n \in Nets : \A l \in 2 .. Len(layers(n)) :
              gradient[p][n][l] =
                MapThenSumSet(LAMBDA x : Entered(p, n, x[1], x[2], l), Samples(n) \X Steps)
         /\ setup.algo \in {"DPG", "MixedPG"} =>
              stepGradient[p] = IF window[p].isOff THEN 0 ELSE StepPaths("critic", AddedPart)

\* A critic that takes an action gets one whenever it is run: the action that was taken in
\* the step that was sampled and in those before it, on which later steps depend.
AddedInputGiven ==
  \A p \in Threads : \A n \in Nets : net(n).aux = "actor" =>
    \A s \in Samples(n), k \in Steps :
      LET a == activation(ctx[p], n, s, k) IN
      a.written => /\ a.input # "none"
                   /\ s = 0 /\ k <= window[p].t => a.input = "action"
=============================================================================
