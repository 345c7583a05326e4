----------------------------- MODULE MCBackPass -----------------------------
(* Learners and networks of BackPass, which a configuration file cannot write, and   *)
(* the numbers that they compute.                                                    *)
EXTENDS BackPass, Objectives, Storage
Learner(algo, cell, encoder, batchSize) ==
  [algo |-> algo, cell |-> cell, encoder |-> encoder, conv |-> FALSE, nThreads |-> 1,
   batchSize |-> batchSize, ESpopSize |-> 1]
MCSetups ==
  {Learner(a, c, e, 1) : a \in {"RACER", "DQN", "NAF", "PPO", "DPG"},
                         c \in {"none", "RNN"}, e \in BOOLEAN}
  \cup {Learner(a, "LSTM", a = "PPO", 1) : a \in {"RACER", "DQN", "DPG", "PPO"}}
  \cup {Learner(a, "none", FALSE, 2) : a \in {"DPG", "PPO"}}
  \cup {Learner("RACER", "RNN", TRUE, 2), Learner("ACER", "none", TRUE, 1)}
  \cup {Learner("MixedPG", "none", e, 1) : e \in BOOLEAN}
  \cup {[Learner(a, "RNN", TRUE, 1) EXCEPT !.conv = TRUE] : a \in {"RACER", "DPG"}}
  \cup {[Learner("RACER", "none", FALSE, 2) EXCEPT !.nThreads = 2]}
  \cup {[Learner("RACER", "none", FALSE, 4) EXCEPT !.nThreads = 2, !.ESpopSize = 2]}

\* GradientsAreChainRule counts paths, this is what each step of a path is multiplied by.
\* From the loss of the learner to the parameters, every function, cell, connection,
\* policy, advantage and objective that the learner is made of passes back, for errors and
\* arguments of any size, the derivative of what it gave on the way forth; it starts from
\* the outputs asked for, and what it stores with a step is what it reads there later.
\* The layers of a network share no parameter and no cell, and read back from a file what
\* they wrote to it.
NumbersBehindPaths ==
  LET algo == setup.algo   continuous == algo # "DQN"
      options == algo \in {"RACER", "DQN", "PPO"} IN
  (\A p \in Threads : done[p] = {}) =>
    /\ FunctionsDifferentiated /\ ConnectionsDifferentiated /\ ParametersInitialized
    /\ StoredValuesAgree
    /\ recurrent => CellsDifferentiated
    /\ setup.conv => ConvDifferentiated
    /\ continuous => ContinuousDifferentiated /\ VectorStandsForPolicy
    /\ continuous => ExplorationKept /\ DrawnAsSaid /\ StartsAsAsked /\ ActionsScaled
    /\ options => DiscreteDifferentiated
    /\ algo \in {"RACER", "NAF"} => AdvantagesDifferentiated /\ AdvantagesCentred
    /\ algo = "RACER" => ValuesScaled /\ RACERFollows /\ PopulationFollows
    /\ algo = "DQN" => DQNFollows
    /\ algo \in {"NAF", "DPG"} => ActorsFollow
    /\ algo = "PPO" => PPOFollows
    /\ algo = "ACER" => ACERFollows /\ NumbersStored
    /\ algo = "MixedPG" => MixedPGFollows
=============================================================================
