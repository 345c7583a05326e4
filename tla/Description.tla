------------------------------ MODULE Description ------------------------------
(***************************************************************************)
(* The problem as an application describes it: the calls that build the    *)
(* description (Communicator), the order in which its fields are passed on *)
(* and completed (Environment::synchronizeEnvironments and                 *)
(* MDPdescriptor::synchronize), the agents that come of it, and the labels *)
(* of discrete actions (ActionInfo).                                       *)
(*                                                                         *)
(* A vector goes as one field for its size and its elements; the two       *)
(* dimensions, the mean and the deviation of the states, and the three     *)
(* vectors of the bounds are one field each.  Settings that nothing else   *)
(* depends on are members of "flags".                                      *)
(***************************************************************************)
EXTENDS Integers, Sequences, SequencesExt, FiniteSets

CONSTANT MaxDim  \* longest vector of a state or an action

ASSUME MaxDimAssumption == MaxDim \in Nat \ {0}

VARIABLE asked   \* the description that the application asks for

Vectors(S) == UNION {[1 .. n -> S] : n \in 1 .. MaxDim}

\* Scales: from an interval, from one that is empty, and the default of mean 0 and
\* deviation 1.
Given == 1
Flat == 0
Default == -1

MDPdescriptor ==
  [dimState |-> 0, dimAction |-> 0, options |-> <<>>, flags |-> {},
   observed |-> <<>>, scales |-> <<>>, bounds |-> <<>>]

Environment ==
  [nAgentsPerEnvironment |-> 1, separate |-> FALSE, distributed |-> FALSE,
   tracked |-> <<>>, mdps |-> <<MDPdescriptor>>, died |-> FALSE]

\* vector::resize
Resized(v, n, x) == [i \in 1 .. n |-> IF i <= Len(v) THEN v[i] ELSE x]

nDescriptors(e) == IF e.separate THEN e.nAgentsPerEnvironment ELSE 1

\* New descriptors are copies of the first.
initDescriptors(e) ==
  IF Len(e.mdps) > nDescriptors(e) THEN [e EXCEPT !.died = TRUE]
  ELSE [e EXCEPT !.mdps = Resized(@, nDescriptors(e), @[1])]

------------------------------------------------------------------------------
(* Calls of the application, before it sends a state                       *)

Ask(accepted, e) == asked' = IF accepted THEN e ELSE [asked EXCEPT !.died = TRUE]

setStateActionDims(i, s, a) ==
  Ask(TRUE, [asked EXCEPT !.mdps[i].dimState = s, !.mdps[i].dimAction = a])

setActionScales(i, bounds) ==
  Ask(Len(bounds) = asked.mdps[i].dimAction /\ asked.mdps[i].options = <<>>,
      [asked EXCEPT !.mdps[i].bounds = bounds])

setActionOptions(i, options) ==
  Ask(Len(options) = asked.mdps[i].dimAction, [asked EXCEPT !.mdps[i].options = options])

setStateObservable(i, observable) ==
  Ask(Len(observable) = asked.mdps[i].dimState,
      [asked EXCEPT !.mdps[i].observed = observable])

setStateScales(i, scales) ==
  Ask(Len(scales) = asked.mdps[i].dimState, [asked EXCEPT !.mdps[i].scales = scales])

setFlag(i, flag) == Ask(TRUE, [asked EXCEPT !.mdps[i].flags = @ \cup {flag}])

setIsPartiallyObservable(i) == setFlag(i, "partial")
setPreprocessingConv2d(i) == setFlag(i, "conv2d")
setNumAppendedPastObservations(i) == setFlag(i, "appended")

agentsShareExplorationNoise(i) ==
  Ask(~asked.distributed, [asked EXCEPT !.mdps[i].flags = @ \cup {"noise"}])

setNumAgents(n) == Ask(TRUE, [asked EXCEPT !.nAgentsPerEnvironment = n])

envHasDistributedAgents == Ask(~asked.separate, [asked EXCEPT !.distributed = TRUE])

agentsDefineDifferentMDP ==
  Ask(~asked.distributed, initDescriptors([asked EXCEPT !.separate = TRUE]))

disableDataTrackingForAgents(start, end) ==
  Ask(TRUE, [asked EXCEPT !.tracked =
               [i \in 1 .. asked.nAgentsPerEnvironment |->
                  i \notin start .. end /\ Resized(@, asked.nAgentsPerEnvironment, TRUE)[i]]])

\* The vectors of an action or a state may be of any length: some calls are refused.
Call ==
  /\ ~asked.died
  /\ \/ \E i \in DOMAIN asked.mdps :
          \/ \E s \in 0 .. MaxDim, a \in 1 .. MaxDim : setStateActionDims(i, s, a)
          \/ \E b \in Vectors({<<0, 2>>, <<2, 0>>}) : setActionScales(i, b)
          \/ \E o \in Vectors({1, 2, 3}) : setActionOptions(i, o)
          \/ \E o \in Vectors(BOOLEAN) : setStateObservable(i, o)
          \/ \E s \in Vectors({Given, Flat}) : setStateScales(i, s)
          \/ setIsPartiallyObservable(i) \/ setPreprocessingConv2d(i)
          \/ setNumAppendedPastObservations(i) \/ agentsShareExplorationNoise(i)
     \/ \E n \in 1 .. 2 : setNumAgents(n)
     \/ envHasDistributedAgents \/ agentsDefineDifferentMDP
     \/ \E n \in 1 .. asked.nAgentsPerEnvironment : disableDataTrackingForAgents(n, n)

------------------------------------------------------------------------------
(* The fields in their order                                               *)

EnvFields == <<"nAgents", "separate", "tracked">>
MDPFields == <<"dims", "nOptions", "flags", "observed", "scales", "actions">>

nFields(e) == Len(EnvFields) + Len(MDPFields) * nDescriptors(e)

mdpOf(k) == (k - Len(EnvFields) - 1) \div Len(MDPFields) + 1

bDiscreteActions(mdp) == mdp.options # <<>>

Field(e, k) ==
  IF k <= Len(EnvFields) THEN EnvFields[k]
  ELSE LET f == MDPFields[((k - Len(EnvFields) - 1) % Len(MDPFields)) + 1] IN
       IF f # "actions" THEN f
       ELSE IF bDiscreteActions(e.mdps[mdpOf(k)]) THEN "options" ELSE "bounds"

dimStateObserved(mdp) == Cardinality({i \in DOMAIN mdp.observed : mdp.observed[i]})

\* The elements of v at the places S, in their order.
At(v, S) ==
  [k \in 1 .. Cardinality(S) |-> v[CHOOSE i \in S : Cardinality({j \in S : j <= i}) = k]]

\* StateInfo::state2observed
state2observed(mdp, v) == At(v, {i \in 1 .. mdp.dimState : mdp.observed[i]})

PreparedMDP(mdp, f) ==
  CASE f = "observed" /\ mdp.observed = <<>> ->
         [mdp EXCEPT !.observed = [i \in 1 .. mdp.dimState |-> TRUE]]
    [] f = "scales" /\ mdp.scales = <<>> ->
         [mdp EXCEPT !.scales = [i \in 1 .. dimStateObserved(mdp) |-> Default]]
    [] f = "scales" /\ Len(mdp.scales) = mdp.dimState
                    /\ mdp.dimState > dimStateObserved(mdp) ->
         [mdp EXCEPT !.scales = state2observed(mdp, @)]
    [] f = "bounds" /\ mdp.bounds = <<>> ->
         [mdp EXCEPT !.bounds = [i \in 1 .. mdp.dimAction |-> <<-1, 1>>]]
    [] OTHER -> mdp

\* What is put in for a field that was not asked for, before it is passed on.
Prepared(e, k) ==
  LET f == Field(e, k) IN
  IF f = "tracked" THEN [e EXCEPT !.tracked = Resized(@, e.nAgentsPerEnvironment, TRUE)]
  ELSE IF k <= Len(EnvFields) THEN e
  ELSE [e EXCEPT !.mdps[mdpOf(k)] = PreparedMDP(@, f)]

Value(e, k) ==
  LET f == Field(e, k)
      mdp == e.mdps[mdpOf(k)]
  IN CASE f = "nAgents"  -> e.nAgentsPerEnvironment
       [] f = "separate" -> e.separate
       [] f = "tracked"  -> e.tracked
       [] f = "dims"     -> <<mdp.dimState, mdp.dimAction>>
       [] f = "nOptions" -> Len(mdp.options)
       [] OTHER          -> mdp[f]

\* Mutant of StoredMDP: scales of the right size are not read.
KeptScales(mdp, f, v) ==
  IF f = "dims" THEN [mdp EXCEPT !.dimState = v[1], !.dimAction = v[2]]
  ELSE IF f = "nOptions" THEN [mdp EXCEPT !.options = Resized(@, v, 0)]
  ELSE IF f = "scales" /\ Len(v) = Len(mdp.scales) THEN mdp
  ELSE [mdp EXCEPT ![f] = v]

StoredMDP(mdp, f, v) ==
  CASE f = "dims"     -> [mdp EXCEPT !.dimState = v[1], !.dimAction = v[2]]
    [] f = "nOptions" -> [mdp EXCEPT !.options = Resized(@, v, 0)]
    [] OTHER          -> [mdp EXCEPT ![f] = v]

\* The field as it was received.
Stored(e, k, v) ==
  LET f == Field(e, k) IN
  CASE f = "nAgents"  -> [e EXCEPT !.nAgentsPerEnvironment = v]
    [] f = "separate" -> [e EXCEPT !.separate = v]
    [] f = "tracked"  -> [e EXCEPT !.tracked = v]
    [] OTHER          -> [e EXCEPT !.mdps[mdpOf(k)] = StoredMDP(@, f, v)]

\* The application errors that are found with a field.
Wrong(mdp, f) ==
  CASE f = "dims"     -> mdp.dimAction = 0
    [] f = "observed" -> Len(mdp.observed) # mdp.dimState
    [] f = "scales"   -> Len(mdp.scales) # dimStateObserved(mdp)
                         \/ \E i \in DOMAIN mdp.scales : mdp.scales[i] = Flat
    [] f = "bounds"   -> Len(mdp.bounds) # mdp.dimAction
    [] f = "options"  -> Len(mdp.options) # mdp.dimAction
                         \/ \E i \in DOMAIN mdp.options : mdp.options[i] < 2
    [] OTHER          -> FALSE

Ordered(b) == IF b[1] <= b[2] THEN b ELSE <<b[2], b[1]>>

\* The description once a field is passed on.
Settled(e, k) ==
  LET f == Field(e, k)
      mdp == e.mdps[mdpOf(k)]
  IN CASE f = "tracked" -> initDescriptors(e)
       [] k < Len(EnvFields) -> e
       [] k > Len(EnvFields) /\ Wrong(mdp, f) -> [e EXCEPT !.died = TRUE]
       [] f = "bounds" /\ ~Wrong(mdp, f) ->
            [e EXCEPT !.mdps[mdpOf(k)].bounds = [i \in DOMAIN @ |-> Ordered(@[i])]]
       [] OTHER -> e

\* And as the next field is about to be.
Advanced(e, k) ==
  LET left == Settled(e, k) IN
  IF left.died \/ k = nFields(left) THEN left ELSE Prepared(left, k + 1)

------------------------------------------------------------------------------
(* What the agents get                                                     *)

\* Agents of one environment are contiguous.
agentsOf(e, nCallingEnvironments) ==
  [i \in 0 .. e.nAgentsPerEnvironment * nCallingEnvironments - 1 |->
     [workerID |-> i \div e.nAgentsPerEnvironment,
      localID  |-> i % e.nAgentsPerEnvironment,
      MDP      |-> e.mdps[(i % Len(e.mdps)) + 1],
      trackEpisodes |-> e.tracked[(i % e.nAgentsPerEnvironment) + 1]]]

discreteActionShifts(options) ==
  LET shift[i \in DOMAIN options] == IF i = 1 THEN 1 ELSE shift[i - 1] * options[i - 1]
  IN shift

maxActionLabel(options) ==
  discreteActionShifts(options)[Len(options)] * options[Len(options)]

actionMessage2label(options, action) ==
  FoldLeft(LAMBDA label, i : label + discreteActionShifts(options)[i] * action[i],
           0, [i \in DOMAIN options |-> i])

\* From the last component to the first.
label2actionMessage(options, label) ==
  LET n == Len(options)
      shift == discreteActionShifts(options)
      rest[i \in 1 .. n] == IF i = n THEN label ELSE rest[i + 1] % shift[i + 1]
  IN [i \in 1 .. n |-> rest[i] \div shift[i]]
==============================================================================
