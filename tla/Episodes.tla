------------------------------- MODULE Episodes -------------------------------
(***************************************************************************)
(* What an agent does becomes an episode: the application's agent takes a  *)
(* state and packs it (Agent::update, packStateMsg), the master's agent    *)
(* unpacks it, stores it and answers (unpackStateMsg, MemoryBuffer), at    *)
(* the end the returns are estimated (MemoryProcessing), and the episode   *)
(* is packed for a file or another rank (Episode).                         *)
(*                                                                         *)
(* A buffer is a sequence of cells, one for a number: both ends take the   *)
(* same number of bytes for each.  The numbers that stand for states and   *)
(* actions differ from each other, so that none can be taken for another.  *)
(* Rewards are not scaled, and the discounts are whole numbers: estimates  *)
(* are polynomials in them.                                                *)
(***************************************************************************)
EXTENDS Description

\* episodeStatus; no call of an application gives the fifth, FAIL.
INIT == 0
CONT == 1
LAST == 2
TERM == 3

Zeros(n) == [i \in 1 .. n |-> 0]

Agent(localID, mdp, trackEpisodes) ==
  [localID |-> localID, trackEpisodes |-> trackEpisodes, agentStatus |-> INIT,
   timeStepInEpisode |-> 0, learnStatus |-> 0, learnerTimeStepID |-> 0,
   learnerGradStepID |-> 0, sOld |-> Zeros(mdp.dimState), state |-> Zeros(mdp.dimState),
   action |-> Zeros(mdp.dimAction), policyVector |-> <<>>, reward |-> 0,
   cumulativeRewards |-> 0, learnerAvgCumulativeReward |-> 0]

\* A step of the episode, with the reward that the agent adds to those before.
Moved(a, status, reward) ==
  [a EXCEPT !.agentStatus = status, !.sOld = a.state,
            !.cumulativeRewards = IF status = INIT THEN 0 ELSE @ + reward,
            !.timeStepInEpisode = IF status = INIT THEN 0 ELSE @ + 1]

update(a, status, s, reward) ==
  [Moved(a, status, reward) EXCEPT !.state = s, !.reward = reward]

------------------------------------------------------------------------------
(* Messages                                                                *)

packStateMsg(a) == <<a.localID, a.agentStatus, a.timeStepInEpisode, a.reward>> \o a.state

\* The reward that is added is the one of the message before.
unpackStateMsg(a, msg) ==
  [Moved(a, msg[2], a.reward) EXCEPT !.reward = msg[4],
                                     !.state = SubSeq(msg, 5, 4 + Len(@))]

packActionMsg(a) ==
  <<a.localID, a.learnStatus, a.learnerTimeStepID, a.learnerGradStepID>> \o a.action

unpackActionMsg(a, msg) ==
  [a EXCEPT !.learnStatus = msg[2], !.learnerTimeStepID = msg[3],
            !.learnerGradStepID = msg[4], !.action = SubSeq(msg, 5, 4 + Len(@))]

------------------------------------------------------------------------------
(* Episodes                                                                *)

state2nonObserved(mdp, v) == At(v, {i \in 1 .. mdp.dimState : ~mdp.observed[i]})

observedAndLatent2state(mdp, observ, latent) ==
  LET nSeen(i) == Cardinality({j \in 1 .. i : mdp.observed[j]}) IN
  [i \in 1 .. mdp.dimState |->
     IF mdp.observed[i] THEN observ[nSeen(i)] ELSE latent[i - nSeen(i)]]

\* One number a step each, in the order in which they are packed.
Estimates == <<"returnEstimator", "actionAdvantage", "stateValue", "deltaValue",
               "offPolicImpW", "KullbLeibDiv">>

Episode ==
  [states |-> <<>>, latent_states |-> <<>>, actions |-> <<>>, policies |-> <<>>,
   rewards |-> <<>>, estimates |-> [f \in Range(Estimates) |-> <<>>], totR |-> 0,
   bReachedTermState |-> FALSE, ID |-> -1, just_sampled |-> -1, agentID |-> -1]

\* Only the last state is kept of an agent that is not tracked; its status is a lie.
storeState(EP, mdp, a) ==
  IF ~a.trackEpisodes
  THEN <<[Episode EXCEPT !.states = <<state2observed(mdp, a.state)>>, !.rewards = <<0>>],
         [a EXCEPT !.agentStatus = INIT]>>
  ELSE <<[EP EXCEPT !.agentID = IF a.agentStatus = INIT THEN a.localID ELSE @,
                    !.latent_states = Append(@, state2nonObserved(mdp, a.state)),
                    !.bReachedTermState = a.agentStatus = TERM,
                    !.states = Append(@, state2observed(mdp, a.state)),
                    !.rewards = Append(@, a.reward),
                    !.totR = IF a.agentStatus = INIT THEN @ ELSE @ + a.reward],
         a>>

appendValues(EP, V, Q) ==
  [EP EXCEPT !.estimates = [f \in DOMAIN @ |->
                              CASE f = "stateValue"      -> Append(@[f], V)
                                [] f = "actionAdvantage" -> Append(@[f], Q - V)
                                [] OTHER                 -> @[f]]]

storeAction(EP, a) ==
  IF ~a.trackEpisodes
  THEN [EP EXCEPT !.actions = <<a.action>>, !.policies = <<a.policyVector>>]
  ELSE [EP EXCEPT !.actions = Append(@, a.action), !.policies = Append(@, a.policyVector)]

\* Mutant of finalize: the estimates are left for the training to fill in.
IndexOnly(EP, index) == [EP EXCEPT !.ID = index]

\* Importance weights begin at 1, except for the last state, everything else at 0.
finalize(EP, index) ==
  LET N == Len(EP.states) IN
  [EP EXCEPT !.ID = index,
     !.estimates = [f \in DOMAIN @ |->
                      IF f = "offPolicImpW" THEN Append(Resized(@[f], N - 1, 1), 0)
                      ELSE Resized(@[f], N, 0)]]

\* The last state has no action.
terminateCurrentEpisode(EP, a) ==
  [EP EXCEPT !.actions = Append(@, Zeros(Len(a.action))),
             !.policies = Append(@, Zeros(Len(a.policyVector)))]

------------------------------------------------------------------------------
(* Returns                                                                 *)

CONSTANTS gamma, lambda

ASSUME DiscountsAssumption == gamma \in Int /\ lambda \in Int

clippedOffPolW(EP, t) ==
  IF EP.estimates["offPolicImpW"][t] < 1 THEN EP.estimates["offPolicImpW"][t] ELSE 1

\* The estimate of a step from that of the next, Q.
computeRetrace(EP, t, Q) ==
  LET V == EP.estimates["stateValue"][t + 1]
      A == EP.estimates["actionAdvantage"][t + 1]
  IN EP.rewards[t + 1] + gamma * (V + lambda * clippedOffPolW(EP, t + 1) * (Q - A - V))

computeGAE(EP, t, Q) ==
  LET V == EP.estimates["stateValue"][t + 1] IN
  EP.rewards[t + 1] + gamma * (V + lambda * (Q - V))

createReturnEstimator(EP, returnsEstimator, t, Q) ==
  IF returnsEstimator = "GAE" THEN computeGAE(EP, t, Q) ELSE computeRetrace(EP, t, Q)

\* Mutant of updateReturnEstimator: a truncated episode ends like a terminated one.
UpdateFromZero(EP, lastUpdated, returnsEstimator) ==
  LET N == Len(EP.states)
      ret[t \in 1 .. N] == IF t > lastUpdated THEN EP.estimates["returnEstimator"][t]
                           ELSE createReturnEstimator(EP, returnsEstimator, t, ret[t + 1])
  IN [t \in 1 .. N |-> ret[t]]

\* From the step lastUpdated back to the first; the last has the value of its state.
updateReturnEstimator(EP, lastUpdated, returnsEstimator) ==
  LET N == Len(EP.states)
      ret[t \in 1 .. N] ==
        IF t = N /\ ~EP.bReachedTermState THEN EP.estimates["stateValue"][N]
        ELSE IF t > lastUpdated THEN EP.estimates["returnEstimator"][t]
        ELSE createReturnEstimator(EP, returnsEstimator, t, ret[t + 1])
  IN [t \in 1 .. N |-> ret[t]]

computeReturnEstimator(EP, returnsEstimator) ==
  [EP EXCEPT !.estimates = [f \in DOMAIN @ |->
     IF f # "returnEstimator" \/ returnsEstimator = "none" THEN @[f]
     ELSE updateReturnEstimator(EP, Len(EP.states) - 1, returnsEstimator)]]

------------------------------------------------------------------------------
(* Packed episodes                                                         *)

tuplSize(mdp, policyVecDim) == mdp.dimState + mdp.dimAction + policyVecDim + 1
extraSize == 10

computeTotalEpisodeSize(mdp, policyVecDim, Nstep) ==
  (tuplSize(mdp, policyVecDim) + Len(Estimates)) * Nstep + extraSize

computeTotalEpisodeNstep(mdp, policyVecDim, size) ==
  (size - extraSize) \div (tuplSize(mdp, policyVecDim) + Len(Estimates))

packEpisode(EP, mdp, policyVecDim) ==
  LET N == Len(EP.states)
      steps == [t \in 1 .. N |-> EP.states[t] \o <<EP.rewards[t]>> \o EP.actions[t]
                                 \o EP.policies[t] \o EP.latent_states[t]]
      perStep == [f \in DOMAIN Estimates |-> Resized(EP.estimates[Estimates[f]], N, 0)]
      extras == <<IF EP.bReachedTermState THEN 1 ELSE 0, EP.ID, EP.just_sampled, EP.agentID>>
  IN Resized(FlattenSeq(steps) \o FlattenSeq(perStep) \o extras,
             computeTotalEpisodeSize(mdp, policyVecDim, N), 0)

estimatesBefore(f) == CHOOSE k \in 0 .. Len(Estimates) - 1 : Estimates[k + 1] = f

unpackEpisode(data, mdp, policyVecDim) ==
  LET N == computeTotalEpisodeNstep(mdp, policyVecDim, Len(data))
      dS == dimStateObserved(mdp)
      dA == mdp.dimAction
      cells(at, n) == SubSeq(data, at + 1, at + n)
      row(t) == (t - 1) * tuplSize(mdp, policyVecDim)
      rest == N * tuplSize(mdp, policyVecDim)
      extra == rest + N * Len(Estimates)
      each(Part(_)) == [t \in 1 .. N |-> Part(row(t))]
  IN [states        |-> each(LAMBDA at : cells(at, dS)),
      rewards       |-> each(LAMBDA at : data[at + dS + 1]),
      actions       |-> each(LAMBDA at : cells(at + dS + 1, dA)),
      policies      |-> each(LAMBDA at : cells(at + dS + 1 + dA, policyVecDim)),
      latent_states |-> each(LAMBDA at : cells(at + dS + 1 + dA + policyVecDim,
                                               mdp.dimState - dS)),
      estimates     |-> [f \in Range(Estimates) |->
                           cells(rest + N * estimatesBefore(f), N)],
      totR          |-> FoldLeft(LAMBDA x, t : x + data[row(t) + dS + 1], 0,
                                 [t \in 1 .. N |-> t]),
      bReachedTermState |-> data[extra + 1] = 1,
      ID |-> data[extra + 2], just_sampled |-> data[extra + 3], agentID |-> data[extra + 4]]

------------------------------------------------------------------------------
(* An agent that is played                                                 *)

\* Numbers that tell states, rewards, actions and policies of all steps apart.
StateOf(mdp, t) == [j \in 1 .. mdp.dimState |-> 10 * t + j]
RewardOf(status, t) == IF status = INIT THEN 0 ELSE 1000 * t
ActionOf(mdp, t) == [j \in 1 .. mdp.dimAction |-> 10000 * t + j]
PolicyOf(policyVecDim, t) == [j \in 1 .. policyVecDim |-> 20000 * t + j]
AvgCumulativeReward(t) == -t

\* What differs from learner to learner: the length of its policy, whether it has a
\* critic whose values it keeps, and how it estimates returns.
Learners ==
  [policyVecDim : {1, 2}, critic : BOOLEAN, returnsEstimator : {"none", "retrace", "GAE"}]

ValueOf(t) == 3 - 2 * t
QOf(t) == t * t

\* An action is stored, or the episode ends and is handed on.
select(EP, mdp, learner, a, t) ==
  LET stored == storeState(EP, mdp, a)
      last == stored[2].agentStatus
      V == IF last = TERM THEN 0 ELSE ValueOf(t)
      valued == IF ~learner.critic THEN stored[1]
                ELSE appendValues(stored[1], V, IF last < LAST THEN QOf(t) ELSE V)
      acting == [stored[2] EXCEPT !.action = ActionOf(mdp, t),
                                  !.policyVector = PolicyOf(learner.policyVecDim, t)]
      ended == [stored[2] EXCEPT !.action = Zeros(mdp.dimAction),
                                 !.policyVector = Zeros(learner.policyVecDim)]
  IN IF last < LAST
     THEN [agent |-> acting, EP |-> storeAction(valued, acting), done |-> <<>>]
     ELSE [agent |-> ended, EP |-> Episode,
           done |-> <<computeReturnEstimator(
                        finalize(terminateCurrentEpisode(valued, ended), t),
                        learner.returnsEstimator)>>]

\* The answer to a last state has the average reward in place of an action.
answerStateAction(a, t) ==
  [a EXCEPT !.learnerTimeStepID = t, !.learnerGradStepID = t + 1,
            !.action = IF a.agentStatus >= LAST THEN <<AvgCumulativeReward(t)>> \o Tail(@)
                       ELSE @]

\* A call of the application, by its agent and the master's; t numbers the calls.
Step(s, mdp, learner, status, t) ==
  LET sent == update(s.app, status, StateOf(mdp, t), RewardOf(status, t))
      told == unpackStateMsg(s.agent, packStateMsg(sent))
      answer == select(s.EP, mdp, learner, told, t)
      agent == answerStateAction(answer.agent, t)
      app == unpackActionMsg(sent, packActionMsg(agent))
  IN [app   |-> [app EXCEPT !.learnerAvgCumulativeReward =
                    IF status >= LAST THEN app.action[1] ELSE @],
      told  |-> told, agent |-> agent, EP |-> answer.EP, done |-> s.done \o answer.done]

\* Training weighs the steps, and the returns are estimated again.
Trained(EP, returnsEstimator) ==
  computeReturnEstimator(
    [EP EXCEPT !.estimates = [f \in DOMAIN @ |->
                                CASE f = "deltaValue"   -> [t \in DOMAIN @[f] |-> 40 + t]
                                  [] f = "KullbLeibDiv" -> [t \in DOMAIN @[f] |-> 50 + t]
                                  [] f = "offPolicImpW" -> [t \in DOMAIN @[f] |-> (t - 1) % 3]
                                  [] OTHER              -> @[f]]],
    returnsEstimator)

Played(agent, learner, statuses) ==
  FoldLeft(LAMBDA s, t : Step(s, agent.MDP, learner, statuses[t], t),
           LET a == Agent(agent.localID, agent.MDP, agent.trackEpisodes) IN
           [app |-> a, told |-> a, agent |-> a, EP |-> Episode, done |-> <<>>],
           [t \in DOMAIN statuses |-> t])
------------------------------------------------------------------------------
(* What becomes of what is played                                          *)

\* Labels and actions stand for each other.
LabelsAreActions(mdp) ==
  bDiscreteActions(mdp) =>
    \A action \in {a \in [DOMAIN mdp.options -> 0 .. 2] :
                     \A j \in DOMAIN mdp.options : a[j] < mdp.options[j]} :
      LET label == actionMessage2label(mdp.options, action) IN
      /\ label < maxActionLabel(mdp.options)
      /\ label2actionMessage(mdp.options, label) = action

\* The master's agent is where the application's is; it adds the last reward later.
AgentFollows(s) ==
  /\ \A f \in {"state", "sOld", "agentStatus", "timeStepInEpisode", "reward"} :
       s.told[f] = s.app[f]
  /\ s.told.cumulativeRewards + s.told.reward = s.app.cumulativeRewards
  /\ \A f \in {"action", "learnStatus", "learnerTimeStepID", "learnerGradStepID"} :
       s.app[f] = s.agent[f]

\* An episode that was packed is what was played: nothing but its numbers is needed to
\* have the states that the application gave, its rewards and all that training wants.
EpisodeDecoded(EP, mdp, policyVecDim) ==
  LET read == unpackEpisode(packEpisode(EP, mdp, policyVecDim), mdp, policyVecDim)
      first == EP.ID - Len(EP.states)
  IN /\ read = EP
     /\ \A t \in DOMAIN EP.states :
          /\ observedAndLatent2state(mdp, read.states[t], read.latent_states[t])
               = StateOf(mdp, first + t)
          /\ read.rewards[t] = RewardOf(IF t = 1 THEN INIT ELSE CONT, first + t)

\* The weight of a step in the return of the step t (GAE has weights of 1 and no
\* advantages), ...
Clipped(EP, returnsEstimator, t) ==
  IF returnsEstimator = "GAE" THEN 1 ELSE clippedOffPolW(EP, t)

AdvantagesOf(EP, returnsEstimator) ==
  IF returnsEstimator = "GAE" THEN Zeros(Len(EP.states)) ELSE EP.estimates["actionAdvantage"]

Weight(EP, returnsEstimator, t, upTo) ==
  FoldLeft(LAMBDA w, j : w * gamma * lambda * Clipped(EP, returnsEstimator, j), 1,
           [j \in 1 .. upTo - t |-> t + j])

\* ... and the sum of what follows that step.
ReturnSum(EP, returnsEstimator, t) ==
  LET N == Len(EP.states)
      V == EP.estimates["stateValue"]
      A == AdvantagesOf(EP, returnsEstimator)
  IN FoldLeft(LAMBDA x, j : x + Weight(EP, returnsEstimator, t, j - 1)
                                  * (EP.rewards[j] + gamma * V[j])
                              - (IF j = N THEN 0
                                 ELSE Weight(EP, returnsEstimator, t, j) * (A[j] + V[j])),
              0, [j \in 1 .. N - t |-> t + j])

\* The estimates are the sums that define them: rewards and the values of the states that
\* follow, discounted, with the weights of the steps between.
ReturnsAreSums(EP, returnsEstimator) ==
  \A t \in 1 .. Len(EP.states) - 1 :
    EP.estimates["returnEstimator"][t] = ReturnSum(EP, returnsEstimator, t)

\* What is kept of the calls of an application for an agent, before training and after.
LifeKept(agent, learner, statuses) ==
  LET s == Played(agent, learner, statuses)
      ends == Cardinality({t \in DOMAIN statuses : statuses[t] >= LAST})
  IN /\ AgentFollows(s)
     /\ Len(s.done) = IF agent.trackEpisodes THEN ends ELSE 0
     /\ \A k \in DOMAIN s.done :
          \A EP \in {s.done[k], Trained(s.done[k], learner.returnsEstimator)} :
            /\ EpisodeDecoded(EP, agent.MDP, learner.policyVecDim)
            /\ learner.returnsEstimator # "none" => ReturnsAreSums(EP, learner.returnsEstimator)
     /\ s.app.agentStatus >= LAST /\ agent.trackEpisodes =>
          s.app.learnerAvgCumulativeReward = AvgCumulativeReward(Len(statuses))
==============================================================================
