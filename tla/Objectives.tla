------------------------------- MODULE Objectives -------------------------------
(***************************************************************************)
(* Objectives: what learners have the outputs of their networks do.  For a *)
(* step of the batch, the gradient that Train writes to the outputs; how   *)
(* outputs are laid out and what they are at first.                        *)
(*                                                                         *)
(* aI describes actions: nA dimensions or options, and kinds, for each     *)
(* dimension the kind of its component, or <<>> if there are options.  p   *)
(* holds beta, CmaxRet and CinvRet of ReF-ER.  act is the action of the    *)
(* step, mu the vector of the policy it was drawn from.                    *)
(***************************************************************************)
EXTENDS Advantages

Smaller(a, b) == Signed(a[1]) < Signed(b[1])
Least(a, b) == IF Smaller(a, b) THEN a ELSE b
Largest(a, b) == IF Smaller(a, b) THEN b ELSE a
PutAt(v, start, w) == [j \in DOMAIN v |-> IF j \in start + 1 .. start + Len(w) THEN w[j - start] ELSE v[j]]

count_indices(outs) == [i \in DOMAIN outs |-> FoldLeft(LAMBDA x, y : x + y, 0, SubSeq(outs, 1, i - 1))]

\* Without ReF-ER no sample is far.
bReFER(p) == Smaller(One, p.CmaxRet)
isFarPolicy(W, p) == bReFER(p) /\ (Smaller(p.CmaxRet, W) \/ Smaller(W, p.CinvRet))

penalizeReFER(grad, penal, beta) == Plus(Scaled(beta, grad), Scaled(One -- beta, penal))
weightSum2Grads(f, g, W)         == Plus(Scaled(W, f), Scaled(One -- W, g))

\* What is beyond delta, of the first nA of them, is taken back along trust.
trust_region_update(grad, trust, nA, delta) ==
  LET dot  == Sum(nA, LAMBDA j : trust[j] ** grad[j])
      norm == Sum(nA, LAMBDA j : Sq(trust[j]))
      proj == IF Positive(dot -- delta) THEN (dot -- delta) // norm ELSE Zero
  IN VectorOf(nA, LAMBDA j : grad[j] -- (proj ** trust[j]))

------------------------------------------------------------------------------
(* Policy_t: either class of policies                                      *)

Discrete(aI) == aI.kinds = <<>>
Policy(aI, start, O) ==
  IF Discrete(aI) THEN DiscretePolicy("SoftPlus", O, start[1], aI.nA)
  ELSE ContinuousPolicy(aI.kinds, O, start[1], start[2])
WeightOf(aI, pol, act, mu) ==
  IF Discrete(aI) THEN discreteWeight(pol, act, mu) ELSE importanceWeight(pol, act, mu)
DivergenceOf(aI, pol, mu) == IF Discrete(aI) THEN discreteKL(pol, mu) ELSE KLDivergence(pol, mu)
PolicyGradientOf(aI, pol, act, coef) ==
  IF Discrete(aI) THEN discreteGradient(pol, act, coef) ELSE policyGradient(pol, act, coef)
PenaltyOf(aI, pol, mu, coef) ==
  IF Discrete(aI) THEN discreteKLGradient(pol, mu, coef) ELSE KLDivGradient(pol, mu, coef)
NetworkGradOf(aI, start, netGradient, tot) ==
  IF Discrete(aI) THEN PutAt(netGradient, start[1], tot)
  ELSE makeNetworkGrad(aI.nA, start[1], start[2], netGradient, tot)

------------------------------------------------------------------------------
(* RACER: one network, for value, advantage and policy                     *)

\* Linear for small values, of their roots for large ones.
scaleV2Net(x) ==
  IF Positive(x) THEN ((x // Const(100)) ++ sqrt(One ++ x)) -- One
  ELSE ((x // Const(100)) -- sqrt(One -- x)) ++ One
scaleNet2V(x) ==
  IF Positive(x) THEN (Const(100) ** (x ++ Const(51))) -- (Const(100) ** sqrt(Const(2601) ++ (Const(100) ** x)))
  ELSE (Const(100) ** (x -- Const(51))) ++ (Const(100) ** sqrt(Const(2601) -- (Const(100) ** x)))
scaleVdiff(x) ==
  Const(100) -- (Const(5000) // sqrt(Const(2601) ++ (Const(100) ** (IF Positive(x) THEN x ELSE Neg(x)))))

\* Sizes of the outputs, and which of them start policy and advantage.
Layout(sizes, pol, adv) ==
  LET indices == count_indices(sizes) IN
  [net_outputs |-> sizes, pol_start |-> [i \in DOMAIN pol |-> indices[pol[i]]],
   adv_start |-> [i \in DOMAIN adv |-> indices[adv[i]]]]
DiscreteLayout(aI) == Layout(<<1, aI.nA, aI.nA>>, <<3>>, <<2>>)
GaussianLayout(aI) == Layout(<<1, 1 + 2 * aI.nA, aI.nA, aI.nA>>, <<3, 4>>, <<2>>)
ZeroLayout(aI)     == Layout(<<1, aI.nA, aI.nA>>, <<2, 3>>, <<>>)
nOutputs(L)        == FoldLeft(LAMBDA x, y : x + y, 0, L.net_outputs)

AdvOutputs(L, O) == SubSeq(O, L.adv_start[1] + 1, L.adv_start[1] + L.net_outputs[2])
BellOf(L, O, pol) ==
  Gaussian(AdvOutputs(L, O), Len(pol), VectorOf(Len(pol), LAMBDA i : getMean(pol[i])),
           VectorOf(Len(pol), LAMBDA i : Sq(pol[i].stdev)))
AdvantageOf(L, aI, O, pol, act) ==
  CASE L.adv_start = <<>> -> Zero
    [] Discrete(aI)       -> AdvantageOfOption(AdvOutputs(L, O), pol.probs, act)
    [] OTHER              -> AdvantageOfBell(BellOf(L, O, pol), act)
AddAdvantageGrad(L, aI, O, pol, act, Qer, netGradient) ==
  CASE L.adv_start = <<>> -> netGradient
    [] Discrete(aI)       -> PutAt(netGradient, L.adv_start[1], gradOfOption(aI.nA, pol.probs, act, Qer))
    [] OTHER              -> PutAt(netGradient, L.adv_start[1], gradOfBell(BellOf(L, O, pol), act, Qer))

RACERGradientBy(L, aI, O, act, mu, p, pol, RHO, A_RET, deltaQ) ==
  LET far    == isFarPolicy(RHO, p)
      value  == IF far THEN Zero ELSE ((Least(One, RHO) ** deltaQ) ** p.beta) ** scaleVdiff(O[1])
      penalG == PenaltyOf(aI, pol, mu, Const(-1))
      polG   == IF far THEN Zeros(Len(penalG))
                ELSE PolicyGradientOf(aI, pol, act, A_RET ** Least(p.CmaxRet, RHO))
      advErr == IF far THEN Zero ELSE p.beta ** (Least(p.CmaxRet, RHO) ** deltaQ)
  IN AddAdvantageGrad(L, aI, O, pol, act, advErr,
       NetworkGradOf(aI, L.pol_start, PutAt(Zeros(Len(O)), 0, <<value>>), penalizeReFER(polG, penalG, p.beta)))
RACERGradientOf(L, aI, O, act, mu, p, pol, A_RET) ==
  RACERGradientBy(L, aI, O, act, mu, p, pol, WeightOf(aI, pol, act, mu), A_RET,
                  A_RET -- AdvantageOf(L, aI, O, pol, act))
RACERGradient(L, aI, O, act, mu, returnEstimate, p) ==
  RACERGradientOf(L, aI, O, act, mu, p, Policy(aI, L.pol_start, O), returnEstimate -- scaleNet2V(O[1]))

\* Loss of a member of a population of parameters, for a step of the batch: avgRho and
\* avgAdv are averages over the population.
prepareCMALoss(rho, adv, dkl, avgRho, avgAdv, p, alpha) ==
  LET far     == ~Smaller(rho, p.CmaxRet) \/ ~Smaller(p.CinvRet, rho)
      clipRho == Largest(p.CinvRet, Least(rho, p.CmaxRet))
      criticError == Least(One, avgRho) ** (IF far THEN avgAdv ELSE adv)
      costAdv == Neg(p.beta ** (clipRho ** avgAdv))
      costVal == p.beta ** Sq(criticError)
      costDkl == (One -- p.beta) ** dkl
  IN (alpha ** (costAdv ++ costDkl)) ++ ((One -- alpha) ** costVal)

------------------------------------------------------------------------------
(* Other learners                                                          *)

\* DQN: the policy that the values of options stand for.
expectedValue(Qhats, Qtildes) ==
  Dot(DiscretePolicy("Exp", Qhats, 0, Len(Qhats)).probs, Qtildes)
DQNGradientOf(Qs, act, mu, TD_error, p, pol) ==
  LET far == isFarPolicy(discreteWeight(pol, act, mu), p)
      gradient == VectorOf(Len(Qs), LAMBDA i : IF i = act /\ ~far THEN TD_error ELSE Zero)
  IN IF bReFER(p) THEN penalizeReFER(gradient, discreteKLGradient(pol, mu, Const(-1)), p.beta) ELSE gradient
DQNGradient(Qs, act, mu, TD_error, p) ==
  DQNGradientOf(Qs, act, mu, TD_error, p, DiscretePolicy("Exp", Qs, 0, Len(Qs)))

\* NAF: the advantage has the mean of the policy.
NAFLayout(aI) == Layout(<<1, KL(aI.nA, aI.nA), aI.nA, aI.nA>>, <<3, 4>>, <<2, 3>>)
prepare_advantage(aI, O) ==
  LET L == NAFLayout(aI) IN
  Quadratic(AdvOutputs(L, O), SubSeq(O, L.adv_start[2] + 1, L.adv_start[2] + aI.nA),
            [i \in 1 .. aI.nA |-> aI.kinds[i] = "Squashed"], <<>>)
NAFGradientOf(aI, O, act, mu, target, explNoise, p, A, pol) ==
  LET far == isFarPolicy(WeightOf(aI, pol, act, mu), p)
      error  == IF far THEN Zero ELSE target -- (O[1] ++ computeAdvantageNoncentral(A, act))
      onMean == gradOfMean(A, act, error)
      penG   == Resize(KLDivGradient(pol, mu, Const(-1)), aI.nA)
      fix    == SubSeq(fixExplorationGrad(pol, explNoise), aI.nA + 1, 2 * aI.nA)
      refer  == bReFER(p) /\ Smaller(p.beta, One)
  IN <<error>> \o gradOfRoot(A, act, error)
     \o (IF refer THEN penalizeReFER(onMean, penG, p.beta) ELSE onMean) \o fix
NAFGradient(aI, O, act, mu, target, explNoise, p) ==
  NAFGradientOf(aI, O, act, mu, target, explNoise, p, prepare_advantage(aI, O),
                Policy(aI, NAFLayout(aI).pol_start, O))

\* PPO and DPG: the outputs of the actor are those of the policy.  PPO hands the gradient
\* of the policy over as it is.
ActorLayout(aI) ==
  IF Discrete(aI) THEN Layout(<<aI.nA>>, <<1>>, <<>>) ELSE Layout(<<aI.nA, aI.nA>>, <<1, 2>>, <<>>)
PPOGain(RHO, returnEstimate, value, CmaxPol) ==
  IF \/ Positive(returnEstimate) /\ Smaller(One ++ CmaxPol, RHO)
     \/ Positive(Neg(returnEstimate)) /\ Smaller(RHO, One -- CmaxPol)
  THEN Zero ELSE RHO ** (returnEstimate -- value)
PPOGradientOf(aI, act, mu, returnEstimate, value, CmaxPol, penalCoef, pol) ==
  LET gain == PPOGain(WeightOf(aI, pol, act, mu), returnEstimate, value, CmaxPol)
  IN weightSum2Grads(PolicyGradientOf(aI, pol, act, gain), PenaltyOf(aI, pol, mu, Neg(penalCoef)), One)
PPOGradient(aI, O, act, mu, returnEstimate, value, CmaxPol, penalCoef) ==
  PPOGradientOf(aI, act, mu, returnEstimate, value, CmaxPol, penalCoef, Policy(aI, ActorLayout(aI).pol_start, O))

\* polGrad: gradient of the value that the critic gives to the mean of the policy.
DPGGradientOf(aI, O, act, mu, polGrad, explNoise, p, pol) ==
  LET far == isFarPolicy(WeightOf(aI, pol, act, mu), p)
      onMean == IF far THEN Zeros(aI.nA) ELSE polGrad
      fix    == SubSeq(fixExplorationGrad(pol, explNoise), aI.nA + 1, 2 * aI.nA)
  IN NetworkGradOf(aI, ActorLayout(aI).pol_start, Zeros(Len(O)),
                   weightSum2Grads(onMean \o fix, PenaltyOf(aI, pol, mu, Const(-1)), p.beta))
DPGGradient(aI, O, act, mu, polGrad, explNoise, p) ==
  DPGGradientOf(aI, O, act, mu, polGrad, explNoise, p, Policy(aI, ActorLayout(aI).pol_start, O))

\* ACER: the advantage of an action is that of its network less the average over actions
\* that the policy samples.  Gradients of value, of that network at the action, and at
\* each sample; and of the policy, from the action, from a sample, and the last policies.
ACERValue(V, adv, sampled) == (V ++ adv) -- (SumOf(sampled) // Const(Len(sampled)))
ACERErrors(V, adv, sampled, Q_RET, RHO) ==
  LET Q_err == Q_RET -- ACERValue(V, adv, sampled) IN
  [value |-> (Q_err ** Least(One, RHO)) ++ Q_err, action |-> Q_err,
   samples |-> VectorOf(Len(sampled), LAMBDA k : Neg(Q_err) // Const(Len(sampled)))]
ACERGradient(pol, act, policy_sample, mu, A_OPC, APol, target) ==
  LET RHO     == importanceWeight(pol, act, mu)
      rho_pol == evalProbability(pol, policy_sample) // evalBehavior(pol, policy_sample, mu)
      gain1   == A_OPC ** Least(Const(5), RHO)
      gain2   == APol ** Largest(Zero, One -- (Const(5) // rho_pol))
  IN trust_region_update(Plus(policyGradient(pol, act, gain1), policyGradient(pol, policy_sample, gain2)),
                         KLDivGradient(pol, target, One), 2 * Len(pol), One)

\* MixedPG: the critic gives values to the action (qval) and to the mean of the policy
\* (sval), by the gradient of which, dS, the mean goes as well: it is what comes out of the
\* critic for the error Verr that went in.  The value of the state comes after the mean in
\* the outputs of the actor.
MixedPGPolicy(aI, O)      == ContinuousPolicy(aI.kinds, O, 0, aI.nA + 1)
MixedPGValue(aI, O, sval) == Halved(sval ++ O[aI.nA + 1])
MixedPGErrors(RHO, dQ, dV, p) ==
  LET far  == isFarPolicy(RHO, p)
      over == far /\ Smaller(One, RHO)   under == far /\ Smaller(RHO, One)
  IN [action |-> CASE ~far -> RHO ** dQ
                   [] over /\ Smaller(dQ, Zero)  -> Least(p.CmaxRet, RHO) ** dQ
                   [] under /\ Positive(dQ)    -> Largest(p.CinvRet, RHO) ** dQ
                   [] OTHER -> Zero,
      mean |-> IF ~far \/ (over /\ Positive(dV)) \/ (under /\ Smaller(dV, Zero)) THEN dV ELSE Zero]
MixedPGGradientBy(aI, O, act, mu, qval, sval, Q_RET, dS, DPGfactor, p, pol, RHO) ==
  LET far  == isFarPolicy(RHO, p)
      Verr == MixedPGErrors(RHO, Q_RET -- qval, O[aI.nA + 1] -- sval, p).mean
      SPG  == policyGradient(pol, act, (Q_RET -- MixedPGValue(aI, O, sval)) ** RHO)
      onMean(i) == IF i > aI.nA \/ Verr[1] = 0 THEN Zero ELSE ((dS[i] ** Verr) // Verr) ** DPGfactor[i]
      tot   == VectorOf(2 * aI.nA, LAMBDA i : IF far THEN Zero ELSE SPG[i] ++ onMean(i))
      value == IF far THEN Zero ELSE (p.beta ** Least(One, RHO)) ** (Q_RET -- (qval -- sval) -- O[aI.nA + 1])
  IN makeNetworkGrad(aI.nA, 0, aI.nA + 1, PutAt(Zeros(Len(O)), aI.nA, <<value>>),
                     penalizeReFER(tot, KLDivGradient(pol, mu, Const(-1)), p.beta))
MixedPGGradientOf(aI, O, act, mu, qval, sval, Q_RET, dS, DPGfactor, p, pol) ==
  MixedPGGradientBy(aI, O, act, mu, qval, sval, Q_RET, dS, DPGfactor, p, pol, importanceWeight(pol, act, mu))
MixedPGGradient(aI, O, act, mu, qval, sval, Q_RET, dS, DPGfactor, p) ==
  MixedPGGradientOf(aI, O, act, mu, qval, sval, Q_RET, dS, DPGfactor, p, MixedPGPolicy(aI, O))

------------------------------------------------------------------------------
(* Outputs at first                                                        *)

\* BaseLayer::initialize: biases, asked for or 0.
BaseInitialize(func, size, initVals) ==
  VectorOf(size, LAMBDA o : IF Len(initVals) # size THEN Zero ELSE inverse(func, initVals[o]))

Repeat(n, value)   == VectorOf(n, LAMBDA i : value)
initialStdevs(aI, explNoise) == VectorOf(aI.nA, LAMBDA i : initial_Stdev(aI.kinds[i], explNoise))

\* For inputs that are 0: those of the last layer, and of the layer of parameters that
\* holds the deviations.
AtFirst(aI, size, biases, explNoise) ==
  LET B     == BaseInitialize("Linear", size, biases)
      param == ParamInitialize("Linear", initialStdevs(aI, explNoise))
  IN BaseForward("Linear", Zeros(2), NoStep, [W |-> Table(3, 2, size), B |-> B]).Y \o ParamForward("Linear", param).Y

setInitial(L, aI) ==
  IF L.adv_start = <<>> THEN <<>> ELSE <<Const(-1)>> \o Repeat(L.net_outputs[2] - 1, One)
RACERSetupNet(L, aI, explNoise) ==
  AtFirst(aI, nOutputs(L) - aI.nA, <<Zero>> \o setInitial(L, aI) \o Zeros(aI.nA), explNoise)
NAFSetupNet(aI, explNoise)   == AtFirst(aI, (1 + aI.nA) + KL(aI.nA, aI.nA), <<>>, explNoise)
ActorSetupNet(aI, explNoise) == AtFirst(aI, aI.nA, <<>>, explNoise)

------------------------------------------------------------------------------
(* Values that are stored with a step: by selectAction, by processTerminal *)
(* with the last one, and by Train with the last one of a truncated        *)
(* episode.                                                                *)

ValueAtEnd(truncated, V) == IF truncated THEN V ELSE Zero

RACERSelectionBy(L, aI, O, action, pol, V) ==
  [V |-> V, Q |-> V ++ AdvantageOf(L, aI, O, pol, action), mu |-> IF Discrete(aI) THEN pol.probs ELSE getVector(pol)]
RACERSelectAction(L, aI, O, action) ==
  RACERSelectionBy(L, aI, O, action, Policy(aI, L.pol_start, O), scaleNet2V(O[1]))
RACERProcessTerminal(truncated, O) == ValueAtEnd(truncated, scaleNet2V(O[1]))
RACERValueNext(Onext) == scaleNet2V(Onext[1])

DQNSelectAction(Qs, act) ==
  [V |-> expectedValue(Qs, Qs), Q |-> Qs[act], mu |-> DiscretePolicy("Exp", Qs, 0, Len(Qs)).probs]
DQNProcessTerminal(truncated, Qs) == ValueAtEnd(truncated, expectedValue(Qs, Qs))
DQNValueNext(Qhats) == expectedValue(Qhats, Qhats)

NAFSelectAction(aI, O, act) ==
  [V |-> O[1], Q |-> O[1] ++ computeAdvantageNoncentral(prepare_advantage(aI, O), act)]
NAFProcessTerminal(truncated, O) == ValueAtEnd(truncated, O[1])

\* Train writes the value of the action, too.
MixedPGSelectAction(aI, O, qval, sval) ==
  [V |-> MixedPGValue(aI, O, sval), Q |-> (qval ++ Halved(O[aI.nA + 1])) -- Halved(sval)]
MixedPGTrainValues(aI, O, qval, sval) ==
  LET Vest == MixedPGValue(aI, O, sval) IN [V |-> Vest, Q |-> Vest ++ (qval -- sval)]
MixedPGProcessTerminal(truncated, aI, O, sval) == ValueAtEnd(truncated, MixedPGValue(aI, O, sval))

------------------------------------------------------------------------------
(* ActionInfo: actions and policies as the environment has them            *)

getActScale(range) == Halved(range.upper -- range.lower)
getActShift(range) == Halved(range.upper ++ range.lower)
Bounded(range, x)  == IF range.bounded THEN Tanh("eval", x, Zero) ELSE x
learnerAction2envAction(range, act) == (getActScale(range) ** Bounded(range, act)) ++ getActShift(range)
envAction2learnerAction(range, envAct) ==
  LET descaled == (envAct -- getActShift(range)) // getActScale(range) IN
  Halved(log((One ++ descaled) // (One -- descaled)))
learnerPolicy2envPolicy(range, mean, stdev) ==
  LET e == exp(mean)
      stdFactor == IF range.bounded THEN Sq((Const(2) ** e) // (One ++ Sq(e))) ELSE One
  IN [mean |-> learnerAction2envAction(range, mean), stdev |-> (getActScale(range) ** stdFactor) ** stdev]

------------------------------------------------------------------------------
(* Properties                                                              *)

Options == [nA |-> 3, kinds |-> <<>>]
ReFERParams  == [beta |-> Const(7) // Const(10), CmaxRet |-> Const(400), CinvRet |-> Const(2)]
NoReFER == [ReFERParams EXCEPT !.CmaxRet = One]

\* Values are scaled for the network and back, and the derivative is that of the way back.
ValuesScaled ==
  \A v \in {<<x % Prime, 1>> : x \in -100 .. 100} :
    LET s == One ++ fabs(v)  x == scaleV2Net(v) IN
    /\ IsSquare(s) /\ IsSquare(sqrt(s) ++ Const(50)) /\ v[1] # 0 /\ (Positive(x) <=> Positive(v))
       => Fixed(scaleNet2V(x)) = Fixed(v)
    /\ IsSquare(Const(2601) ++ (Const(100) ** fabs(v)))
       => Fixed(scaleVdiff(v)) = Rate(scaleNet2V(v))

\* The outputs at i stay as they are.
Held(O, I) == [i \in DOMAIN O |-> IF i \in I THEN Fixed(O[i]) ELSE O[i]]
After(start, n) == start + 1 .. start + n


\* Settings of RACER, and outputs for which functions have a value.
Dims1 == {[nA |-> 1, kinds |-> <<k>>] : k \in {"Normal", "Squashed"}}
Dims2 == {[nA |-> 2, kinds |-> k] : k \in {<<"Normal", "Squashed">>, <<"Squashed", "Squashed">>}}
RACERs ==
  {[aI |-> Options, L |-> DiscreteLayout(Options)]} \cup
  {[aI |-> aI, L |-> ZeroLayout(aI)] : aI \in Dims2} \cup {[aI |-> aI, L |-> GaussianLayout(aI)] : aI \in Dims1}

Positioned(aI, L) == After(L.pol_start[Len(L.pol_start)], aI.nA)
OutputsOf(aI, L, seeds, rooted) ==
  {O \in {Vec(seed, nOutputs(L)) : seed \in seeds} : \A i \in Positioned(aI, L) \cup rooted : HasRoot(O[i])}
RACEROutputs(R) ==
  LET bell == ~Discrete(R.aI) /\ R.L.adv_start # <<>>
      rooted == IF bell THEN After(R.L.adv_start[1], R.L.net_outputs[2]) ELSE {}
  IN {O \in OutputsOf(R.aI, R.L, 1 .. (IF bell THEN 1000 ELSE 100), rooted) :
        /\ IsSquare(Const(2601) ++ (Const(100) ** fabs(O[1])))
        /\ bell => \A A \in {BellOf(R.L, O, Policy(R.aI, R.L.pol_start, O))} :
                   \A k \in 1 .. 2 : IsSquare(A.matrix[k] // (A.matrix[k] ++ A.variance[1]))}

ActOf(aI) == IF Discrete(aI) THEN 2 ELSE Resize(Act2, aI.nA)
MuOf(aI)  == Resize(<<Const(3), Const(7), Const(12), Const(21)>>, IF Discrete(aI) THEN 3 ELSE 2 * aI.nA)
LogProbability(aI, pol, act) ==
  IF Discrete(aI) THEN log(pol.probs[act]) ELSE Sum(aI.nA, LAMBDA i : logProb(pol[i], act[i]))
NotCut(aI, pol) == Discrete(aI) \/ Inside(pol)

\* RACER has the outputs follow beta times the return estimate, by way of the value, of the
\* probability of the action and of its advantage, each by its own weight, and 1 - beta
\* times less divergence; a far sample only the latter.
RACERFollows ==
  \A R \in RACERs : \A O \in RACEROutputs(R) : \A p \in {ReFERParams, NoReFER} :
    LET aI == R.aI   L == R.L   act == ActOf(aI)   mu == MuOf(aI) IN
    \A pol \in {Policy(aI, L.pol_start, O)}, held \in {Held(O, DOMAIN O \ (1 .. L.pol_start[1]))},
       V \in {scaleNet2V(O[1])} :
    \A RHO \in {Fixed(WeightOf(aI, pol, act, mu))},
       Adv \in {AdvantageOf(L, aI, held, Policy(aI, L.pol_start, held), act)} :
    LET A_RET == Const(123) -- Fixed(V)
        err   == A_RET -- Fixed(Adv)
        gain  == ((Least(One, RHO) ** err) ** Rate(V)) ++
                 ((Least(p.CmaxRet, RHO) ** A_RET) ** Rate(LogProbability(aI, pol, act))) ++
                 ((Least(p.CmaxRet, RHO) ** err) ** Rate(Adv))
    IN NotCut(aI, pol) =>
         Equal(Change(RACERGradient(L, aI, O, act, mu, Const(123), p), O),
               ((IF isFarPolicy(RHO, p) THEN Zero ELSE p.beta ** gain) --
                ((One -- p.beta) ** Rate(DivergenceOf(aI, pol, mu))))[1])

\* A population searches for what the gradients lead to: the loss of a member falls along
\* the gradient of the policy, by alpha, and along that of the value.
PopulationFollows ==
  \A aI \in Dims2 : \A O \in RACEROutputs([aI |-> aI, L |-> ZeroLayout(aI)]) :
    LET L == ZeroLayout(aI)   act == ActOf(aI)   mu == MuOf(aI)   alpha == Const(3) // Const(10) IN
    \A pol \in {Policy(aI, L.pol_start, O)}, A_RET \in {Const(123) -- scaleNet2V(O[1])},
       grad \in {RACERGradient(L, aI, O, act, mu, Const(123), ReFERParams)} :
    \A RHO \in {importanceWeight(pol, act, mu)} :
    LET loss  == prepareCMALoss(RHO, A_RET, KLDivergence(pol, mu), Fixed(RHO), Fixed(A_RET), ReFERParams, alpha)
        part(I) == Const(Change([j \in DOMAIN O |-> IF j \in I THEN grad[j] ELSE Zero], O))
    IN (Inside(pol) /\ fabs(logWeight(pol, act, mu))[1] < MaxLogW) =>
         Rate(loss) = Fixed(Neg((alpha ** part(DOMAIN O \ {1})) ++
                      (((One -- alpha) ** (Const(2) ** Least(One, RHO))) ** part({1}))))

\* DQN: the value of the option, and divergence of the policy that the values stand for.
DQNFollows ==
  \A seed \in 1 .. 60, p \in {ReFERParams, NoReFER} : \A act \in 1 .. 3 :
    LET Qs == Vec(seed, 3)   mu == MuOf(Options) IN
    \A pol \in {DiscretePolicy("Exp", Qs, 0, 3)} :
    LET far == isFarPolicy(discreteWeight(pol, act, mu), p)
        TD  == IF far THEN Zero ELSE Const(57) ** Rate(Qs[act])
    IN pol.normalization[1] # 0 =>
         Equal(Change(DQNGradient(Qs, act, mu, Const(57), p), Qs),
               (IF bReFER(p) THEN (p.beta ** TD) -- ((One -- p.beta) ** Rate(discreteKL(pol, mu))) ELSE TD)[1])

\* NAF: the value of the action, of which beta only weighs the mean; divergence by the
\* mean alone; and the exploration asked for.  DPG: the value that the critic gives to the
\* mean, divergence, and exploration.
ActorsFollow ==
  \A aI \in Dims2, p \in {ReFERParams, NoReFER} :
    LET mu == MuOf(aI)   act == ActOf(aI)   aim == Const(37)
        kept(pol, kinds) == Sum(2, LAMBDA i : Rate(Neg(Sq(aim -- pol[i].stdev) // Const(4))))
    IN
    /\ LET L == NAFLayout(aI)   mean == After(L.pol_start[1], 2)
           bounded == {L.pol_start[1] + i : i \in {j \in 1 .. 2 : aI.kinds[j] = "Squashed"}} IN
       \A O \in OutputsOf(aI, L, 1 .. 300, bounded \cup {2, 4}) :
       \A pol \in {Policy(aI, L.pol_start, O)} :
         LET far == isFarPolicy(importanceWeight(pol, act, mu), p)
             Q(o) == o[1] ++ computeAdvantageNoncentral(prepare_advantage(aI, o), act)
             error == IF far THEN Zero ELSE Const(123) -- Fixed(Q(O))
             onlyMean == Held(O, DOMAIN O \ mean)
             beta == IF bReFER(p) THEN p.beta ELSE One
         IN Equal(Change(NAFGradient(aI, O, act, mu, Const(123), aim, p), O),
                  (((error ** Rate(Q(Held(O, mean)))) ++ ((beta ** error) ** Rate(Q(onlyMean)))) ++
                   (kept(pol, aI.kinds) --
                    ((One -- beta) ** Rate(KLDivergence(Policy(aI, L.pol_start, onlyMean), mu)))))[1])
    /\ LET L == ActorLayout(aI)   dQ == <<Const(71), Const(82)>> IN
       \A O \in OutputsOf(aI, L, 1 .. 60, {}) :
       \A pol \in {Policy(aI, L.pol_start, O)} :
         LET far == isFarPolicy(importanceWeight(pol, act, mu), p)
         IN Equal(Change(DPGGradient(aI, O, act, mu, dQ, aim, p), O),
                  ((p.beta ** (kept(pol, aI.kinds) ++ (IF far THEN Zero ELSE Const(Change(dQ, Resize(O, 2)))))) --
                   ((One -- p.beta) ** Rate(KLDivergence(pol, mu))))[1])

\* PPO: the probability of the action alone, whatever the coefficient of the penalty; what
\* is handed over is placed as the outputs are.
PPOFollows ==
  \A aI \in Dims2 \cup {Options} : \A O \in OutputsOf(aI, ActorLayout(aI), 1 .. 60, {}) :
    LET L == ActorLayout(aI)   mu == MuOf(aI)   act == ActOf(aI) IN
    \A pol \in {Policy(aI, L.pol_start, O)},
       grad \in {PPOGradient(aI, O, act, mu, Const(123), Const(12), Const(300), Const(45))} :
    LET gain == PPOGain(Fixed(WeightOf(aI, pol, act, mu)), Const(123), Const(12), Const(300))
    IN /\ NetworkGradOf(aI, L.pol_start, Zeros(Len(O)), grad) = grad
       /\ NotCut(aI, pol) => Equal(Change(grad, O), (gain ** Rate(LogProbability(aI, pol, act)))[1])

\* ACER: the critics follow the value of the action as they compose it, and the value once
\* more; along what leads away from the last policies, the actor is pulled back to delta.
ACERFollows ==
  /\ \A seed \in 1 .. 20 :
       LET v == Vec(seed, 5)
           sampled == SubSeq(v, 3, 5)
           e == ACERErrors(v[1], v[2], sampled, Const(123), Const(seed - 10))
           Q == ACERValue(v[1], v[2], sampled)
           err == Const(123) -- Fixed(Q)
       IN Equal(Change(<<e.value, e.action>> \o e.samples, v),
                ((err ** Rate(Q)) ++ ((err ** Least(One, Const(seed - 10))) ** Rate(v[1])))[1])
  /\ \A g, t \in [1 .. 3 -> -1 .. 1] : t # [i \in 1 .. 3 |-> 0] =>
       LET grad  == VectorOf(3, LAMBDA i : Const(2 * g[i]))
           trust == VectorOf(3, LAMBDA i : Const(t[i]))
       IN Dot(trust, trust_region_update(grad, trust, 3, Const(3))) = Least(Const(3), Dot(trust, grad))

\* Before the first update a network whose inputs are 0 gives value 0 and a policy of mean
\* 0 and of the exploration asked for, where its learner looks for them; so does the
\* advantage find its own.
StartsAsAsked ==
  \A T \in {Fixed(SoftPlusOf(x)) : x \in {y \in Points : HasRoot(y)}} : \A aI \in Dims2 :
    LET asked(pol) == \A i \in 1 .. 2 : pol[i].mean = Zero /\ pol[i].stdev = T
        Starts(L, O) ==
          Len(O) = nOutputs(L) /\ \A pol \in {Policy(aI, L.pol_start, O)} : asked(pol)
    IN HasRoot(SoftPlus("inverse", T, Zero)) =>
       /\ \A L \in {ZeroLayout(aI), GaussianLayout(aI)} :
            \A O \in {RACERSetupNet(L, aI, T)} :
            /\ Starts(L, O) /\ scaleNet2V(O[1]) = Zero
            /\ L.adv_start # <<>> => AdvOutputs(L, O) = <<Const(-1)>> \o Repeat(4, One)
       /\ Starts(NAFLayout(aI), NAFSetupNet(aI, T))
       /\ Starts(ActorLayout(aI), ActorSetupNet(aI, T))

\* The value stored with a state is the average, by the policy that is stored with it, of
\* those of the options, and the same whether the state is in the middle or, truncated, at
\* the end, where Train writes it again; for NAF it is that of the best action.
StoredValuesAgree ==
  LET average(step) == Dot(step[1].mu, [act \in 1 .. 3 |-> step[act].Q]) IN
  /\ \A O \in RACEROutputs([aI |-> Options, L |-> DiscreteLayout(Options)]) :
       LET L == DiscreteLayout(Options) IN
       \A step \in {[act \in 1 .. 3 |-> RACERSelectAction(L, Options, O, act)]} :
       average(step) = step[1].V /\ RACERProcessTerminal(TRUE, O) = step[1].V /\ RACERValueNext(O) = step[1].V
  /\ \A seed \in 1 .. 60 :
       LET Qs == Vec(seed, 3) IN
       DiscretePolicy("Exp", Qs, 0, 3).normalization[1] # 0 =>
       \A step \in {[act \in 1 .. 3 |-> DQNSelectAction(Qs, act)]} :
       average(step) = step[1].V /\ DQNProcessTerminal(TRUE, Qs) = step[1].V /\ DQNValueNext(Qs) = step[1].V
  /\ LET aI == [nA |-> 2, kinds |-> <<"Normal", "Normal">>] IN
     \A O \in OutputsOf(aI, NAFLayout(aI), 1 .. 100, {2, 4}) :
       LET best == prepare_advantage(aI, O).mean  step == NAFSelectAction(aI, O, best) IN
       step.Q = step.V /\ NAFProcessTerminal(TRUE, O) = step.V
  /\ LET aI == [nA |-> 1, kinds |-> <<"Normal">>] IN
     \A seed \in 1 .. 20 :
       LET O == Vec(seed, 3)   v == Vec(seed + 1, 2)   step == MixedPGSelectAction(aI, O, v[1], v[2]) IN
       step = MixedPGTrainValues(aI, O, v[1], v[2]) /\ MixedPGProcessTerminal(TRUE, aI, O, v[2]) = step.V

\* MixedPG: the value of the state, as it is without the advantage of the action, the
\* probability of the action, and the value of the mean by as much as DPGfactor says,
\* whatever error was passed back through the critic to know it.
MixedPGFollows ==
  LET dS == <<Const(71), Const(82)>>   factor == <<Const(3), Const(5)>>
      Layer(aI) == Layout(<<2, 1, 2>>, <<1, 3>>, <<>>) IN
  \A aI \in Dims2, p \in {ReFERParams, NoReFER} : \A O \in OutputsOf(aI, Layer(aI), 1 .. 60, {}) :
    LET act == ActOf(aI)   mu == MuOf(aI) IN
    \A pol \in {MixedPGPolicy(aI, O)} : \A RHO \in {Fixed(importanceWeight(pol, act, mu))} :
    LET sval == O[3] -- Const(8)
        grad == MixedPGGradient(aI, O, act, mu, Const(40), Fixed(sval), Const(123),
                                dS, factor, p)
        V    == Fixed(Halved(O[3] ++ sval))
        err  == Const(123) -- Const(40) -- Const(8)
        gain == ((Least(One, RHO) ** err) ** Rate(O[3])) ++
                (((Const(123) -- V) ** RHO) ** Rate(LogProbability(aI, pol, act))) ++
                Const(Change(<<factor[1] ** dS[1], factor[2] ** dS[2]>>, Resize(O, 2)))
    IN Inside(pol) =>
         Equal(Change(grad, O),
               ((IF isFarPolicy(RHO, p) THEN Zero ELSE p.beta ** gain) --
                ((One -- p.beta) ** Rate(KLDivergence(pol, mu))))[1])

\* An action that is known from the environment is taken back to the one that it comes
\* from; what is said to the environment of the spread of a policy is by how much its
\* actions change with those of the policy, at the mean.
ActionsScaled ==
  \A range \in [lower : {Const(-3), Const(5)}, upper : {Const(11), Const(40)}, bounded : BOOLEAN],
     x \in {<<a % Prime, 1>> : a \in -100 .. 100} :
    LET e == learnerAction2envAction(range, x) IN
    /\ range.bounded /\ Invertible("Tanh", x) => envAction2learnerAction(range, e) = x
    /\ (One ++ Sq(exp(x)))[1] # 0 =>
         LET env == learnerPolicy2envPolicy(range, x, Const(17)) IN
         env.mean = e /\ Fixed(env.stdev) = Rate(e) ** Const(17)
==============================================================================
