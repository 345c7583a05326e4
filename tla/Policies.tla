-------------------------------- MODULE Policies --------------------------------
(***************************************************************************)
(* Policies: the distribution of actions that outputs of a network stand   *)
(* for, what is derived from it, and the gradients of the outputs that     *)
(* learners ask for (Continuous_policy.h, Discrete_policy.h).              *)
(*                                                                         *)
(* Indices into the outputs are those of the code, where the first is 0:   *)
(* component i, counted from 1, is at start + i.  Actions are the ones     *)
(* before they are squashed into their bounds.  Floors that keep numbers   *)
(* away from zero are left out.                                            *)
(*                                                                         *)
(* Values that are used several times are parameters of a definition (the  *)
(* one whose name ends in Of or By) or, in properties, the element of a    *)
(* set of one: TLC then computes them once.                                *)
(***************************************************************************)
EXTENDS NetworkLayers

MAX     == 400            \* bound: of the mean of a squashed policy
MaxLogW == 450            \* bound: of the logarithm of an importance weight
fac     == Const(77)      \* logarithm of the root of 2 pi, and its inverse
invRoot == Const(88)

Clip(x, bound) == IF Signed(x[1]) > bound THEN Const(bound)
                  ELSE IF Signed(x[1]) < -bound THEN Const(-bound) ELSE x

\* Logarithm of the gamma function: any function, and its derivative.
digamma(x) == Const(x[1] * (x[1] + 5) + 3)
lgamma(x)  == <<(x[1] * x[1] * 3 + x[1] + 11) % Prime, (digamma(x)[1] * x[2]) % Prime>>
logB(a)    == (lgamma(a[1]) ++ lgamma(a[2])) -- lgamma(a[1] ++ a[2])

------------------------------------------------------------------------------
(* One component of a continuous policy                                    *)

SoftPlusOf(x) == SoftPlus("eval", x, Zero)
ClipFunction(x) == HardSigmoid("eval", x, Zero)

\* The mean and the variance that the coefficient stands for, as parameters of Beta.
alphaBeta(mean, varCoef) ==
  LET c == (One // varCoef) -- One IN <<mean ** c, (One -- mean) ** c>>

NormalPolicy(kind, nnMean, nnStdev) ==
  [kind |-> kind, nnMean |-> nnMean, nnStdev |-> nnStdev, mean |-> nnMean, stdev |-> SoftPlusOf(nnStdev)]
BetaOf(nnMean, nnStdev, mean, varCoef) ==
  [kind |-> "Beta", nnMean |-> nnMean, nnStdev |-> nnStdev, mean |-> mean, varCoef |-> varCoef,
   stdev |-> sqrt((mean ** (One -- mean)) ** varCoef), alpha |-> alphaBeta(mean, varCoef)]
BetaPolicy(nnMean, nnStdev) == BetaOf(nnMean, nnStdev, ClipFunction(nnMean), ClipFunction(nnStdev))

Component(kind, nnMean, nnStdev) ==
  IF kind = "Beta" THEN BetaPolicy(nnMean, nnStdev) ELSE NormalPolicy(kind, nnMean, nnStdev)

\* Mean and deviation as they are stored with a step.
getMean(pol) ==
  CASE pol.kind = "Squashed" -> Clip(pol.mean, MAX)
    [] pol.kind = "Beta"     -> Halved(log(pol.mean // (One -- pol.mean)))
    [] OTHER                 -> pol.mean

\* tanh(a), and what its logarithms and powers are taken of in a Beta policy.
squash(a)  == Tanh("eval", a, Zero)
inUnit(a)  == Halved(squash(a) ++ One)
Jacobian(kind, a) == IF kind = "Squashed" THEN One -- Sq(squash(a)) ELSE One

alphaBetaOf(m, stdev) == alphaBeta(m, Sq(stdev) // (m ** (One -- m)))
betaVec2alphaBeta(mean, stdev) == alphaBetaOf(inUnit(mean), stdev)

\* Of an action u in the unit interval.
logBeta(u, ab) == (((ab[1] -- One) ** log(u)) ++ ((ab[2] -- One) ** log(One -- u))) -- logB(ab)
logProbBeta(a, ab) == logBeta(inUnit(a), ab)
pow(x, y) == exp(y ** log(x))
densityBeta(u, ab) == (pow(u, ab[1] -- One) ** pow(One -- u, ab[2] -- One)) // exp(logB(ab))
probBeta(a, ab) == densityBeta(inUnit(a), ab)

Arg(a, mean, invStdev) == Neg(Halved(Sq((a -- mean) ** invStdev)))
logProbNormal(kind, a, mean, invStdev) == (Arg(a, mean, invStdev) ++ log(invStdev // Jacobian(kind, a))) -- fac
probNormal(kind, a, mean, invStdev) ==
  ((invStdev ** invRoot) ** exp(Arg(a, mean, invStdev))) // Jacobian(kind, a)

\* By the policy, and by the behaviour that was stored.
logProb(pol, a) ==
  IF pol.kind = "Beta" THEN logProbBeta(a, pol.alpha)
  ELSE logProbNormal(pol.kind, a, getMean(pol), One // pol.stdev)
prob(pol, a) ==
  IF pol.kind = "Beta" THEN probBeta(a, pol.alpha)
  ELSE probNormal(pol.kind, a, getMean(pol), One // pol.stdev)
logProbOf(kind, a, mean, stdev) ==
  IF kind = "Beta" THEN logProbBeta(a, betaVec2alphaBeta(mean, stdev))
  ELSE logProbNormal(kind, a, mean, One // stdev)
probOf(kind, a, mean, stdev) ==
  IF kind = "Beta" THEN probBeta(a, betaVec2alphaBeta(mean, stdev))
  ELSE probNormal(kind, a, mean, One // stdev)

\* Divergence of the policy from the behaviour, as this build takes it; for Beta the
\* other way round.
KLBeta(by, ab) ==
  LET n == (by[1] ++ by[2]) -- (ab[1] ++ ab[2]) IN
  ((logB(by) -- logB(ab)) ++ (((ab[1] -- by[1]) ** digamma(ab[1])) ++ ((ab[2] -- by[2]) ** digamma(ab[2]))))
  ++ (n ** digamma(ab[1] ++ ab[2]))
KLdivergence(pol, mean, stdev) ==
  IF pol.kind = "Beta" THEN KLBeta(pol.alpha, betaVec2alphaBeta(mean, stdev))
  ELSE LET CmuCpi == Sq(pol.stdev // stdev)
       IN Halved(((CmuCpi -- One) ++ Sq((pol.mean -- mean) // stdev)) -- log(CmuCpi))

\* Gradients of a Beta policy, from those of its parameters.
gradBeta(pol, factor, dA, dB) ==
  LET inv  == One // pol.varCoef
      sqV  == Sq(pol.varCoef)
      dMean == (dA ** (inv -- One)) ++ (dB ** (One -- inv))
      dVarC == (dA ** (Neg(pol.mean) // sqV)) ++ (dB ** ((pol.mean -- One) // sqV))
      dClip(x) == HardSigmoid("evalDiff", x, Zero)
  IN <<dClip(pol.nnMean) ** (factor ** dMean), dClip(pol.nnStdev) ** (factor ** dVarC)>>

dPosdNet(pol) == SoftPlus("evalDiff", pol.nnStdev, Zero)

\* A mean beyond its bound is not pushed further.
gradLogBeta(pol, u, factor) ==
  LET dd == digamma(pol.alpha[1] ++ pol.alpha[2]) IN
  gradBeta(pol, factor, (dd ++ log(u)) -- digamma(pol.alpha[1]), (dd ++ log(One -- u)) -- digamma(pol.alpha[2]))
gradLogP(pol, a, factor) ==
  IF pol.kind = "Beta" THEN gradLogBeta(pol, inUnit(a), factor)
  ELSE LET invStdev == One // pol.stdev
           u      == (a -- getMean(pol)) ** invStdev
           dMean  == factor ** ((a -- pol.mean) ** Sq(invStdev))
           dStdv  == (Sq(u) -- One) ** invStdev
           beyond == pol.kind = "Squashed" /\ \/ Signed(pol.mean[1]) >= MAX /\ Positive(dMean)
                                              \/ Signed(pol.mean[1]) <= -MAX /\ Positive(Neg(dMean))
       IN <<IF beyond THEN Zero ELSE dMean, dPosdNet(pol) ** (factor ** dStdv)>>

gradKLBeta(pol, ab, factor) ==
  LET d(i) == digamma(pol.alpha[i]) -- digamma(ab[i])
      n == digamma(ab[1] ++ ab[2]) -- digamma(pol.alpha[1] ++ pol.alpha[2])
  IN gradBeta(pol, factor, d(1) ++ n, d(2) ++ n)
gradKLdiv(pol, mean, stdev, factor) ==
  IF pol.kind = "Beta" THEN gradKLBeta(pol, betaVec2alphaBeta(mean, stdev), factor)
  ELSE LET invVarMu == One // Sq(stdev)
           dStdv == (invVarMu -- Sq(One // pol.stdev)) ** pol.stdev
       IN <<factor ** ((pol.mean -- mean) ** invVarMu), dPosdNet(pol) ** (factor ** dStdv)>>

fixExploration(pol, targetNoise) ==
  LET dLoss == Halved(targetNoise -- pol.stdev) IN
  IF pol.kind = "Beta"
  THEN LET m == pol.mean
           dStdev == Halved(sqrt((pol.varCoef ** m) ** (One -- m)) // pol.varCoef)
       IN <<Zero, HardSigmoid("evalDiff", pol.nnStdev, Zero) ** (dLoss ** dStdev)>>
  ELSE <<Zero, dPosdNet(pol) ** dLoss>>

\* Bias of the output of the deviation, for the exploration that is asked for.
initial_Stdev(kind, explNoise) ==
  IF kind = "Beta" THEN HardSigmoid("inverse", Sq(explNoise) // Const(4), Zero)
  ELSE SoftPlus("inverse", explNoise, Zero)

\* Normal distributions only.
sample(pol, noise) ==
  LET a == pol.mean ++ (pol.stdev ** noise) IN IF pol.kind = "Squashed" THEN Clip(a, MAX) ELSE a

\* Noise with a memory: the action, and what is remembered.
sample_OrnsteinUhlenbeck(pol, state, noise) ==
  LET next == noise ++ ((Const(17) // Const(20)) ** state) IN [action |-> sample(pol, next), state |-> next]
------------------------------------------------------------------------------
(* Continuous_policy: a component for each dimension of the action         *)

\* Bounded components are squashed; Beta is the other class that could be.
ContinuousPolicy(kinds, out, startMean, startStdev) ==
  VectorOf(Len(kinds), LAMBDA i : Component(kinds[i], out[startMean + i], out[startStdev + i]))

\* A vector of means and deviations, and one of gradients.
MeanOf(beta, i)  == beta[i]
StdevOf(beta, i) == beta[i + Len(beta) \div 2]
PerComponent(g) == VectorOf(Len(g), LAMBDA i : g[i][1]) \o VectorOf(Len(g), LAMBDA i : g[i][2])

getVector(pol) == PerComponent([i \in DOMAIN pol |-> <<getMean(pol[i]), pol[i].stdev>>])

logWeight(pol, act, beta) ==
  Sum(Len(pol), LAMBDA i : logProb(pol[i], act[i]) -- logProbOf(pol[i].kind, act[i], MeanOf(beta, i), StdevOf(beta, i)))
importanceWeight(pol, act, beta) == exp(Clip(logWeight(pol, act, beta), MaxLogW))
Product(n, Value(_)) == FoldLeft(LAMBDA x, y : x ** y, One, VectorOf(n, Value))
evalBehavior(pol, act, beta) ==
  Product(Len(pol), LAMBDA i : probOf(pol[i].kind, act[i], MeanOf(beta, i), StdevOf(beta, i)))
evalProbability(pol, act) == Product(Len(pol), LAMBDA i : prob(pol[i], act[i]))
KLDivergence(pol, beta) == Sum(Len(pol), LAMBDA i : KLdivergence(pol[i], MeanOf(beta, i), StdevOf(beta, i)))

policyGradient(pol, act, coef) == PerComponent([i \in DOMAIN pol |-> gradLogP(pol[i], act[i], coef)])
KLDivGradient(pol, beta, coef) ==
  PerComponent([i \in DOMAIN pol |-> gradKLdiv(pol[i], MeanOf(beta, i), StdevOf(beta, i), coef)])
fixExplorationGrad(pol, target) == PerComponent([i \in DOMAIN pol |-> fixExploration(pol[i], target)])

\* Where the gradients belong among those of the outputs; no deviations when they start at 0.
makeNetworkGrad(n, startMean, startStdev, netGradient, tot) ==
  [j \in DOMAIN netGradient |->
     IF startStdev > 0 /\ j \in startStdev + 1 .. startStdev + n THEN tot[j - startStdev + n]
     ELSE IF j \in startMean + 1 .. startMean + n THEN tot[j - startMean] ELSE netGradient[j]]

selectAction(pol, bTrain, noiseVec) ==
  VectorOf(Len(pol), LAMBDA i : IF bTrain THEN sample(pol[i], noiseVec[i]) ELSE getMean(pol[i]))

------------------------------------------------------------------------------
(* Discrete_policy: of which the outputs are made positive by PosDef       *)

Normalized(PosDef, out, unnorm) ==
  LET normalization == SumOf(unnorm) IN
  [PosDef |-> PosDef, out |-> out, unnorm |-> unnorm, normalization |-> normalization,
   probs |-> [j \in DOMAIN unnorm |-> unnorm[j] // normalization]]
PolicyOf(PosDef, out) == Normalized(PosDef, out, [j \in DOMAIN out |-> eval(PosDef, out[j])])
DiscretePolicy(PosDef, out, startProbs, nO) == PolicyOf(PosDef, SubSeq(out, startProbs + 1, startProbs + nO))

Slope(pol, j) == evalDiff(pol.PosDef, pol.out[j], pol.unnorm[j])

discreteWeight(pol, option, beta) == pol.probs[option] // beta[option]
discreteKL(pol, beta) == Sum(Len(pol.probs), LAMBDA i : pol.probs[i] ** log(pol.probs[i] // beta[i]))
discreteGradient(pol, option, factor) ==
  VectorOf(Len(pol.probs), LAMBDA i : Slope(pol, i) **
    ((IF i = option THEN factor // pol.unnorm[i] ELSE Zero) -- (factor // pol.normalization)))
discreteKLGradient(pol, beta, factor) ==
  LET tmp(j) == (factor ** (One ++ log(pol.probs[j] // beta[j]))) // pol.normalization
      n == Len(pol.probs)
  IN VectorOf(n, LAMBDA i : Slope(pol, i) **
       Sum(n, LAMBDA j : tmp(j) ** ((IF i = j THEN One ELSE Zero) -- pol.probs[j])))

\* Gradient of the value of the policy, from the advantages of its options.
control_grad(pol, adv, eta) ==
  VectorOf(Len(pol.probs), LAMBDA j : ((eta ** adv[j]) // pol.normalization) ** Slope(pol, j))

------------------------------------------------------------------------------
(* Properties                                                              *)

Kinds == {<<"Normal", "Squashed">>, <<"Squashed", "Squashed">>, <<"Beta", "Normal">>}
startMean  == 1
startStdev == 3

\* Outputs of which the functions have a value modulo Prime, and a Beta policy a deviation.
HasRoot(x) == IsSquare(One ++ Sq(x))
Outputs(kinds) ==
  {o \in {Vec(seed, 5) : seed \in 1 .. 250} : \A i \in DOMAIN kinds :
     /\ HasRoot(o[startStdev + i])
     /\ kinds[i] = "Beta" =>
          /\ HasRoot(o[startMean + i])
          /\ LET m == ClipFunction(o[startMean + i]) IN IsSquare((m ** (One -- m)) ** ClipFunction(o[startStdev + i]))}

Inside(pol) == \A i \in DOMAIN pol : pol[i].kind = "Squashed" => fabs(pol[i].mean)[1] < MAX

\* What the outputs are told to change by, times how they do change.
Told(pol, out, grad) == Change(makeNetworkGrad(Len(pol), startMean, startStdev, Zeros(Len(out)), grad), out)

\* Policy gradients are those of the logarithm of the probability and of the divergence
\* from the behaviour, if no mean was cut off or means are held; the importance weight
\* grows with that logarithm, up to its bound.
ContinuousDifferentiated ==
  \A kinds \in Kinds : \A o \in Outputs(kinds), held \in BOOLEAN :
    LET out  == [i \in DOMAIN o |-> IF held /\ i <= startStdev THEN Fixed(o[i]) ELSE o[i]]
        act  == <<Const(211), Const(95)>>
        beta == <<Const(3), Const(7), Const(12), Const(21)>>
        coef == Const(29)
    IN
    \A pol \in {ContinuousPolicy(kinds, out, startMean, startStdev)} :
    \A w \in {importanceWeight(pol, act, beta)}, p \in {evalProbability(pol, act)},
       logP \in {Sum(2, LAMBDA i : logProb(pol[i], act[i]))} :
    /\ Inside(pol) \/ held => Equal(Told(pol, out, policyGradient(pol, act, coef)), (coef ** Rate(logP))[1])
    /\ Equal(Told(pol, out, KLDivGradient(pol, beta, coef)), (coef ** Rate(KLDivergence(pol, beta)))[1])
    /\ Rate(p) = Fixed(p ** Rate(logP))
    /\ fabs(logWeight(pol, act, beta))[1] < MaxLogW => Rate(w) = Fixed(w ** Rate(logP))

\* The vector that is stored with a step stands for the policy itself: the weight of any
\* action is one and, unless the mean was cut off, there is no divergence.
VectorStandsForPolicy ==
  \A kinds \in Kinds : \A out \in Outputs(kinds) :
  \A pol \in {ContinuousPolicy(kinds, out, startMean, startStdev)} : \A own \in {getVector(pol)} :
    LET act == <<Const(17), Const(560)>>
    IN /\ importanceWeight(pol, act, own) = One /\ evalBehavior(pol, act, own) = evalProbability(pol, act)
       /\ Inside(pol) => Fixed(KLDivergence(pol, own)) = Zero

\* Exploration is pulled towards its target by half the distance (for Beta, by the second
\* output alone), and starts there.
ExplorationKept ==
  \A kinds \in Kinds : \A out \in Outputs(kinds) : \A i \in DOMAIN kinds :
    \A pol \in {Component(kinds[i], Fixed(out[startMean + i]), out[startStdev + i])} :
    LET target == Fixed(pol.stdev)
        first  == initial_Stdev(kinds[i], target)
        again  == Component(kinds[i], Zero, first)
        aim    == Const(37)
    IN /\ Equal(Dot(fixExploration(pol, aim), <<Zero, Rate(out[startStdev + i])>>)[1],
                Rate(Neg(Sq(aim -- pol.stdev) // Const(4)))[1])
       /\ kinds[i] # "Beta" => HasRoot(first) /\ again.stdev = target

\* Actions are drawn with the probability that they are said to have: noise that is drawn
\* from a normal distribution, taken through sample and, in bounded dimensions, through the
\* squashing that the environment applies, has the density prob.
DrawnAsSaid ==
  \A kind \in {"Normal", "Squashed"} : \A out \in Outputs(<<kind, kind>>) : \A z \in 1 .. 5 :
    \A pol \in {Component(kind, Fixed(out[startMean + 1]), Fixed(out[startStdev + 1]))} :
    LET noise == <<z, 1>>
        a     == sample(pol, noise)
        y     == IF kind = "Squashed" THEN squash(a) ELSE a
        normal == invRoot ** exp(Neg(Halved(Sq(Fixed(noise)))))
    IN Inside(<<pol>>) /\ a = pol.mean ++ (pol.stdev ** noise) =>
         Fixed(prob(pol, Fixed(a)) ** Rate(y)) = normal

\* Of a discrete policy the outputs follow the first one.
DiscreteDifferentiated ==
  \A PosDef \in {"SoftPlus", "Exp"} :
    \A out \in {o \in {Vec(seed, 4) : seed \in 1 .. 60} : \A i \in 2 .. 4 : HasRoot(o[i])} :
      \A pol \in {DiscretePolicy(PosDef, out, 1, 3)} :
      LET beta == <<Const(5), Const(8), Const(13)>>
          coef == Const(29)
          change(grad) == Dot(grad, VectorOf(3, LAMBDA i : Rate(pol.out[i])))
          A(j) == Const(j * j + 11)
      IN pol.normalization[1] # 0 =>
         /\ SumOf(pol.probs) = One
         /\ \A o \in 1 .. 3 :
              LET w == discreteWeight(pol, o, beta) IN
              /\ Fixed(change(discreteGradient(pol, o, coef))) = Fixed(coef ** Rate(log(pol.probs[o])))
              /\ Rate(w) = Fixed(w ** Rate(log(pol.probs[o])))
         /\ Fixed(change(discreteKLGradient(pol, beta, coef))) = Fixed(coef ** Rate(discreteKL(pol, beta)))
         /\ Fixed(discreteKL(pol, pol.probs)) = Zero
         /\ LET mean == Fixed(Sum(3, LAMBDA j : pol.probs[j] ** A(j))) IN
            Fixed(change(control_grad(pol, [j \in 1 .. 3 |-> A(j) -- mean], coef))) =
              Fixed(coef ** Rate(Sum(3, LAMBDA j : pol.probs[j] ** A(j))))
==============================================================================
