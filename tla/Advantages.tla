------------------------------- MODULE Advantages -------------------------------
(***************************************************************************)
(* Advantages: how much better than the value of a state an action is, as  *)
(* outputs of a network, and the gradients of these outputs                *)
(* (Discrete_advantage.h, Gaus_advantage.h, Quadratic_advantage.h).        *)
(*                                                                         *)
(* out holds the outputs from the start of those of the advantage on.  The *)
(* gradient of an output is what grad writes to it when it is zero before. *)
(***************************************************************************)
EXTENDS Policies

------------------------------------------------------------------------------
(* Discrete: one advantage for each option.  Without a policy, probs is <<>> *)

expectedAdvantage(out, probs) == Dot(probs, Resize(out, Len(probs)))
AdvantageOfOption(out, probs, act) == out[act] -- expectedAdvantage(out, probs)
gradOfOption(n, probs, act, Qer) ==
  VectorOf(n, LAMBDA j : Qer ** ((IF j = act THEN One ELSE Zero) --
                                 (IF probs = <<>> THEN Zero ELSE probs[j])))
varianceOfOption(out, probs) ==
  LET base == expectedAdvantage(out, probs) IN
  Sum(Len(probs), LAMBDA j : probs[j] ** Sq(out[j] -- base))

------------------------------------------------------------------------------
(* Gaussian: a bell around the mean of the policy, whose width on either   *)
(* side of it is an output, less what it is on average                     *)

Gaussian(out, nA, mean, variance) ==
  [out |-> out, coef |-> SoftPlusOf(out[1]), matrix |-> VectorOf(2 * nA, LAMBDA i : SoftPlusOf(out[1 + i])),
   mean |-> mean, variance |-> variance]

Side(A, a, i) == IF Positive(a[i] -- A.mean[i]) THEN i ELSE i + Len(A.mean)
Bell(A, a) ==
  exp(Neg(Halved(Sum(Len(A.mean), LAMBDA i : Sq(a[i] -- A.mean[i]) // A.matrix[Side(A, a, i)]))))
\* Square root of the part of the spread that is the width.
Share(A, i, p) == sqrt(p // (p ++ A.variance[i]))
Shares(A, i) == Share(A, i, A.matrix[i]) ++ Share(A, i, A.matrix[i + Len(A.mean)])
coefMixRatio(A) == Product(Len(A.mean), LAMBDA i : Halved(Shares(A, i)))

AdvantageOfBell(A, a) == A.coef ** (Bell(A, a) -- coefMixRatio(A))

gradOfBell(A, a, Qer) ==
  LET nA     == Len(A.mean)
      orig   == Bell(A, a)
      expect == Neg(coefMixRatio(A))
      F(i)   == Const(2) // Shares(A, i)
      width(k) ==
        LET i == IF k > nA THEN k - nA ELSE k
            p == A.matrix[k]
            S == A.variance[i]
            bell == IF a[i] # A.mean[i] /\ Side(A, a, i) = k
                    THEN Halved((orig ** A.coef) ** Sq((a[i] -- A.mean[i]) // p)) ELSE Zero
            diff == (S // sqrt(p ** Cube(p ++ S))) // Const(4)
        IN bell ++ ((F(i) ** (expect ** A.coef)) ** diff)
      G == <<orig ++ expect>> \o VectorOf(2 * nA, width)
  IN VectorOf(1 + 2 * nA, LAMBDA j : (G[j] ** Qer) ** SoftPlus("evalDiff", A.out[j], Zero))

------------------------------------------------------------------------------
(* Quadratic: falls off around a mean, by a matrix of which the outputs    *)
(* are the triangular root                                                 *)

Square(n) == (1 .. n) \X (1 .. n)
KL(j, i)  == ((j * (j - 1)) \div 2) + i     \* output of place (j, i) of the root

extract_L(out, nA) ==
  [x \in Square(nA) |-> IF x[2] < x[1] THEN out[KL(x[1], x[2])]
                        ELSE IF x[1] = x[2] THEN SoftPlusOf(out[KL(x[1], x[2])]) ELSE Zero]
extract_matrix(L, nA) ==
  [x \in Square(nA) |-> Sum(nA, LAMBDA k : L[<<x[1], k>>] ** L[<<x[2], k>>])]

\* The mean is that of the policy or, of as many outputs as there are dimensions, its own.
extract_mean(outMean, bounded) ==
  VectorOf(Len(outMean), LAMBDA i : IF bounded[i] THEN ClipFunction(outMean[i]) ELSE outMean[i])
Quadratic(out, outMean, bounded, policyMean) ==
  LET nA == Len(bounded)  L == extract_L(out, nA) IN
  [out |-> out, outMean |-> outMean, bounded |-> bounded, L |-> L, matrix |-> extract_matrix(L, nA),
   mean |-> IF outMean = <<>> THEN policyMean ELSE extract_mean(outMean, bounded)]

Dims(A) == Len(A.mean)
quadMatMul(A, act, mat) ==
  Sum(Dims(A), LAMBDA j : Sum(Dims(A), LAMBDA i :
    ((act[i] -- A.mean[i]) ** mat[<<j, i>>]) ** (act[j] -- A.mean[j])))

computeAdvantageNoncentral(A, act) == Neg(Halved(quadMatMul(A, act, A.matrix)))
\* Less what the actions of the policy are worth on average.
computeAdvantage(A, act, polMean, variance) ==
  computeAdvantageNoncentral(A, act) ++
  Halved(quadMatMul(A, polMean, A.matrix) ++ Sum(Dims(A), LAMBDA i : A.matrix[<<i, i>>] ** variance[i]))

advantageVariance(A, polMean, variance) ==
  LET n == Dims(A)
      PvarP == [x \in Square(n) |->
                 Sum(n, LAMBDA k : (A.matrix[<<x[1], k>>] ** variance[x[2]]) ** A.matrix[<<k, x[2]>>])]
  IN quadMatMul(A, polMean, PvarP) ++ Halved(Sum(n, LAMBDA i : PvarP[<<i, i>>] ** variance[i]))

\* Outputs of the root, and of the mean; without a policy.
gradOfRoot(A, act, Qer) ==
  LET n == Dims(A)
      dAct == VectorOf(n, LAMBDA j : act[j] -- A.mean[j])
      dErrdP(j, k) == Neg(Qer ** (dAct[j] ** dAct[k]))
      dErrdL(j, i) == Sum(n, LAMBDA k : IF k < i THEN Zero ELSE dErrdP(j, k) ** A.L[<<k, i>>])
      Entry(k) == CHOOSE x \in Square(n) : x[2] <= x[1] /\ KL(x[1], x[2]) = k
  IN VectorOf(KL(n, n), LAMBDA k :
       LET x == Entry(k) IN
       dErrdL(x[1], x[2]) ** (IF x[1] = x[2] THEN SoftPlus("evalDiff", A.out[k], Zero) ELSE One))
gradOfMean(A, act, Qer) ==
  VectorOf(Len(A.outMean), LAMBDA a :
    Sum(Dims(A), LAMBDA i : (Qer ** A.matrix[<<a, i>>]) ** (act[i] -- A.mean[i])) **
    (IF A.bounded[a] THEN HardSigmoid("evalDiff", A.outMean[a], Zero) ELSE One))

------------------------------------------------------------------------------
(* Properties                                                              *)

Act2 == <<Const(211), Const(95)>>
HaveRoots(v) == \A i \in DOMAIN v : HasRoot(v[i])

\* Gradients of the outputs are those of the advantage of the action, for a policy that
\* stays as it is.
AdvantagesDifferentiated ==
  LET Qer == Const(31) IN
  /\ LET out == Vec(71, 3)  IN
     \A probs \in {<<>>, Vec(72, 3)}, act \in 1 .. 3 :
       LET fixed == VectorOf(Len(probs), LAMBDA i : Fixed(probs[i])) IN
       Equal(Change(gradOfOption(3, fixed, act, Qer), out), (Qer ** Rate(AdvantageOfOption(out, fixed, act)))[1])
  /\ \A out \in {o \in {Vec(seed, 5) : seed \in 1 .. 1000} : HaveRoots(o)} :
       LET A == Gaussian(out, 2, <<Const(40), Const(300)>>, <<Const(9), Const(25)>>) IN
       (\A k \in 1 .. 4 : IsSquare(A.matrix[k] // (A.matrix[k] ++ A.variance[((k - 1) % 2) + 1])))
       => Equal(Change(gradOfBell(A, Act2, Qer), out), (Qer ** Rate(AdvantageOfBell(A, Act2)))[1])
  /\ \A out \in {o \in {Vec(seed, 5) : seed \in 1 .. 100} : HaveRoots(o)} :
       \A bounded \in {<<TRUE, FALSE>>, <<FALSE, TRUE>>} :
         LET A == Quadratic(Resize(out, 3), SubSeq(out, 4, 5), bounded, <<>>) IN
         Equal(Change(gradOfRoot(A, Act2, Qer) \o gradOfMean(A, Act2, Qer), out),
               (Qer ** Rate(computeAdvantageNoncentral(A, Act2)))[1])

\* Three points, and their weights, that have the average, the variance and the fourth
\* moment of a normal distribution.
Noise == [z \in {Zero, sqrt(Const(3)), Neg(sqrt(Const(3)))} |->
            IF z = Zero THEN Const(2) // Const(3) ELSE One // Const(6)]
Expected(Value(_)) ==
  SumOver((DOMAIN Noise) \X (DOMAIN Noise), LAMBDA z : (Noise[z[1]] ** Noise[z[2]]) ** Value(z))

\* The actions of the policy have no advantage on average, and the variance of it is the
\* one that is said; for a quadratic advantage, if all components vary alike.
AdvantagesCentred ==
  /\ LET out   == Vec(73, 3)
         probs == LET p == Vec(74, 2) IN <<p[1], p[2], (One -- p[1]) -- p[2]>>
         mean(power) == Fixed(Sum(3, LAMBDA j : probs[j] **
                          (IF power = 1 THEN AdvantageOfOption(out, probs, j) ELSE Sq(AdvantageOfOption(out, probs, j)))))
     IN mean(1) = Zero /\ mean(2) = Fixed(varianceOfOption(out, probs))
  /\ \A out \in {o \in {Vec(seed, 5) : seed \in 1 .. 100} : HaveRoots(o)} :
       LET A == Quadratic(Resize(out, 3), SubSeq(out, 4, 5), <<TRUE, FALSE>>, <<>>)
           mean  == <<Const(40), Const(300)>>
           adv(z, stdev) ==
             computeAdvantage(A, VectorOf(2, LAMBDA i : mean[i] ++ (z[i] ** stdev[i])), mean, VectorOf(2, LAMBDA i : Sq(stdev[i])))
           alike == <<Const(3), Const(3)>>
       IN /\ \A stdev \in {alike, <<Const(3), Const(5)>>} : Fixed(Expected(LAMBDA z : adv(z, stdev))) = Zero
          /\ Fixed(Expected(LAMBDA z : Sq(adv(z, alike)))) =
               Fixed(advantageVariance(A, mean, <<Const(9), Const(9)>>))
==============================================================================
