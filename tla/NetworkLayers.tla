---------------------------- MODULE NetworkLayers ----------------------------
(***************************************************************************)
(* What the layers of a network compute and what they pass back.           *)
(*                                                                         *)
(* forward of a layer gives its memory at one step: X, the sums that go    *)
(* into its function, and Y, its output.  backward takes the errors of the *)
(* output and gives what it adds to the errors of the layers below and of  *)
(* the step before, and to the gradients of weights W and biases B.  The   *)
(* order in which layers, steps and samples are taken is that of BackPass. *)
(*                                                                         *)
(* W is a row for each input and, in a recurrent layer, for each output of *)
(* the step before.                                                        *)
(***************************************************************************)
EXTENDS Nonlinearities, SequencesExt

Scaled(c, v)  == VectorOf(Len(v), LAMBDA i : c ** v[i])
Plus(v, w)    == VectorOf(Len(v), LAMBDA i : v[i] ++ w[i])
Block(v, k, n) == SubSeq(v, k * n + 1, (k + 1) * n)

\* W * Y + B.
Affine(B, Y, W) == VectorOf(Len(B), LAMBDA o : B[o] ++ Sum(Len(Y), LAMBDA i : Y[i] ** W[i][o]))

\* There is no step before the first and none after the last.
NoStep  == [Y |-> <<>>]
NoDelta == [delta |-> <<>>]
IsFirst(prev) == prev.Y = <<>>
IsLast(next)  == next.delta = <<>>

\* Layer::backward, from the errors of the sums: weights, biases, the inputs whose errors
\* are needed (spanCompInpGrads), and the step before.
LayerBackward(deltas, inputs, recurrent, par, span) ==
  LET Y == inputs \o recurrent IN
  [inputs |-> VectorOf(Len(inputs), LAMBDA i : IF i \in span THEN Dot(par.W[i], deltas) ELSE Zero),
   prev   |-> VectorOf(Len(recurrent), LAMBDA i : Dot(par.W[Len(inputs) + i], deltas)),
   W      |-> VectorOf(Len(par.W), LAMBDA i : IF i > Len(Y) THEN Zeros(Len(deltas)) ELSE Scaled(Y[i], deltas)),
   B      |-> deltas,
   delta  |-> <<>>]

------------------------------------------------------------------------------
(* BaseLayer: without recurrent weights prev is NoStep                     *)

BaseForward(func, inputs, prev, par) ==
  LET suminp == Affine(par.B, inputs \o prev.Y, par.W) IN
  [X |-> suminp, Y |-> VectorOf(Len(suminp), LAMBDA o : eval(func, suminp[o]))]

BaseBackward(func, inputs, prev, curr, errors, par, span) ==
  LET deltas == VectorOf(Len(errors), LAMBDA o : errors[o] ** evalDiff(func, curr.X[o], curr.Y[o]))
  IN LayerBackward(deltas, inputs, prev.Y, par, span)

------------------------------------------------------------------------------
(* LSTMLayer: X holds the input of the cells and their three gates         *)

LSTMForward(inputs, prev, par) ==
  LET n      == Len(par.B) \div 4
      suminp == Affine(par.B, inputs \o prev.Y, par.W)
      gates  == VectorOf(3 * n, LAMBDA o : Sigm("eval", suminp[n + o], Zero))
      currSt == VectorOf(n, LAMBDA o : (suminp[o] ** gates[o]) ++
                                     (IF IsFirst(prev) THEN Zero ELSE prev.state[o] ** gates[n + o]))
      cellOp == VectorOf(n, LAMBDA o : Tanh("eval", currSt[o], Zero))
  IN [X |-> Block(suminp, 0, n) \o gates, state |-> currSt, cellOutput |-> cellOp,
      Y |-> VectorOf(n, LAMBDA o : gates[2 * n + o] ** cellOp[o])]

\* The error of the state of the next step comes back through its forget gate.
LSTMBackward(inputs, prev, curr, next, errors, par, span) ==
  LET n == Len(errors)
      cellInpt == Block(curr.X, 0, n)   IGate == Block(curr.X, 1, n)
      FGate    == Block(curr.X, 2, n)   OGate == Block(curr.X, 3, n)
      diff(o)  == (One -- Sq(curr.cellOutput[o])) ** errors[o]
      stateDelta == VectorOf(n, LAMBDA o : (diff(o) ** OGate[o]) ++
                     (IF IsLast(next) THEN Zero ELSE next.delta[o] ** Block(next.X, 2, n)[o]))
      slope(gate) == gate ** (One -- gate)
      deltas ==
        VectorOf(n, LAMBDA o : IGate[o] ** stateDelta[o]) \o
        VectorOf(n, LAMBDA o : slope(IGate[o]) ** (cellInpt[o] ** stateDelta[o])) \o
        VectorOf(n, LAMBDA o : IF IsFirst(prev) THEN Zero
                             ELSE slope(FGate[o]) ** (prev.state[o] ** stateDelta[o])) \o
        VectorOf(n, LAMBDA o : slope(OGate[o]) ** (errors[o] ** curr.cellOutput[o]))
  IN [LayerBackward(deltas, inputs, prev.Y, par, span) EXCEPT !.delta = stateDelta]

------------------------------------------------------------------------------
(* MGULayer: X holds the forget gate and the state                         *)

MGUForward(inputs, prev, par) ==
  LET n      == Len(par.B) \div 2
      linear == Affine(par.B, inputs, par.W)
      Rec(v, o) == Sum(Len(v), LAMBDA i : par.W[Len(inputs) + i][o] ** v[i])
      forget == VectorOf(n, LAMBDA o : Sigm("eval", linear[o] ++ Rec(prev.Y, o), Zero))
      kept   == VectorOf(Len(prev.Y), LAMBDA i : prev.Y[i] ** forget[i])
      state  == VectorOf(n, LAMBDA o : Tanh("eval", linear[n + o] ++ Rec(kept, n + o), Zero))
  IN [X |-> forget \o state,
      Y |-> VectorOf(n, LAMBDA o : (forget[o] ** state[o]) ++
              (IF IsFirst(prev) THEN Zero ELSE (One -- forget[o]) ** prev.Y[o]))]

MGUBackward(inputs, prev, curr, errors, par, span) ==
  LET n       == Len(errors)
      forget  == Block(curr.X, 0, n)
      state   == Block(curr.X, 1, n)
      prevOut == IF IsFirst(prev) THEN Zeros(n) ELSE prev.Y
      Wfr(i)  == Block(par.W[Len(inputs) + i], 0, n)
      Wsr(i)  == Block(par.W[Len(inputs) + i], 1, n)
      dLdS    == VectorOf(n, LAMBDA o : errors[o] ** (forget[o] ** (One -- Sq(state[o]))))
      dLdFprevOut == VectorOf(n, LAMBDA o : IF IsFirst(prev) THEN Zero ELSE Dot(Wsr(o), dLdS))
      dLdF    == VectorOf(n, LAMBDA o : (((state[o] -- prevOut[o]) ** errors[o]) ++ (dLdFprevOut[o] ** prevOut[o]))
                                      ** (forget[o] ** (One -- forget[o])))
      row(x, y) == Scaled(x, dLdF) \o Scaled(y, dLdS)
  IN [inputs |-> VectorOf(Len(inputs), LAMBDA i :
                   IF i \in span THEN Dot(par.W[i], dLdF \o dLdS) ELSE Zero),
      prev   |-> VectorOf(Len(prev.Y), LAMBDA o :
                   (((One -- forget[o]) ** errors[o]) ++ (forget[o] ** dLdFprevOut[o])) ++ Dot(Wfr(o), dLdF)),
      W      |-> VectorOf(Len(inputs), LAMBDA i : row(inputs[i], inputs[i])) \o
                 VectorOf(n, LAMBDA i : row(prevOut[i], prevOut[i] ** forget[i])),
      B      |-> dLdF \o dLdS,
      delta  |-> <<>>]

------------------------------------------------------------------------------
(* Layers that join the outputs of the layers below them: below[1] is that *)
(* of the layer right below.  What they pass back is written over the      *)
(* errors E of these layers, except where it is added.                     *)

Upto(v, n) == SubSeq(v, 1, n)
Min2(a, b) == IF a < b THEN a ELSE b

JoinForward(below) == below[1] \o below[2]
JoinBackward(E, errors) ==
  <<Upto(errors, Len(E[1])), SubSeq(errors, Len(E[1]) + 1, Len(errors))>>

ParametricResidualForward(below, par) ==
  VectorOf(Len(par.B), LAMBDA j :
    IF j > Len(below[2]) THEN below[1][j] ELSE below[1][j] ++ ((below[2][j] ** par.W[j]) ++ par.B[j]))
ParametricResidualBackward(below, E, errors, par) ==
  LET sizeInp == Min2(Len(below[2]), Len(errors))
      within(v) == VectorOf(Len(errors), LAMBDA j : IF j <= sizeInp THEN v[j] ELSE Zero)
  IN [E |-> <<errors \o SubSeq(E[1], Len(errors) + 1, Len(E[1])),
              VectorOf(Len(E[2]), LAMBDA j : IF j <= sizeInp THEN E[2][j] ++ (errors[j] ** par.W[j]) ELSE E[2][j])>>,
      W |-> within(VectorOf(sizeInp, LAMBDA j : errors[j] ** below[2][j])), B |-> within(errors)]

ResidualForward(below, size) ==
  LET part(v, j) == IF j <= Len(v) THEN v[j] ELSE Zero IN
  VectorOf(size, LAMBDA j : part(below[1], j) ++ part(below[2], j))
ResidualBackward(E, errors) ==
  [i \in 1 .. 2 |-> VectorOf(Len(E[i]), LAMBDA j : IF j <= Len(errors) THEN errors[j] ELSE E[i][j])]

\* Parameters that are outputs, whatever the input.
ParamInitialize(func, initVals) == VectorOf(Len(initVals), LAMBDA o : inverse(func, initVals[o]))
ParamForward(func, B) == [X |-> B, Y |-> VectorOf(Len(B), LAMBDA n : eval(func, B[n]))]
ParamBackward(func, curr, errors) ==
  VectorOf(Len(errors), LAMBDA o : errors[o] ** evalDiff(func, curr.X[o], curr.Y[o]))

------------------------------------------------------------------------------
(* Conv2DLayer: g holds the sizes of the image, of the filter and of the   *)
(* output, the stride and the padding                                      *)

SumOver(S, Value(_)) == MapThenFoldSet(LAMBDA a, b : a ++ b, Zero, Value, LAMBDA T : CHOOSE t \in T : TRUE, S)

To(n) == 0 .. n - 1
InputOf(g)  == To(g.InC) \X To(g.InY) \X To(g.InX)
OutputOf(g) == To(g.KnC) \X To(g.OpY) \X To(g.OpX)
KernelOf(g) == To(g.KnC) \X To(g.InC) \X To(g.KnY) \X To(g.KnX)

\* Place of the image that a weight of the filter meets for a place of the output: outside
\* of the image it is skipped.
Under(g, ic, fy, fx, oy, ox) == <<ic, oy * g.Sy - g.Py + fy, ox * g.Sx - g.Px + fx>>
Place(g, o, k) == Under(g, k[2], k[3], k[4], o[2], o[3])
Taps(g) == {t \in OutputOf(g) \X KernelOf(g) : t[1][1] = t[2][1] /\ Place(g, t[1], t[2]) \in InputOf(g)}

ConvForward(g, func, INP, K, B) ==
  LET X == [o \in OutputOf(g) |-> B[o] ++ SumOver({t \in Taps(g) : t[1] = o},
                                               LAMBDA t : K[t[2]] ** INP[Place(g, o, t[2])])]
  IN [X |-> X, Y |-> [o \in OutputOf(g) |-> eval(func, X[o])]]

ConvBackward(g, func, INP, K, curr, errors) ==
  LET dLdOUT == [o \in OutputOf(g) |-> errors[o] ** evalDiff(func, curr.X[o], curr.Y[o])] IN
  [inputs |-> [i \in InputOf(g) |-> SumOver({t \in Taps(g) : Place(g, t[1], t[2]) = i},
                                          LAMBDA t : dLdOUT[t[1]] ** K[t[2]])],
   W |-> [k \in KernelOf(g) |-> SumOver({t \in Taps(g) : t[2] = k},
                                      LAMBDA t : dLdOUT[t[1]] ** INP[Place(g, t[1], k)])],
   B |-> dLdOUT]

\* With a library for matrices the image is first copied, for each place of the output,
\* into a column that the filter is multiplied with (Mat2ImLayer).
Columns(g) == To(g.InC) \X To(g.KnY) \X To(g.KnX) \X To(g.OpY) \X To(g.OpX)
From(g, c) == Under(g, c[1], c[2], c[3], c[4], c[5])
Column(k, o) == <<k[2], k[3], k[4], o[2], o[3]>>

Mat2ImForward(g, INP) == [c \in Columns(g) |-> IF From(g, c) \in InputOf(g) THEN INP[From(g, c)] ELSE Zero]
Mat2ImBackward(g, errors) ==
  [i \in InputOf(g) |-> SumOver({c \in Columns(g) : From(g, c) = i}, LAMBDA c : errors[c])]

MatForward(g, MAT, K, B) ==
  [o \in OutputOf(g) |-> B[o] ++ SumOver({k \in KernelOf(g) : k[1] = o[1]}, LAMBDA k : K[k] ** MAT[Column(k, o)])]
MatBackward(g, MAT, K, dLdOUT) ==
  [inputs |-> [c \in Columns(g) |-> SumOver(To(g.KnC), LAMBDA fc :
                 K[<<fc, c[1], c[2], c[3]>>] ** dLdOUT[<<fc, c[4], c[5]>>])],
   W |-> [k \in KernelOf(g) |-> SumOver({o \in OutputOf(g) : o[1] = k[1]}, LAMBDA o : dLdOUT[o] ** MAT[Column(k, o)])]]

------------------------------------------------------------------------------
(* Properties                                                              *)

Vec(seed, n)     == VectorOf(n, LAMBDA i : Arbitrary(seed, i))
Table(seed, m, n) == VectorOf(m, LAMBDA i : Vec(seed + i, n))
Par(m, n)        == [W |-> Table(3, m, n), B |-> Vec(41, n)]

\* Change of the outputs, each taken as many times as its error says.
Change(errors, Y) == Dot(errors, VectorOf(Len(Y), LAMBDA i : Rate(Y[i])))[1]
ChangeOf(errors, Y) == SumOver(DOMAIN Y, LAMBDA i : errors[i] ** Rate(Y[i]))[1]
Equal(a, b) == (a - b) % Prime = 0

\* The change of the outputs, by that of inputs and parameters, is what the errors that
\* come back say it is.
Consistent(errors, Y, b, inputs, par) ==
  Equal(Change(errors, Y),
        Change(b.inputs, inputs) + Change(b.B, par.B) + Change(FlattenSeq(b.W), FlattenSeq(par.W)))

TwoSteps(Forward(_, _), Backward(_, _, _, _, _), n, par) ==
  \A seed \in {50, 70} :
    LET x == [t \in 1 .. 2 |-> Vec(seed + t, 2)]
        e == [t \in 1 .. 2 |-> Vec(seed + 10 + t, n)]
        c1 == Forward(x[1], NoStep)
        c2 == Forward(x[2], c1)
        b2 == Backward(x[2], c1, c2, NoDelta, e[2])
        b1 == Backward(x[1], NoStep, c1, [X |-> c2.X, delta |-> b2.delta], Plus(e[1], b2.prev))
    IN Consistent(e[1] \o e[2], c1.Y \o c2.Y,
                  [inputs |-> b1.inputs \o b2.inputs, B |-> Plus(b1.B, b2.B),
                   W |-> VectorOf(Len(par.W), LAMBDA i : Plus(b1.W[i], b2.W[i]))], x[1] \o x[2], par)

CellsDifferentiated ==
  /\ \A func \in {"Linear", "Tanh", "Sigm", "LRelu"} :
       TwoSteps(LAMBDA x, prev : BaseForward(func, x, prev, Par(5, 3)),
                LAMBDA x, prev, curr, next, e : BaseBackward(func, x, prev, curr, e, Par(5, 3), {1, 2}),
                3, Par(5, 3))
  /\ TwoSteps(LAMBDA x, prev : LSTMForward(x, prev, Par(4, 8)),
              LAMBDA x, prev, curr, next, e : LSTMBackward(x, prev, curr, next, e, Par(4, 8), {1, 2}),
              2, Par(4, 8))
  /\ TwoSteps(LAMBDA x, prev : MGUForward(x, prev, Par(4, 4)),
              LAMBDA x, prev, curr, next, e : MGUBackward(x, prev, curr, e, Par(4, 4), {1, 2}),
              2, Par(4, 4))

\* Only the inputs whose errors are asked for get them.
BaseOfPart(span) ==
  LET x    == VectorOf(3, LAMBDA i : IF i \in span THEN Arbitrary(21, i) ELSE Fixed(Arbitrary(21, i)))
      curr == BaseForward("Tanh", x, NoStep, Par(3, 2))
      e    == Vec(23, 2)
      b    == BaseBackward("Tanh", x, NoStep, curr, e, Par(3, 2), span)
  IN Consistent(e, curr.Y, b, x, Par(3, 2)) /\ \A i \in DOMAIN x \ span : b.inputs[i] = Zero

\* Layers below of which either is the shorter one.
ConnectionsDifferentiated ==
  LET e == Vec(31, 3)
      Passed(errors, Y, E, below) == Change(errors, Y) - Change(E[1], below[1]) - Change(E[2], below[2])
      NoE(below) == <<Zeros(Len(below[1])), Zeros(Len(below[2]))>>
      par == [W |-> Vec(32, 3), B |-> Vec(33, 3)]
  IN
  /\ BaseOfPart({2, 3}) /\ BaseOfPart({})
  /\ \A m \in 3 .. 4, n \in 2 .. 4 :
       LET below == <<Vec(34, m), Vec(35, n)>>
           b     == ParametricResidualBackward(below, NoE(below), e, par)
           both  == Vec(36, m + n)
       IN /\ Equal(Passed(e, ParametricResidualForward(below, par), b.E, below),
                   Change(b.W, par.W) + Change(b.B, par.B))
          /\ Equal(Passed(both, JoinForward(below), JoinBackward(NoE(below), both), below), 0)
          /\ \A l \in {below, <<below[2], below[1]>>} :
               Equal(Passed(e, ResidualForward(l, 3), ResidualBackward(NoE(l), e), l), 0)
  /\ \A func \in {"Linear", "Tanh", "Exp"} :
       LET curr == ParamForward(func, par.B) IN
       Equal(Change(e, curr.Y), Change(ParamBackward(func, curr, e), par.B))

\* A layer of parameters gives, at first, the values asked for.
ParametersInitialized ==
  \A func \in {"Linear", "Exp", "SoftPlus"} : \A i \in 1 .. 40 :
    LET v == Fixed(Arbitrary(37, i)) IN
    (func = "SoftPlus" => IsSquare(v ++ (One // (Const(4) ** v))))
    => ParamForward(func, ParamInitialize(func, <<v>>)).Y = <<v>>

\* Filters that leave a part of the image out, that overlap, and that go over the edge.
Geometry(inp, kn, s, p, op) ==
  [InC |-> 2, InY |-> inp[1], InX |-> inp[2], KnC |-> 2, KnY |-> kn[1], KnX |-> kn[2],
   Sy |-> s[1], Sx |-> s[2], Py |-> p[1], Px |-> p[2], OpY |-> op[1], OpX |-> op[2]]
Geometries == {Geometry(<<3, 2>>, <<2, 2>>, <<2, 1>>, <<1, 1>>, <<2, 3>>),
               Geometry(<<2, 4>>, <<1, 3>>, <<1, 2>>, <<0, 1>>, <<2, 2>>)}
Values(seed, S) == [x \in S |-> Arbitrary(seed, FoldLeft(LAMBDA i, j : 5 * i + j, 1, x))]

\* Both builds compute the same, and the errors that come back are those of the sums.
ConvDifferentiated ==
  \A g \in Geometries :
    LET INP == Values(1, InputOf(g))    K == Values(2, KernelOf(g))
        B   == Values(3, OutputOf(g))   e == Values(4, OutputOf(g))
        curr == ConvForward(g, "LRelu", INP, K, B)
        b    == ConvBackward(g, "LRelu", INP, K, curr, e)
        MAT  == Mat2ImForward(g, INP)
        m    == MatBackward(g, MAT, K, b.B)
    IN /\ Equal(ChangeOf(e, curr.Y), ChangeOf(b.inputs, INP) + ChangeOf(b.W, K) + ChangeOf(b.B, B))
       /\ MatForward(g, MAT, K, B) = curr.X
       /\ m.W = b.W /\ Mat2ImBackward(g, m.inputs) = b.inputs
==============================================================================
