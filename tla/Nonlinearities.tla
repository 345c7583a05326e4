---------------------------- MODULE Nonlinearities ----------------------------
(***************************************************************************)
(* Numbers, and the functions that networks and policies apply to them     *)
(* (Functions.h).                                                          *)
(*                                                                         *)
(* A number stands for a real number and for the rate at which it changes  *)
(* when the numbers that it was computed from do: it is a pair, and every  *)
(* operation carries the rate along by the rules of differential calculus. *)
(* Both parts are taken modulo a prime, so that TLC computes them without  *)
(* rounding: sums, products and quotients obey the laws of the reals, and  *)
(* a formula for a derivative that is wrong gives another number than the  *)
(* rate, but for a chance of one in a thousand at each point tried.        *)
(*                                                                         *)
(* Exp is two to the power of the number, Log its inverse, Sqrt a root     *)
(* where there is one: of these only the laws below are used.  Clipping of *)
(* the arguments of exponentials is left out.                              *)
(***************************************************************************)
EXTENDS Integers, Sequences

\* Two generates all numbers but 0, and -1 is not a square.
Prime == 1019
Half  == (Prime - 1) \div 2

\* Whole number between -Half and Half that stands for a residue.
Signed(r) == IF r > Half THEN r - Prime ELSE r

RECURSIVE Powers(_)
Powers(s) ==
  LET next == 2 * s[Len(s)] IN
  IF Len(s) >= Prime - 1 THEN SubSeq(s, 1, Prime - 1)
  ELSE Powers(s \o [i \in DOMAIN s |-> (s[i] * next) % Prime])

PowersOfTwo == Powers(<<1>>)
LogTable == [z \in 1 .. Prime - 1 |-> CHOOSE i \in 0 .. Prime - 2 : PowersOfTwo[i + 1] = z] \o <<>>

InverseTable == [z \in 1 .. Prime - 1 |-> CHOOSE i \in 1 .. Prime - 1 : (i * z) % Prime = 1] \o <<>>

Power2(n)   == PowersOfTwo[1 + (n % (Prime - 1))]
Invert(z)   == InverseTable[z]

Const(c) == <<c % Prime, 0>>
Zero     == Const(0)
One      == Const(1)

a ++ b == <<(a[1] + b[1]) % Prime, (a[2] + b[2]) % Prime>>
a -- b == <<(a[1] - b[1]) % Prime, (a[2] - b[2]) % Prime>>
a ** b == <<(a[1] * b[1]) % Prime, (a[1] * b[2] + a[2] * b[1]) % Prime>>

\* What y, a function of a, is with its rate, from its derivative.
Along(y, derivative, a) == <<y % Prime, (derivative * a[2]) % Prime>>
Reciprocal(c, b) == Along(c, -c * c, b)
a // b == a ** Reciprocal(Invert(b[1]), b)

Neg(a)    == Zero -- a
Sq(a)     == a ** a
Cube(a)   == a ** (a ** a)
Halved(a) == a ** Const(Half + 1)

Positive(a) == a[1] \in 1 .. Half
fabs(a)     == IF Positive(a) THEN a ELSE Neg(a)

\* exp(-a) is 1 / exp(a).
GrowsBy(e, a) == Along(e, e, a)
exp(a) == GrowsBy(Power2(Signed(a[1])), a)
SignedLog(l) == IF l > Half THEN l - (Prime - 1) ELSE l
log(a) == Along(SignedLog(LogTable[a[1]]), Invert(a[1]), a)

\* The root that is a square itself: the root of a product is the product of the roots.
IsSquare(a) == a[1] # 0 /\ LogTable[a[1]] % 2 = 0
HalfOf(l) == CHOOSE h \in {l \div 2, (l \div 2) + Half} : h % 2 = 0 /\ (2 * h) % (Prime - 1) = l
RootBy(s, a) == Along(s, Invert((2 * s) % Prime), a)
sqrt(a) == RootBy(Power2(HalfOf(LogTable[a[1]])), a)

\* The same number, taken as fixed; and its rate, as a number.
Fixed(a) == <<a[1], 0>>
Rate(a)  == <<a[2], 0>>

------------------------------------------------------------------------------
(* Sequences of numbers                                                    *)

VectorOf(n, Value(_)) == [i \in 1 .. n |-> Value(i)] \o <<>>

RECURSIVE SumFirst(_, _)
SumFirst(v, n) == IF n = 0 THEN Zero ELSE SumFirst(v, n - 1) ++ v[n]
SumOf(v) == SumFirst(v, Len(v))
Sum(n, Value(_)) == SumOf(VectorOf(n, Value))
Dot(v, w) == Sum(Len(v), LAMBDA i : v[i] ** w[i])
Zeros(n) == VectorOf(n, LAMBDA i : Zero)
Resize(v, n) == SubSeq(v, 1, n)

\* Numbers in no apparent order, with their rates.
Arbitrary(seed, i) == <<((seed + 7 * i) * (3 * seed + i + 11) + i) % Prime,
                        ((seed + 5 * i) * (2 * seed + i + 17) + 3) % Prime>>

------------------------------------------------------------------------------
(* Methods of the functions: eval, evalDiff (of the argument, and of what  *)
(* eval gave for it) and inverse.                                          *)

Linear(method, in, out) == IF method = "evalDiff" THEN One ELSE in

\* Mutant: an exponential of the argument itself.
TanhOfHalf(method, in, out) ==
  LET ex == exp(Neg(in)) IN
  CASE method = "eval"    -> (One -- ex) // (One ++ ex)
    [] method = "inverse" -> Halved(log((One ++ in) // (One -- in)))
    [] OTHER              -> One -- Sq(out)

\* Both ways to write it: neither exponential is large.
Tanh(method, in, out) ==
  LET e2x(x) == exp(Const(2) ** x) IN
  CASE method = "eval" -> IF Positive(in) THEN (One -- e2x(Neg(in))) // (One ++ e2x(Neg(in)))
                          ELSE (e2x(in) -- One) // (One ++ e2x(in))
    [] method = "inverse" -> Halved(log((One ++ in) // (One -- in)))
    [] OTHER              -> One -- Sq(out)

Sigm(method, in, out) ==
  CASE method = "eval" -> IF Positive(in) THEN One // (One ++ exp(Neg(in)))
                          ELSE exp(in) // (One ++ exp(in))
    [] method = "inverse" -> Neg(log((One // in) -- One))
    [] OTHER              -> out ** (One -- out)

HardSign(method, in, out) ==
  CASE method = "eval"    -> in // sqrt(One ++ Sq(in))
    [] method = "inverse" -> in // sqrt(One -- Sq(in))
    [] OTHER              -> One // Cube(sqrt(One ++ Sq(in)))

HardSigmoid(method, in, out) ==
  LET map == (Const(2) ** in) -- One IN
  CASE method = "eval"    -> Halved(One ++ (in // sqrt(One ++ Sq(in))))
    [] method = "inverse" -> map // sqrt(One -- Sq(map))
    [] OTHER              -> Halved(One // Cube(sqrt(One ++ Sq(in))))

SoftSign(method, in, out) ==
  CASE method = "eval"    -> in // (One ++ fabs(in))
    [] method = "inverse" -> in // (One -- fabs(in))
    [] OTHER              -> One // Sq(One ++ fabs(in))

Relu(method, in, out) ==
  CASE method = "eval"    -> IF Positive(in) THEN in ELSE Zero
    [] method = "inverse" -> in
    [] OTHER              -> IF Positive(in) THEN One ELSE Zero

PRELU_FAC == One // Const(10)
LRelu(method, in, out) ==
  CASE method = "eval"    -> IF Positive(in) THEN in ELSE PRELU_FAC ** in
    [] method = "inverse" -> IF Positive(in) \/ in[1] = 0 THEN in ELSE in // PRELU_FAC
    [] OTHER              -> IF Positive(in) THEN One ELSE PRELU_FAC

ExpPlus(method, in, out) ==
  CASE method = "eval"    -> log(One ++ exp(in))
    [] method = "inverse" -> log(exp(in) -- One)
    [] OTHER              -> One // (One ++ exp(Neg(in)))

\* SoftRBF has no inverse.
SoftRBF(method, in, out) ==
  IF method = "eval" THEN One // (One ++ Sq(in)) ELSE Neg(Const(2) ** in) // Sq(One ++ Sq(in))

SoftPlus(method, in, out) ==
  CASE method = "eval"    -> Halved(in ++ sqrt(One ++ Sq(in)))
    [] method = "inverse" -> (Sq(in) -- (One // Const(4))) // in
    [] OTHER              -> Halved(One ++ (in // sqrt(One ++ Sq(in))))

Exp(method, in, out) ==
  CASE method = "eval" -> exp(in) [] method = "inverse" -> log(in) [] OTHER -> out

\* HardSigmoid and SoftRBF are not among those that a layer can ask for by name.
makeFunction(func, method, in, out) ==
  CASE func = "Linear"   -> Linear(method, in, out)
    [] func = "Tanh"     -> Tanh(method, in, out)
    [] func = "Sigm"     -> Sigm(method, in, out)
    [] func = "HardSign" -> HardSign(method, in, out)
    [] func = "SoftSign" -> SoftSign(method, in, out)
    [] func = "Relu"     -> Relu(method, in, out)
    [] func = "LRelu"    -> LRelu(method, in, out)
    [] func = "ExpPlus"  -> ExpPlus(method, in, out)
    [] func = "SoftPlus" -> SoftPlus(method, in, out)
    [] func = "Exp"      -> Exp(method, in, out)

eval(func, in)          == makeFunction(func, "eval", in, in)
evalDiff(func, in, out) == makeFunction(func, "evalDiff", in, out)
inverse(func, out)      == makeFunction(func, "inverse", out, out)

------------------------------------------------------------------------------
(* Properties                                                              *)

Names == {"Linear", "Tanh", "Sigm", "HardSign", "SoftSign", "Relu", "LRelu", "ExpPlus",
          "SoftPlus", "Exp"}
Points == {<<x % Prime, 1>> : x \in -60 .. 60}

\* Where a function can be evaluated, and where its inverse may be asked for and gives the
\* argument back: the inverses of HardSign and SoftSign are of positive numbers only (they
\* assert it), and a function in two pieces keeps the sign, which a residue may not show.
Defined(func, in) ==
  /\ func \in {"HardSign", "SoftPlus"} => IsSquare(One ++ Sq(in))
  /\ func \in {"Relu", "LRelu", "SoftSign"} => in[1] # 0
Invertible(func, in) ==
  /\ func \in {"HardSign", "SoftSign", "Relu"} => Positive(in) /\ Positive(eval(func, in))
  /\ func = "LRelu" => (Positive(in) <=> Positive(eval(func, in)))

\* The derivative of a non-linearity is that of its value, and its inverse, by which
\* parameters are initialised, is the inverse (evalDiff, inverse).
FunctionsDifferentiated ==
  \A func \in Names : \A x \in {p \in Points : Defined(func, p)} :
    LET y == eval(func, x) IN
    /\ Fixed(evalDiff(func, x, y)) = Rate(y)
    /\ Invertible(func, x) => Fixed(inverse(func, y)) = Fixed(x)
=============================================================================
