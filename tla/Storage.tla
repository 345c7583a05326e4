------------------------------- MODULE Storage -------------------------------
(***************************************************************************)
(* Where a network keeps its numbers.  Each class of layer asks for        *)
(* weights, biases and cells of working memory.  Builder stacks layers,    *)
(* Parameters lays their weights and biases one after the other, padded to *)
(* the width of vector instructions, and Activation holds their cells at   *)
(* one step.  Files hold weights and biases without the padding.           *)
(*                                                                         *)
(* width is ARY_WIDTH, the number of values in a vector register, which    *)
(* changes with the processor and with the type of numbers that the        *)
(* program is built for.  A stored number is an integer, of which a float  *)
(* keeps the even part.  Addresses and cells count from 0, layers from 1.  *)
(***************************************************************************)
EXTENDS NetworkLayers, FiniteSets

roundUpSimd(N, width) == ((N + width - 1) \div width) * width

RECURSIVE TotalOf(_, _, _)
TotalOf(s, a, b) ==
  IF a < b THEN LET m == (a + b) \div 2 IN TotalOf(s, a, m) + TotalOf(s, m + 1, b)
  ELSE IF a = b THEN s[a] ELSE 0
Total(s) == TotalOf(s, 1, Len(s))

\* Zeros, aligned and padded.
allocate_ptr(size, width)  == VectorOf(roundUpSimd(size, width), LAMBDA a : 0)
allocate_vec(sizes, width) == VectorOf(Len(sizes), LAMBDA i : allocate_ptr(sizes[i], width))

------------------------------------------------------------------------------
(* What each class of layer asks for: weights and biases                   *)
(* (requiredParameters), cells of memory (requiredActivation), and numbers *)
(* in the file, which save and restart return (file).                      *)

NewLayer(class, size) ==
  [class |-> class, size |-> size, nInputs |-> 0, rows |-> 0, nWeights |-> 0, nBiases |-> 0,
   cells |-> size, file |-> 0, bOutput |-> FALSE, bInput |-> FALSE]

InputLayer(size)    == [NewLayer("Input", size) EXCEPT !.bInput = TRUE]
JoinLayer(size)     == NewLayer("Join", size)
ParametricResidualLayer(size) ==
  [NewLayer("ParametricResidual", size) EXCEPT !.nWeights = size, !.nBiases = size, !.file = 2 * size]
ParamLayer(size) ==
  [NewLayer("Param", size) EXCEPT !.nBiases = size, !.file = size, !.bOutput = TRUE]

\* rows of weights: one for each input and, if it is recurrent, for each of its outputs.
BaseLayer(nInputs, nNeurons, bRecurrent, bOut, width) ==
  LET rows == nInputs + (IF bRecurrent THEN nNeurons ELSE 0) IN
  [NewLayer("Base", nNeurons) EXCEPT !.nInputs = nInputs, !.rows = rows, !.bOutput = bOut,
     !.nWeights = roundUpSimd(nNeurons, width) * rows, !.nBiases = nNeurons,
     !.file = nNeurons * (rows + 1)]

LSTMLayer(nInputs, nCells, bOut) ==
  [NewLayer("LSTM", nCells) EXCEPT !.nInputs = nInputs, !.rows = nInputs + nCells, !.bOutput = bOut,
     !.nWeights = 4 * nCells * (nInputs + nCells), !.nBiases = 4 * nCells, !.cells = 4 * nCells,
     !.file = 4 * nCells * (nInputs + nCells + 1)]

MGULayer(nInputs, nCells, bOut) ==
  [NewLayer("MGU", nCells) EXCEPT !.nInputs = nInputs, !.rows = nInputs + nCells, !.bOutput = bOut,
     !.nWeights = 2 * nCells * (nInputs + nCells), !.nBiases = 2 * nCells, !.cells = 2 * nCells,
     !.file = 2 * nCells * (nInputs + nCells + 1)]

Conv2DLayer(g, bOut) ==
  LET out_size == g.KnC * g.OpY * g.OpX   nWeights == g.KnC * g.InC * g.KnY * g.KnX IN
  [NewLayer("Conv2D", out_size) EXCEPT !.nInputs = g.InC * g.InY * g.InX, !.bOutput = bOut,
     !.nWeights = nWeights, !.nBiases = out_size, !.file = nWeights + out_size]
Mat2ImLayer(g) ==
  [NewLayer("Mat2Im", g.InC * g.KnY * g.KnX * g.OpY * g.OpX) EXCEPT !.nInputs = g.InC * g.InY * g.InX]

------------------------------------------------------------------------------
(* Builder                                                                 *)

NewBuilder == [layers |-> <<>>, nInputs |-> 0, nOutputs |-> 0]
back(b) == b.layers[Len(b.layers)]
Emplaced(b, new) == [b EXCEPT !.layers = @ \o new]

\* Inputs that come after other layers are glued to what these gave.
addInput(b, size) ==
  LET glue == IF b.nInputs > 0 THEN <<JoinLayer(back(b).size + size)>> ELSE <<>>
  IN [Emplaced(b, <<InputLayer(size)>> \o glue) EXCEPT !.nInputs = @ + size]

LayerOfType(layerType, below, layerSize, isOutputLayer, width) ==
  CASE layerType = "LSTM"           -> LSTMLayer(below, layerSize, isOutputLayer)
    [] layerType \in {"MGU", "GRU"} -> MGULayer(below, layerSize, isOutputLayer)
    [] OTHER -> BaseLayer(below, layerSize, layerType \in {"RNN", "Recurrent"}, isOutputLayer, width)

addLayer(b, layerSize, isOutputLayer, layerType, width) ==
  LET new == LayerOfType(layerType, back(b).size, layerSize, isOutputLayer, width)
      around == IF isOutputLayer \/ Len(b.layers) = 1 THEN <<>> ELSE <<ParametricResidualLayer(layerSize)>>
  IN [Emplaced(b, <<new>> \o around) EXCEPT !.nOutputs = @ + (IF isOutputLayer THEN layerSize ELSE 0)]

addParamLayer(b, size) == [Emplaced(b, <<ParamLayer(size)>>) EXCEPT !.nOutputs = @ + size]

makeConv2D(b, g, bOut, mkl) == Emplaced(b, (IF mkl THEN <<Mat2ImLayer(g)>> ELSE <<>>) \o <<Conv2DLayer(g, bOut)>>)

\* A network none of whose layers is said to be an output gives the last.
WithOutput(b) ==
  IF back(b).bOutput THEN b
  ELSE [b EXCEPT !.layers[Len(b.layers)].bOutput = TRUE, !.nOutputs = back(b).size]

------------------------------------------------------------------------------
(* Parameters: weights and biases of all layers in one array               *)

computeNParams(nWeights, nBiases, width) ==
  LET after[i \in 0 .. Len(nWeights)] ==
        IF i = 0 THEN 0 ELSE after[i - 1] + roundUpSimd(nWeights[i], width) + roundUpSimd(nBiases[i], width)
  IN [indWeights |-> [i \in DOMAIN nWeights |-> after[i - 1]],
      indBiases  |-> [i \in DOMAIN nWeights |-> after[i - 1] + roundUpSimd(nWeights[i], width)],
      nParams    |-> after[Len(nWeights)]]

\* The share of each rank is padded, too.
allocate_param(size, mpiSize, width) ==
  allocate_ptr(roundUpSimd((size + mpiSize - 1) \div mpiSize, width) * mpiSize, width)

NewParameters(nWeights, nBiases, mpiSize, width) ==
  LET at == computeNParams(nWeights, nBiases, width) IN
  [nWeights |-> nWeights, nBiases |-> nBiases, indWeights |-> at.indWeights, indBiases |-> at.indBiases,
   nParams |-> at.nParams, mpiSize |-> mpiSize, params |-> allocate_param(at.nParams, mpiSize, width)]

allocParameters(layers, mpiSize, width) ==
  NewParameters([i \in DOMAIN layers |-> layers[i].nWeights], [i \in DOMAIN layers |-> layers[i].nBiases],
                mpiSize, width)
allocateEmptyAlike(P, width) == NewParameters(P.nWeights, P.nBiases, P.mpiSize, width)

WeightsAt(P, i) == {P.indWeights[i] + k : k \in 0 .. P.nWeights[i] - 1}
BiasesAt(P, i)  == {P.indBiases[i] + k : k \in 0 .. P.nBiases[i] - 1}
At(P, a)        == P.params[a + 1]

copyParams(P, tgt) == [P EXCEPT !.params = SubSeq(tgt.params, 1, P.nParams) \o SubSeq(@, P.nParams + 1, Len(@))]

\* Of the norms, the squares; they take the padding in.
Squares(P, values) == Total(VectorOf(P.nParams, LAMBDA a : values[a] * values[a]))
compute_weight_norm(P)      == Squares(P, P.params)
compute_weight_L1norm(P)    == Total(VectorOf(P.nParams, LAMBDA a : IF P.params[a] < 0 THEN -P.params[a] ELSE P.params[a]))
compute_weight_dist(P, TGT) == Squares(P, VectorOf(P.nParams, LAMBDA a : P.params[a] - TGT.params[a]))

\* Values from the start of a row of weights to that of the next.
nOut_simd(l, width) == roundUpSimd(l.size, width)
Stride(l, width) == CASE l.class = "Base" -> nOut_simd(l, width)
                      [] l.class = "LSTM" -> 4 * l.size
                      [] l.class = "MGU"  -> 2 * l.size
\* The weight that forward multiplies input row by, for output col.
WeightAt(P, i, l, width, row, col) == P.indWeights[i] + Stride(l, width) * row + col
------------------------------------------------------------------------------
(* initialize: the weights and biases, among those of a layer, that it     *)
(* writes.                                                                 *)

BaseInitialized(l, P, i, width) ==
  {P.indBiases[i] + o : o \in 0 .. l.size - 1} \cup
  {P.indWeights[i] + o + nOut_simd(l, width) * r : o \in 0 .. l.size - 1, r \in 0 .. l.nInputs - 1} \cup
  {P.indWeights[i] + nOut_simd(l, width) * l.nInputs + o + nOut_simd(l, width) * r :
     o \in 0 .. l.size - 1, r \in 0 .. l.rows - l.nInputs - 1}
FirstOf(P, i, nW, nB) ==
  {P.indWeights[i] + w : w \in 0 .. nW - 1} \cup {P.indBiases[i] + o : o \in 0 .. nB - 1}
LSTMInitialized(l, P, i) == FirstOf(P, i, 4 * l.size * (l.nInputs + l.size), 4 * l.size)
MGUInitialized(l, P, i)  == FirstOf(P, i, 2 * l.size * (l.nInputs + l.size), 2 * l.size)
ConvInitialized(P, i)    == FirstOf(P, i, P.nWeights[i], P.nBiases[i])
ResidualInitialized(l, P, i) == FirstOf(P, i, l.size, l.size)
ParamInitialized(l, P, i)    == FirstOf(P, i, 0, l.size)

Initialized(l, P, i, width) ==
  CASE l.class = "Base"   -> BaseInitialized(l, P, i, width)
    [] l.class = "LSTM"   -> LSTMInitialized(l, P, i)
    [] l.class = "MGU"    -> MGUInitialized(l, P, i)
    [] l.class = "Conv2D" -> ConvInitialized(P, i)
    [] l.class = "ParametricResidual" -> ResidualInitialized(l, P, i)
    [] l.class = "Param"  -> ParamInitialized(l, P, i)
    [] OTHER -> {}

------------------------------------------------------------------------------
(* The addresses that save of a layer writes to the file, and that restart *)
(* reads from it, in their order.                                          *)

InOrder(P, i, nW, nB) == VectorOf(nW, LAMBDA k : P.indWeights[i] + k - 1) \o VectorOf(nB, LAMBDA k : P.indBiases[i] + k - 1)

\* Row by row, without what fills a row up.
BaseFile(l, P, i, width) ==
  VectorOf(l.rows * l.size, LAMBDA k :
    P.indWeights[i] + nOut_simd(l, width) * ((k - 1) \div l.size) + ((k - 1) % l.size)) \o
  VectorOf(l.size, LAMBDA k : P.indBiases[i] + k - 1)
LSTMFile(l, P, i)     == InOrder(P, i, 4 * l.size * (l.nInputs + l.size), 4 * l.size)
MGUFile(l, P, i)      == InOrder(P, i, 2 * l.size * (l.nInputs + l.size), 2 * l.size)
ConvFile(P, i)        == InOrder(P, i, P.nWeights[i], P.nBiases[i])
ResidualFile(l, P, i) == InOrder(P, i, l.size, l.size)
ParamFile(l, P, i)    == InOrder(P, i, 0, l.size)

FileOf(l, P, i, width) ==
  CASE l.class = "Base"   -> BaseFile(l, P, i, width)
    [] l.class = "LSTM"   -> LSTMFile(l, P, i)
    [] l.class = "MGU"    -> MGUFile(l, P, i)
    [] l.class = "Conv2D" -> ConvFile(P, i)
    [] l.class = "ParametricResidual" -> ResidualFile(l, P, i)
    [] l.class = "Param"  -> ParamFile(l, P, i)
    [] OTHER -> <<>>

AsFloat(v) == v - (v % 2)

\* Each layer starts in the buffer where the ones before it said that they ended.
totWritten(layers, i) == Total([j \in 1 .. i - 1 |-> layers[j].file])

FileOrder(layers, P, width) ==
  VectorOf(Len(layers), LAMBDA i : [from |-> totWritten(layers, i), at |-> FileOf(layers[i], P, i, width)])

saveNetwork(layers, P, width) ==
  LET order == FileOrder(layers, P, width)
      writers(k) == {i \in DOMAIN layers : k - order[i].from \in DOMAIN order[i].at}
      last(k) == CHOOSE i \in writers(k) : \A j \in writers(k) : j <= i
  IN VectorOf(totWritten(layers, Len(layers) + 1), LAMBDA k :
       IF writers(k) = {} THEN 0 ELSE AsFloat(At(P, order[last(k)].at[k - order[last(k)].from])))

\* restart dies when the file does not hold as many numbers as the layers read.
restartNetwork(layers, P, file, width) ==
  LET buf == VectorOf(P.nParams, LAMBDA k : IF k <= Len(file) THEN file[k] ELSE 0)
      order == FileOrder(layers, P, width)
      read(params, o) == VectorOf(Len(params), LAMBDA a :
        IF \E k \in DOMAIN o.at : o.at[k] = a - 1
        THEN buf[o.from + CHOOSE k \in DOMAIN o.at : o.at[k] = a - 1] ELSE params[a])
  IN [lives |-> Min2(Len(file), P.nParams) = totWritten(layers, Len(layers) + 1),
      P |-> [P EXCEPT !.params = FoldLeft(read, @, order)]]

------------------------------------------------------------------------------
(* Activation: the cells of all layers at one step                         *)

NewActivation(sizes, output, input, width) ==
  [sizes |-> sizes, output |-> output, input |-> input, written |-> FALSE,
   outvals |-> allocate_vec(sizes, width), errvals |-> allocate_vec(sizes, width)]
allocActivation(layers, width) ==
  NewActivation([i \in DOMAIN layers |-> layers[i].cells], [i \in DOMAIN layers |-> layers[i].bOutput],
                [i \in DOMAIN layers |-> layers[i].bInput], width)

\* Numbers of the layers that are marked, one after the other.
Marked(A, marks, i) == IF marks[i] THEN A.sizes[i] ELSE 0
nMarked(A, marks, i) == Total([j \in 1 .. i |-> Marked(A, marks, j)])
nOuts(A) == nMarked(A, A.output, Len(A.sizes))
nInps(A) == nMarked(A, A.input, Len(A.sizes))

Gathered(A, marks, arrays) ==
  FoldLeft(LAMBDA v, i : v \o SubSeq(arrays[i], 1, Marked(A, marks, i)), <<>>, VectorOf(Len(A.sizes), LAMBDA i : i))
\* What is given to cell k of layer i; other cells keep what they have.
Scattered(A, marks, arrays, v) ==
  VectorOf(Len(arrays), LAMBDA i : VectorOf(Len(arrays[i]), LAMBDA k :
    IF k <= Marked(A, marks, i) THEN v[nMarked(A, marks, i - 1) + k] ELSE arrays[i][k]))

setInput(A, inp) == [A EXCEPT !.outvals = Scattered(A, A.input, @, inp)]
getInput(A)      == Gathered(A, A.input, A.outvals)
getOutput(A)     == Gathered(A, A.output, A.outvals)

setOutputDelta(A, delta) == [A EXCEPT !.errvals = Scattered(A, A.output, @, delta), !.written = TRUE]
addOutputDelta(A, delta) ==
  [A EXCEPT !.written = TRUE,
     !.errvals = VectorOf(Len(@), LAMBDA i : VectorOf(Len(@[i]), LAMBDA k :
        IF k <= Marked(A, A.output, i) THEN @[i][k] + delta[nMarked(A, A.output, i - 1) + k] ELSE @[i][k]))]
getOutputDelta(A) == Gathered(A, A.output, A.errvals)
getInputGradient(A, ID) == SubSeq(A.errvals[ID], 1, A.sizes[ID])

\* clearErrors and clearOutput: the padding, too.
Cleared(arrays) == VectorOf(Len(arrays), LAMBDA i : VectorOf(Len(arrays[i]), LAMBDA k : 0))
clearErrors(A)  == [A EXCEPT !.errvals = Cleared(@)]
clearOutput(A)  == [A EXCEPT !.outvals = Cleared(@)]

\* The memory of a network before a series of steps: what was written to it is forgotten,
\* outputs stay.
allocTimeSeries(A) == [clearErrors(A) EXCEPT !.written = FALSE]

\* build takes the number of outputs from the memory.
build(b, width) ==
  LET test == allocActivation(b.layers, width) IN
  [lives |-> nInps(test) = b.nInputs, layers |-> b.layers, nOutputs |-> nOuts(test)]

------------------------------------------------------------------------------
(* Networks looked at: hidden layers of each type, after an image or not,  *)
(* with parameters at the end or not, and encoders, which only have hidden *)
(* layers.  MGU wants whole vectors of cells.                              *)

Stack(b, d, width) ==
  LET low  == FoldLeft(LAMBDA below, n : addLayer(below, n, FALSE, d.cell, width), b, d.hidden)
      head == IF d.encoder THEN low ELSE addLayer(low, 3, TRUE, "FFNN", width)
  IN IF d.params THEN addParamLayer(head, 1) ELSE head
Below0(d) ==
  IF d.image = "none" THEN addInput(NewBuilder, 2)
  ELSE LET g == CHOOSE g \in Geometries : g.OpY = g.OpX
           conv == makeConv2D(addInput(NewBuilder, g.InC * g.InY * g.InX), g, FALSE, d.image = "mkl")
       IN addInput(conv, 1)
Built(d, width) == WithOutput(Stack(Below0(d), d, width))

Descriptions ==
  {[cell |-> c, hidden |-> h, image |-> "none", params |-> p, encoder |-> FALSE] :
     c \in {"FFNN", "RNN", "LSTM", "MGU"}, h \in {<<3, 2>>, <<4>>, <<4, 4>>}, p \in BOOLEAN} \cup
  {[cell |-> c, hidden |-> <<4, 4>>, image |-> i, params |-> FALSE, encoder |-> TRUE] :
     c \in {"FFNN", "MGU"}, i \in {"none", "omp", "mkl"}}
WidthsFor(d) == {width \in {2, 4} : d.cell = "MGU" => \A n \in DOMAIN d.hidden : d.hidden[n] % width = 0}

Columns0(l) == 0 .. (IF l.class = "Base" THEN l.size ELSE l.nBiases) - 1
ReadByForward(l, P, i, width) ==
  BiasesAt(P, i) \cup
  (IF l.rows = 0 THEN WeightsAt(P, i)
   ELSE {WeightAt(P, i, l, width, row, col) : row \in 0 .. l.rows - 1, col \in Columns0(l)})

\* No parameter of a layer is one of another, each is aligned and within what is shared with
\* the other ranks, and initialize writes those that forward reads and no padding.
ParametersApart(layers, P, width) ==
  LET Held(i) == WeightsAt(P, i) \cup BiasesAt(P, i) IN
  /\ P.nParams <= Len(P.params)
  /\ \A i \in DOMAIN layers :
       /\ Held(i) \subseteq 0 .. P.nParams - 1
       /\ P.indWeights[i] % width = 0 /\ P.indBiases[i] % width = 0
       /\ WeightsAt(P, i) \cap BiasesAt(P, i) = {}
       /\ \A j \in 1 .. i - 1 : Held(i) \cap Held(j) = {}
       /\ Initialized(layers[i], P, i, width) = ReadByForward(layers[i], P, i, width)
       /\ ReadByForward(layers[i], P, i, width) \subseteq Held(i)
       /\ layers[i].rows > 0 =>
            Cardinality(ReadByForward(layers[i], P, i, width))
              = layers[i].nBiases + layers[i].rows * Cardinality(Columns0(layers[i]))

\* An odd number at each parameter that is used, another one for each; padding is 0.
AllRead(layers, P, width) == UNION {ReadByForward(layers[i], P, i, width) : i \in DOMAIN layers}
OddNumbers(P, used) == [P EXCEPT !.params = VectorOf(Len(@), LAMBDA a : IF a - 1 \in used THEN 2 * a + 1 ELSE 0)]

\* The norms of the parameters, over the padding too, are those of the ones that are used.
NormsOfUsed(P, same, target, used) ==
  /\ compute_weight_norm(P)
       = Total(VectorOf(P.nParams, LAMBDA a : IF a - 1 \in used THEN (2 * a + 1) * (2 * a + 1) ELSE 0))
  /\ compute_weight_L1norm(P) - compute_weight_L1norm(same) = Cardinality(used)
  /\ compute_weight_dist(same, P) = Cardinality(used) /\ compute_weight_dist(target, P) = 0

\* What is put back is in the layer, the row and the output that it was saved from, up to
\* what a float keeps of it.
PutBack(layers, P, from, layers2, P2, to) ==
  \A i \in DOMAIN layers :
    /\ layers[i].rows > 0 => \A row \in 0 .. layers[i].rows - 1, col \in Columns0(layers[i]) :
         At(P2, WeightAt(P2, i, layers2[i], to, row, col)) = AsFloat(At(P, WeightAt(P, i, layers[i], from, row, col)))
    /\ \A o \in 0 .. layers[i].nBiases - 1 : At(P2, P2.indBiases[i] + o) = AsFloat(At(P, P.indBiases[i] + o))

\* A file gives each parameter back, even to a build with vectors of another width; all that
\* was written is read, and the file of the restarted network is the same.
RestartsFrom(layers, P, from, layers2, empty, to, file) ==
  \E back2 \in {restartNetwork(layers2, empty, file, to)} :
    /\ back2.lives
    /\ saveNetwork(layers2, back2.P, to) = file
    /\ PutBack(layers, P, from, layers2, back2.P, to)
SavedWeightsReturn(layers, P, from, layers2, to) ==
  \E file \in {saveNetwork(layers, P, from)}, empty \in {allocateEmptyAlike(P, from)} :
    /\ RestartsFrom(layers, P, from, layers2, allocParameters(layers2, 1, to), to, file)
    /\ NormsOfUsed(P, restartNetwork(layers, empty, file, from).P, copyParams(empty, P), AllRead(layers, P, from))

\* The cells of a network keep the errors placed on its outputs and the inputs given to it
\* apart, in the order of the layers; what is added is added once, nothing is left of the
\* series of steps before, and other cells are left as they are.
Numbered(from, n) == VectorOf(n, LAMBDA k : from + k)
KeptApart(layers, A, inp, delta) ==
  \E dirty \in {addOutputDelta(setInput(A, inp), delta)} :
  \E twice \in {addOutputDelta(setOutputDelta(dirty, delta), delta)} :
  \E again \in {allocTimeSeries(twice)} :
    /\ getInput(dirty) = inp /\ getOutputDelta(dirty) = delta
    /\ getOutput(dirty) = VectorOf(nOuts(A), LAMBDA k : 0)
    /\ getOutputDelta(twice) = VectorOf(nOuts(A), LAMBDA k : 2 * delta[k]) /\ getInput(twice) = inp
    /\ \A i \in DOMAIN layers : \/ layers[i].bOutput
                               \/ getInputGradient(twice, i) = VectorOf(A.sizes[i], LAMBDA k : 0)
    /\ ~again.written /\ again.errvals = A.errvals /\ getInput(again) = inp /\ clearOutput(again) = A
MemoryKept(b, net, width) ==
  /\ net.lives
  /\ \A i \in DOMAIN b.layers : b.layers[i].class = "Join" =>
       b.layers[i].cells = b.layers[i - 1].cells + b.layers[i - 2].cells
  /\ (\A i \in DOMAIN b.layers : b.layers[i].bOutput => b.layers[i].cells = b.layers[i].size)
       => net.nOutputs = b.nOutputs
  /\ \E A \in {allocActivation(net.layers, width)} :
       KeptApart(net.layers, A, Numbered(100, nInps(A)), Numbered(200, nOuts(A)))

NumbersStored ==
  \A d \in Descriptions : \A width \in WidthsFor(d) : \E b \in {Built(d, width)} :
    /\ \A mpiSize \in 1 .. 3 : \E P \in {allocParameters(b.layers, mpiSize, width)} :
         /\ ParametersApart(b.layers, P, width)
         /\ mpiSize = 2 => \A to \in WidthsFor(d) :
              SavedWeightsReturn(b.layers, OddNumbers(P, AllRead(b.layers, P, width)), width, Built(d, to).layers, to)
    /\ MemoryKept(b, build(b, width), width)
==============================================================================
