SPECIFICATION Spec
CONSTANTS
 Setups <- MCSetups
 MaxBPTT = 1
 nParams = 5
 SimdWidth = 2
 MaxThreads = 2
INVARIANTS GradientsAreChainRule AddedInputGiven NumbersBehindPaths GradientsSummed
CHECK_DEADLOCK FALSE
