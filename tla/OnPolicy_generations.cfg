SPECIFICATION FairSpec
CONSTANTS
 Envs = {e1,e2}
 nOwnAgentsPerEnv = 2
 Algos = {"CMA","PPO"}
 ESpopSize = 2
 nParams = 4
 SimdWidth = 2
 learn_size = 4
 learn_rank = 1
 UintRange = 256
 BatchSize = 1
 nHorizon = 4
 ObsPerStep = 1
 MaxLen = 3
 MaxSteps = 9
 MaxGenerations = 2
INVARIANTS EverySampleEvaluated SamplesWhole StoredBounded GradientsBacked
PROPERTIES StepsGoOn
CHECK_DEADLOCK FALSE
