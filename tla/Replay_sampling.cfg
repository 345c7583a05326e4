SPECIFICATION Spec
CONSTANTS
 Pushers = {p1}
 Setups <- MCSetups
 MaxLen = 2
 MaxEpisodes = 3
 BatchSize = 2
 nObsB4StartTraining = 3
 maxTotObs = 2
 MaxSteps = 2
 RecomputeEvery = 2
 ClipFirst = 2
 Levels = {1,2,3}
 ClipLast = 1
 AnnealedAt = 1
INVARIANTS SamplesExist PriorityOfDrawn FarCounted EnoughToDraw
CHECK_DEADLOCK FALSE
