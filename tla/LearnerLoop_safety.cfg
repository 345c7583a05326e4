SPECIFICATION Spec
CONSTANTS
  e1 = e1
  e2 = e2
  h1 = h1
  h2 = h2
  Envs = {e1, e2}
  Handlers = {h1, h2}
  HandlerOf <- OwnThread
  AgentsPerEnv = 1
  NLearners = 1
  NObsB4Start = 2
  MaxTotObs = 2
  ObsNum = 3
  ObsDen = 2
  NTrainSteps = 3
  NEvalEps = 1
  SaveFreq = 1
  Modes = {TRUE}
  LearnRank = 0
  LongMax = 50
  MaxLen = 3
  MaxSeen = 4
  MaxCrashes = 1
INVARIANTS
  AcquisitionBounded
  GradientsBackedByData
  DataSetFloor
  TransitionsAccounted
SYMMETRY Swap
