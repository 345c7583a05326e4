SPECIFICATION FairSpec
CONSTANTS
  e1 = e1
  e2 = e2
  h1 = h1
  h2 = h2
  Envs = {e1}
  Handlers = {h1}
  HandlerOf <- SingleEnv
  AgentsPerEnv = 2
  NLearners = 2
  NObsB4Start = 2
  MaxTotObs = 2
  ObsNum = 1
  ObsDen = 1
  NTrainSteps = 2
  NEvalEps = 1
  SaveFreq = 2
  Modes = {TRUE, FALSE}
  LearnRank = 0
  LongMax = 50
  MaxLen = 2
  MaxSeen = 4
  MaxCrashes = 0
PROPERTIES
  TrainingEnds
