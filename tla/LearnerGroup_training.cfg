SPECIFICATION FairSpec
CONSTANTS
  nLearners = 2
  Arrangements <- Mixed
  NObsB4Start = 1
  ObsNum = 3
  ObsDen = 2
  NTrainSteps = 2
  StatsFreq = 3
  DoneSteps <- Fresh
  MaxSeen <- Three
  LongMax = 50
INVARIANTS
  StepsInLockstep
  CollectivesMatch
  GlobalRatio
  EpisodesDealt
PROPERTIES
  TrainingEnds
CHECK_DEADLOCK FALSE
