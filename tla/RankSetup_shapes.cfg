\* Outside the supported arrangements ranks may wait for each other for ever.
SPECIFICATION FairSpec
CHECK_DEADLOCK FALSE
CONSTANTS
  Shapes <- AnyShapes
  OldDirs <- SomeDirs
  MaxDim = 2
  gamma = 2
  lambda = 3
INVARIANTS
  OneMasterPerGroup
  MastersDescribed
  TeamsInOneDirectory
  EpisodesAsPlayed
PROPERTIES
  SetupCompletes
