SPECIFICATION Spec
CONSTANTS
  Handlers = {h1, h2}
  Lengths = {1, 2}
  MaxTotObs = 2
  nParams = 2
  MaxPushed = 4
  MaxSteps = 3
  MaxCrashes = 2
INVARIANTS
  EpisodesCounted
  BackupsAgree
  ObservationsSaved
  UpdatesKept
PROPERTIES
  RestartSucceeds
CHECK_DEADLOCK FALSE
