SPECIFICATION relaySpec
CONSTANTS
  SockCap = 3
PROPERTIES
  StatusFitsEpisode
CHECK_DEADLOCK FALSE
