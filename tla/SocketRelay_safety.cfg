SPECIFICATION relaySpec
CONSTANTS
  SockCap = 3
INVARIANTS
  RelayLockstep
  KillIsLast
CHECK_DEADLOCK FALSE
