SPECIFICATION fairMasterSpec
CONSTANTS
  nCallingEnvs = 3
  nThreads = 2
  AgentsPerEnv = 2
  Transports = {"MPI", "sockets"}
INVARIANTS
  KillProtocol
PROPERTIES
  ImplementsRPC
  ShutdownCompletes
