SPECIFICATION FairSpec
CONSTANTS
  Keys <- MCKeys3
  Devices = {"cuda0", "cuda1"}
  DeviceOf <- MCOneDevice
  r1 = r1
  r2 = r2
  r3 = r3
  Runs = {r1, r2, r3}
  BatchKeys = 2
  Candidate = {1}
  Strong = {1}
  KeepProvenance = FALSE
  NoRun = NoRun
  Loops = 0
  Events = {"stop", "resume", "deadline", "worker", "kill", "recover"}
CHECK_DEADLOCK FALSE
INVARIANTS
  NoKeyWrittenOff
  WorkerOnItsLease
  NobodyWaitsForever
  PauseReachesDaemons
  ExitSettles
PROPERTIES
  KeepsQueuePromise
  RunEnds
  AlertsArrive
