SPECIFICATION FairSpec
CONSTANTS
  Keys <- MCKeys2
  Devices = {"cuda0", "cuda1"}
  DeviceOf <- MCOneDevice
  r1 = r1
  r2 = r2
  r3 = r3
  s1 = s1
  s2 = s2
  Runs = {r1, r2}
  BatchKeys = 1
  Candidate = {1, 2}
  Strong = {1, 2}
  KeepProvenance = FALSE
  NoRun = NoRun
  Supervisors = {s1}
  Loops = 0
  IngestEvery = 1
  SyncVerify = FALSE
  Events = {"stop", "resume", "restart"}
CHECK_DEADLOCK FALSE
PROPERTIES
  QueueDrains
  AlertsArrive
  PausedRunExits
