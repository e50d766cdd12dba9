SPECIFICATION Spec
CONSTANTS
  Keys <- MCKeys2
  Devices = {"cuda0"}
  DeviceOf <- MCOneDevice
  r1 = r1
  r2 = r2
  r3 = r3
  s1 = s1
  s2 = s2
  Runs = {r1, r2}
  BatchKeys = 2
  Candidate = {1}
  Strong = {1}
  KeepProvenance = FALSE
  NoRun = NoRun
  Supervisors = {s1, s2}
  Loops = 0
  IngestEvery = 0
  SyncVerify = TRUE
  Events = {"reset", "worker", "verifier", "interrupt", "stop"}
SYMMETRY MCSymmetry
CHECK_DEADLOCK FALSE
INVARIANTS
  DoneHasRow
PROPERTIES
  KeepsQueuePromise
  InterruptSettles
