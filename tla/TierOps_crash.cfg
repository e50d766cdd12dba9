SPECIFICATION Spec
CONSTANTS
  Keys <- MCKeys2
  Devices = {"cuda0"}
  DeviceOf <- MCOneDevice
  r1 = r1
  r2 = r2
  r3 = r3
  s1 = s1
  s2 = s2
  Runs = {r1, r2}
  BatchKeys = 2
  Candidate = {1, 2}
  Strong = {2}
  KeepProvenance = FALSE
  NoRun = NoRun
  Supervisors = {s1}
  Loops = 0
  IngestEvery = 1
  SyncVerify = FALSE
  Events = {"init", "recover", "kill", "restart", "worker"}
SYMMETRY MCSymmetry
CHECK_DEADLOCK FALSE
INVARIANTS
  TypeOK
  LeaseAgrees
  WorkerHoldsLease
  EvidenceKept
PROPERTIES
  DoneIsFinal
