SPECIFICATION Spec
CONSTANTS
  Keys <- MCKeys3
  Devices = {"cuda0"}
  DeviceOf <- MCOneDevice
  r1 = r1
  r2 = r2
  r3 = r3
  Runs = {r1, r2, r3}
  BatchKeys = 2
  Candidate = {1, 2}
  Strong = {1, 2}
  KeepProvenance = FALSE
  NoRun = NoRun
  Loops = 0
  Events = {"stop", "lift"}
CHECK_DEADLOCK FALSE
INVARIANTS
  NoKeyWrittenOff
