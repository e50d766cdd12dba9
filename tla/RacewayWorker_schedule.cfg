SPECIFICATION WorkerSpec
CONSTANTS
  NumKeys = 7
  MaxBatch = 4
  KeyBatchSize = 4
  Ceil <- MCCeil
  Memory = 4
  Warps = {1, 2}
  Cadences <- MCCadences
  Maps = 4
  StateAfter <- MCStateAfter
  StrongHash <- MCStrongHash
  FlagOf <- MCFlagOf
  Shed <- MCShed
  CapBuckets = 1
  CapWays = 2
  VictimWay <- MCVictimWay
  BlockSize = 2
  PackedPositions = 4
CHECK_DEADLOCK FALSE
INVARIANTS
  ScheduleIsOwn
