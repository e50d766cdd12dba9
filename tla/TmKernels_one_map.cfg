SPECIFICATION Spec
CONSTANTS
  Kernels <- MCMisread
  OneMapKernels <- MCMisread
  Samples <- MCSamples
  Loads = {}
  Schedules <- MCSchedules
  Requests = {}
  Pages = {}
  NWAY_BATCH = 4
  BATCH_SIZE = 4
  MaxAlgs = 0
  Taus = {}
CHECK_DEADLOCK FALSE
PROPERTIES
  OneMapAgrees
