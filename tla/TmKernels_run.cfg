SPECIFICATION Spec
CONSTANTS
  Kernels <- MCKernels
  OneMapKernels <- MCOneMapKernels
  Samples <- MCSamples
  Loads <- MCLoads
  Schedules <- MCSchedules
  Requests <- MCRequests
  Pages <- MCPages
  NWAY_BATCH = 4
  BATCH_SIZE = 4
  MaxAlgs = 2
  Taus = {2}
CHECK_DEADLOCK FALSE
INVARIANTS
  ScreenAgrees
  TaintCovers
  BlocksAgree
  AnalysisIsSound
PROPERTIES
  ImplementsTransform
  ScoresAgree
