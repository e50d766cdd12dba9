SPECIFICATION MCDedupSpec
CONSTANTS
  T = 2
  Configs <- MCConfigs
  Caps = 1
  CodeAt <- MCCodeAt
  Fingerprint <- MCFingerprint
  LowShed <- MCLowShed
  Passing <- MCPassing
  Certified <- MCCertified
  Lanes = 2
  DeepLanes = 2
  WaveN = 2
  Chunk = 3
  Buckets = 1
  Ways = 2
  Maps = 3
  Expand <- MCExpand
  RunMap <- MCRunMap
  Confident <- MCConfident
  StateFingerprint <- MCStateFingerprint
  Fp128 <- MCFp128
  SourceClasses <- MCSourceClasses
  PageSize = 2
  Calls <- MCSameCalls
  Setups <- MCStaticCache
  MaxCalls = 3
  Word = 16
  Tags = 4
  SlotFloor = 4
  DynFloor = 4
  HeapRepeats = FALSE
INVARIANT
  FrontCacheIsCurrent
