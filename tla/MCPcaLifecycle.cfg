\* The callback has no cancellation point.
CONSTANTS
  d1 = d1
  d2 = d2
  t1 = t1
  f1 = f1
  N = 2
  Data = {d1, d2}
  Feeders = {f1}
  Types = {t1}
  DataType <- OneType
  ProcessorType <- OneProcessorType
  SpawnMayFail = FALSE
  CallbackCancels = FALSE
SPECIFICATION LifecycleFairSpec
INVARIANTS ListedDataAreOwned StopLeavesClean StopReleases
PROPERTY StopReturns
