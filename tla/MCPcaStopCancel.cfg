\* The callback calls printf, as the one of the simulator does.
CONSTANTS
  d1 = d1
  d2 = d2
  t1 = t1
  f1 = f1
  N = 2
  Data = {d1, d2}
  Feeders = {f1}
  Types = {t1}
  DataType <- OneType
  ProcessorType <- OneProcessorType
  SpawnMayFail = FALSE
  CallbackCancels = TRUE
SPECIFICATION LifecycleFairSpec
\* What the run finds: a consumer that dies inside the callback stops everything.
CHECK_DEADLOCK FALSE
PROPERTY StopReturns
