\* One feeder, three data, two consumers whose threads may fail to start.
CONSTANTS
  d1 = d1
  d2 = d2
  d3 = d3
  t1 = t1
  f1 = f1
  N = 2
  Data = {d1, d2, d3}
  Feeders = {f1}
  Types = {t1}
  DataType <- OneType
  ProcessorType <- OneProcessorType
  SpawnMayFail = TRUE
SPECIFICATION Spec
INVARIANTS TypeOK NoUseAfterRelease RefCountExact NoDoubleRelease NoLeak
  NoLostWakeup WakesForData
PROPERTIES ImplementsContract StableWhileHandling
