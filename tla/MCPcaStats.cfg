\* MaxFeeds is reached: the runs end there.
CONSTANTS
  d1 = d1
  d2 = d2
  d3 = d3
  t1 = t1
  t2 = t2
  f1 = f1
  N = 2
  MaxFeeds = 4
  Data = {d1, d2, d3}
  Feeders = {f1}
  Types = {t1, t2}
  DataType <- TwoTypes
  ProcessorType <- OneProcessorType
  SpawnMayFail = TRUE
SPECIFICATION StatsSpec
SYMMETRY SameType
CHECK_DEADLOCK FALSE
INVARIANTS DispatcherAccounts ConsumerAccounts OfferedAtMostOnce
