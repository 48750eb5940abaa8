\* Two feeders race for the mailbox, two data, every thread is created: small
\* enough for liveness, which symmetry would spoil.
CONSTANTS
  d1 = d1
  d2 = d2
  t1 = t1
  f1 = f1
  f2 = f2
  N = 2
  Data = {d1, d2}
  Feeders = {f1, f2}
  Types = {t1}
  DataType <- OneType
  ProcessorType <- OneProcessorType
  SpawnMayFail = FALSE
SPECIFICATION FairSpec
INVARIANT MutexOwners
PROPERTY EventuallyReleased
