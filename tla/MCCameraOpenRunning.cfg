\* A client that opens a second channel while the first runs.
CONSTANTS
  Channels <- TwoChannels
  Unsupported <- OneMore
  FrmCnt = 1
  MaxNew = 2
  MaxOld = 1
  MaxThreads = 2
  OpensWhileRunning = TRUE
SPECIFICATION MenuSpec
INVARIANT StateIsCurrent
