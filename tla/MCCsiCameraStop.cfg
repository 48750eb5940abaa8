\* Two channels started, then stopped, as camera_demo2 starts them.
CONSTANTS
  Channels <- TwoChannels
  FrmCnt = 1
  MaxNew = 2
  MaxOld = 1
  MaxThreads = 2
SPECIFICATION Spec
INVARIANT NoDispatcherLeft
CHECK_DEADLOCK FALSE
