\* Two channels and one the HAL does not have, used as the demo's menu does.
\* A channel that was started without a subscription cannot be stopped.
CONSTANTS
  Channels <- TwoChannels
  Unsupported <- OneMore
  FrmCnt = 1
  MaxNew = 2
  MaxOld = 1
  MaxThreads = 2
  OpensWhileRunning = FALSE
SPECIFICATION MenuFairSpec
INVARIANTS SessionTypeOK StateIsCurrent EventsAreOfThisRun
 
CHECK_DEADLOCK FALSE
