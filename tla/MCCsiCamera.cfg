\* Two channels, started and stopped in any order, two frames each.  The
\* application may wait for ever for an event of a channel it did not start.
CONSTANTS
  Channels <- TwoChannels
  FrmCnt = 2
  MaxNew = 2
  MaxOld = 1
  MaxThreads = 2
SPECIFICATION Spec
INVARIANTS TypeOK EveryPostHasAnEvent  HeldFrameIsWhole
CHECK_DEADLOCK FALSE
