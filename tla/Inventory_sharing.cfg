CONSTANTS
  Listeners = {l1, l2}
  NumBatches = 2
  ChanCap = 1
  WriterMayFail = TRUE
  Others = {"other"}
  MaxInterruptions = 1
SPECIFICATION FairSpec
\* A writer stuck in a broadcast and a done() of somebody else may wait for each
\* other, and the listeners of a writer that failed, or of a forgotten inventory,
\* wait for good: the system may stop.
CHECK_DEADLOCK FALSE
INVARIANTS  CompleteOnReturn NoSendOnClosed NoBatchLost
PROPERTIES ReleasedBySignal ReleasedByWriter
