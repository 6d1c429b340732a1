CONSTANTS
  Workers = {w1, w2}
  NumJobs = 5
  ConfigBatchSize = 3
  Batching = FALSE
  HandlerMayFail = TRUE
  MayCancel = TRUE
SPECIFICATION FairSpec
INVARIANT DeliveredAtMostOnce
PROPERTY NoLeak
