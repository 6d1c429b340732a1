CONSTANTS
  Workers = {w1, w2}
  NumJobs = 6
  ConfigBatchSize = 3
  Batching = TRUE
  HandlerMayFail = TRUE
  MayCancel = FALSE
SPECIFICATION FairSpec
INVARIANTS TypeOK DeliveredAtMostOnce CompleteOnSuccess QuietAfterVerdict NoSendOnClosed
PROPERTIES ImplementsPromise ProcessReturns
