\* Two callers and up to three blocks in batches of two, one retry, and one
\* refusal, failed item, broken connection or cancellation.
SPECIFICATION MCSpec
CHECK_DEADLOCK FALSE
CONSTANTS
  k1 = k1
  k2 = k2
  b1 = b1
  b2 = b2
  b3 = b3
  Providers = {"s3", "s3path", "azure", "gcs", "swift"}
  CloudBlocks = {b1, b2, b3}
  DeleteSets <- MCDeletes
  CloudCallers = {k1, k2}
  CloudRetries = 1
  BatchLimit = 2
  Workers = 2
  MaxCloudFaults = 1
INVARIANTS
  AcknowledgedBlocksStay
PROPERTIES
  AnswersAreTrue
  RetriesAreSpent

