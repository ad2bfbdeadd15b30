\* Azure alone, with two refusals, failed items, broken connections or
\* cancellations: a delete that is cancelled may leave requests behind, and
\* goroutines.
SPECIFICATION MCSpec
CHECK_DEADLOCK FALSE
CONSTANTS
  k1 = k1
  k2 = k2
  b1 = b1
  b2 = b2
  b3 = b3
  Providers = {"azure"}
  CloudBlocks = {b1, b2, b3}
  DeleteSets <- MCDeletes
  CloudCallers = {k1, k2}
  CloudRetries = 1
  BatchLimit = 2
  Workers = 2
  MaxCloudFaults = 2
PROPERTIES
  UnopposedPutsAreStored
