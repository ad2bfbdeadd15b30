\* Three uploads and two other requests while a server stops; three handlers
\* around Start and Wait alone; three callers of the limiter for two slots, or
\* for one when the headroom takes the rest; calls to each of the cloud stores
\* on two blocks; two uploads and a sweeper over one key: overwrites, shared
\* and repeated blocks, failures and a crash.  A server may stop.
SPECIFICATION MCSpec
CHECK_DEADLOCK FALSE
CONSTANTS
  b1 = b1
  b2 = b2
  id1 = id1
  id2 = id2
  u1 = u1
  u2 = u2
  Handlers = {h1, h2, h3}
  Others = {o1, o2}
  Callers = {c1, c2, c3}
  MaxLimit = 2
  Headroom = 1
  Processors = {1, 3, 8}
  MaxChanges = 1
  Providers = {"s3", "s3path", "azure", "gcs", "swift"}
  CloudBlocks = {b1, b2}
  DeleteSets <- MCDeletes
  CloudCallers = {k1}
  CloudRetries = 1
  BatchLimit = 2
  Workers = 1
  MaxCloudFaults = 1
  NoKey = NoKey
  NoObject = NoObject
  NoId = NoId
  ObjectIds = {id1, id2}
  Keys = {"key"}
  Hashes = {b1, b2}
  Manifests <- SharedBlocks
  Uploads = {u1, u2}
  Sweepers = {w1}
  MaxClock = 2
  MinOrphanAge = 1
  BatchSize = 1
  MaxRetries = 1
  PromptCalls = FALSE
  MaxFaults = 2
INVARIANTS
  ShutdownIsClean
  SlotsExact
  ReferencedBlocksStored
PROPERTIES
  ShutdownEnds
  SomeoneGetsASlot
  CallsEnd
  OrphansAreCollected
  OnlyOldOrphansRemoved
  ForgottenBlocksAreGone
