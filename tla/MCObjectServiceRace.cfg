\* The overlap the passing run excepts: an upload that skips a block HasBlock
\* reports, and a sweep that deletes it before the upload commits.
SPECIFICATION ServiceSpec
CONSTANTS
  id1 = id1
  id2 = id2
  id3 = id3
  h1 = h1
  h2 = h2
  u1 = u1
  u2 = u2
  NoKey = NoKey
  NoObject = NoObject
  NoId = NoId
  ObjectIds = {id1, id2, id3}
  Keys = {k1}
  Hashes = {h1, h2}
  Manifests <- SharedBlocks
  Uploads = {u1, u2}
  Sweepers = {w1}
  MaxClock = 2
  MinOrphanAge = 2
  BatchSize = 1
  MaxRetries = 1
  PromptCalls = TRUE
  MaxFaults = 0
INVARIANTS
  CommittedBlocksStored
SYMMETRY Symmetry
CHECK_DEADLOCK FALSE
