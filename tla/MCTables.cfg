\* Objects: two keys, two blocks, three uploads, so that there is an overwrite
\* and a second key that shares blocks with the first.  Uploads: two requests
\* at a time in four scopes (MCMultipart.tla), up to one crash.
SPECIFICATION MCSpec
CHECK_DEADLOCK FALSE
CONSTANTS
  id1 = id1
  id2 = id2
  id3 = id3
  h1 = h1
  h2 = h2
  k1 = k1
  k2 = k2
  ObjectIds = {id1, id2, id3}
  Keys = {k1, k2}
  Hashes = {h1, h2}
  Manifests <- MCManifests
  NoKey = NoKey
  NoObject = NoObject
  MaxClock = 2
  x1 = x1
  x2 = x2
  y = y
  r1 = r1
  r2 = r2
  NoSession = NoSession
  NoPart = NoPart
  NoFile = NoFile
  Torn = Torn
  Uploads = {x1, x2, y}
  Foreign = {y}
  Numbers = {1, 2}
  Bodies = {1, 2}
  Sent <- MCSent
  ExpectedSizes = {0, 2}
  Requests = {r1, r2}
  Capacity = 3
  MaxUploadSize = 0
  MaxCrashes = 1
INVARIANTS
  TablesConsistent
  RefCountExact
  StoresAgree
  ReservationsExact
  RestartFits
  MemoryMatchesRows
  PartsIntact
  AssembledAsValidated
PROPERTIES
  OrphanTimestampHonest
  ImplementsObjectMap
SYMMETRY Symmetry
