\* One ranged GET and two objects, the second of which may be the shorter one.
SPECIFICATION ReadsSpec
CHECK_DEADLOCK FALSE
CONSTANTS
  o1 = o1
  o2 = o2
  o3 = o3
  h1 = h1
  h2 = h2
  r1 = r1
  r2 = r2
  ObjectIds = {o1, o2}
  Keys = {"key"}
  Hashes = {h1, h2}
  Manifests <- MCTwoManifests
  NoKey = NoKey
  NoObject = NoObject
  MaxClock = 0
  Requests = {r1}
  Headers <- MCHeaders
  SizeOf <- MCSizeOf
  Nothing = Nothing
  Malformed = Malformed
  Refused = Refused
INVARIANTS
  RangesAreComplete
