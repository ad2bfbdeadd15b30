\* Two requests of any kind among up to three objects of one key, whose ids run
\* out; bodies of up to eight bytes; three messages of two senders,
\* or one with any short path.
SPECIFICATION MCSpec
CHECK_DEADLOCK FALSE
CONSTANTS
  o1 = o1
  o2 = o2
  o3 = o3
  h1 = h1
  h2 = h2
  r1 = r1
  r2 = r2
  ObjectIds = {o1, o2, o3}
  Keys = {"key"}
  Hashes = {h1, h2}
  Manifests <- MCManifests
  NoKey = NoKey
  NoObject = NoObject
  MaxClock = 0
  Requests = {r1, r2}
  Headers <- MCHeaders
  SizeOf <- MCSizeOf
  Nothing = Nothing
  Malformed = Malformed
  Refused = Refused
  MaxLength = 8
  Inputs <- MCInputs
  OptionSets <- MCOptionSets
  Defaults <- MCDefaults
  Gear <- MCGear
  HashSize = 8
  BufferSize = 3
  s1 = s1
  s2 = s2
  Senders = {s1, s2}
  Messages <- Traffic
  Settings <- MCSettings
  InitialStores <- MCStores
  UploadIds = {"u1"}
  Decode <- MCDecode
  LowerLetters = {"a"}
  ControlLetters = {"NUL"}
  MinBucket = 1
  MaxBucket = 2
  MaxKey = 2
  MaxMessages = 3
  NoContent = NoContent
INVARIANTS
  RequestsDoWhatTheyAsk
  NeverMixed
  UndisturbedReadsExact
  ParsedIsAsked
  ChunksAreTheBody
  CutsDependOnContent
SYMMETRY DataSymmetry
