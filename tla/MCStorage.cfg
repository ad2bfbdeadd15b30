\* Three callers, a capacity below the largest integer, a disk that is small,
\* sufficient or large; two calls on two blocks with two faults; two openers
\* of two shards with two faults; four names of tenants, two hashes;
\* two rows, a second of four ticks, ages of which 17 seconds wrap to one; two
\* downloads with one cache directory.
SPECIFICATION MCSpec
CONSTANTS
  c1 = c1
  c2 = c2
  c3 = c3
  o1 = o1
  o2 = o2
  f1 = f1
  f2 = f2
  Callers = {c1, c2, c3}
  Amounts <- MCAmounts
  Capacity = 5
  MaxInt = 7
  MinFree = 1
  FreeSpaces = {0, 4, 9}
  BlockCalls = {f1, f2}
  Blocks = {"b1", "b2"}
  MaxFileFaults = 2
  Openers = {o1, o2}
  ShardFiles = {"s1", "s2"}
  Migrations = 2
  MaxShardFaults = 2
  TenantNames <- MCTenantNames
  SafeLetters <- MCSafeLetters
  DefaultName <- MCDefaultName
  Digest <- MCDigest
  Hashes = {"h1", "h2"}
  Rows = {"r1", "r2"}
  Base = 2
  Places = 2
  EnvSeconds = {0, 1, 2, 17}
  Width = 64
  MaxTime = 13
  first = first
  second = second
  Clients = {d1, d2}
  ChunkHashes = {"a", "b", "c"}
  Objects = {first, second}
  ChunksOf <- MCChunksOf
  WithMD5 = {first}
  Absent = Absent
  MaxHashes = 2
INVARIANTS
  GrantsLeaveMinFree
  CallsActAtOnce
  ShardsAreSound
  TenantsKeepTheirData
  OutputIsAnObject
  UndisturbedDownloadsSucceed
PROPERTIES
  ImplementsCounter
  SelectedByAge
SYMMETRY Symmetry
