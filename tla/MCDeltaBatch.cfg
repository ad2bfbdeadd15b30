SPECIFICATION DownloadSpec
CONSTANTS
  first = first
  second = second
  Clients = {c1}
  ChunkHashes = {"a", "b", "c"}
  Objects = {first, second}
  ChunksOf <- MCChunksOf
  WithMD5 = {first}
  Absent = Absent
  MaxHashes = 1
INVARIANTS
  UndisturbedDownloadsSucceed
CHECK_DEADLOCK FALSE
