\* Two transactions on three objects of one key.
SPECIFICATION FairSpec
CONSTANTS
  a = a
  b = b
  o1 = o1
  o2 = o2
  o3 = o3
  t1 = t1
  t2 = t2
  Transactions = {t1, t2}
  ObjectIds <- MCObjectIds
  Keys = {k1}
  Hashes = {a, b}
  Manifests <- MCManifests
  Batches <- MCBatches
  NoObject = NoObject
  NoRow = NoRow
  NoTransaction = NoTransaction
INVARIANTS
  CommittedCountsExact
PROPERTIES
  PostgresImplementsObjectMap
  TransactionsEnd
