---------------------------- MODULE MetadataStore ----------------------------
(***************************************************************************)
(* The object and block tables of one tenant's SQLite shard                *)
(* (src/internal/metadata/sqlite.go).  dbFor opens a shard with one        *)
(* connection (SetMaxOpenConns(1)), so each method that runs inside a      *)
(* transaction is one atomic step: a transaction that fails is rolled back *)
(* and changes nothing.                                                    *)
(*                                                                         *)
(* objectChunks[id] holds the object_chunks rows of an object in           *)
(* sequence_order: a row is <<id, i>> with hash objectChunks[id][i].       *)
(* Offsets, sizes, headers and backend keys are left out: no decision of   *)
(* the store depends on them.                                              *)
(***************************************************************************)
EXTENDS Integers, Sequences, FiniteSets

CONSTANTS
  ObjectIds,   \* ids randomID may draw; an id is never drawn twice
  Keys,        \* bucket/key pairs of the tenant
  Hashes,      \* SHA-256 block ids
  Manifests,   \* chunk lists a caller may commit
  NoKey,       \* the key of an object row that does not exist
  NoObject,    \* what LiveManifests shows for a key without an object
  MaxClock     \* bound on the clock

ManifestsAssumption == Manifests \subseteq Seq(Hashes)
MaxClockAssumption  == MaxClock \in Nat
NoKeyAssumption     == NoKey \notin Keys
NoObjectAssumption  == NoObject \notin Manifests

ASSUME ManifestsAssumption
ASSUME MaxClockAssumption
ASSUME NoKeyAssumption
ASSUME NoObjectAssumption

VARIABLES
  objectState,   \* objects.state; "absent" where there is no row
  objectKey,     \* objects.bucket and objects.key
  objectChunks,  \* the object_chunks rows of the object
  blockRows,     \* the hashes that have a row in blocks
  refCount,      \* blocks.ref_count; 0 where there is no row
  updatedAt,     \* blocks.updated_at; 0 where there is no row
  clock          \* time.Now().UTC()

objectVars == <<objectState, objectKey, objectChunks>>
blockVars  == <<blockRows, refCount, updatedAt>>
storeVars  == <<objectVars, blockVars, clock>>

-----------------------------------------------------------------------------
(* What the statements of a transaction compute. *)

Mentioned(chunks) == {chunks[i] : i \in DOMAIN chunks}

Positions(chunks, h) == {i \in DOMAIN chunks : chunks[i] = h}

Occurrences(chunks, h) == Cardinality(Positions(chunks, h))

(* loadCommittedForUpdate: the committed rows of a key. *)
CommittedUnderAnyKey(k) == {id \in ObjectIds : objectState[id] = "committed"}

Committed(k) ==
  {id \in ObjectIds : objectState[id] = "committed" /\ objectKey[id] = k}

(* attachObjectChunks counts every row, so a block that occurs twice in a  *)
(* manifest is counted twice.                                              *)
AttachOncePerHash(counts, chunks) ==
  [h \in Hashes |-> counts[h] + (IF h \in Mentioned(chunks) THEN 1 ELSE 0)]

Attach(counts, chunks) ==
  [h \in Hashes |-> counts[h] + Occurrences(chunks, h)]

(* detachObjectChunks: one decrement per row, each stopping at zero. *)
Detach(counts, chunks) ==
  [h \in Hashes |-> IF counts[h] >= Occurrences(chunks, h)
                    THEN counts[h] - Occurrences(chunks, h) ELSE 0]

(* Both loops set updated_at of every block they touch. *)
StampNothing(times, chunks) == times

Stamp(times, chunks) ==
  [h \in Hashes |-> IF h \in Mentioned(chunks) THEN clock ELSE times[h]]

-----------------------------------------------------------------------------
Init ==
  /\ objectState = [id \in ObjectIds |-> "absent"]
  /\ objectKey = [id \in ObjectIds |-> NoKey]
  /\ objectChunks = [id \in ObjectIds |-> <<>>]
  /\ blockRows = {}
  /\ refCount = [h \in Hashes |-> 0]
  /\ updatedAt = [h \in Hashes |-> 0]
  /\ clock = 0

CreatePendingObject(id, k) ==
  /\ objectState[id] = "absent"
  /\ objectState' = [objectState EXCEPT ![id] = "pending"]
  /\ objectKey' = [objectKey EXCEPT ![id] = k]
  /\ UNCHANGED <<objectChunks, blockVars, clock>>

(* A commit under a key that has no committed object yet ... *)
CommitFirst(id, chunks) ==
  /\ Committed(objectKey[id]) = {}
  /\ objectState' = [objectState EXCEPT ![id] = "committed"]
  /\ objectChunks' = [objectChunks EXCEPT ![id] = chunks]
  /\ refCount' = Attach(refCount, chunks)
  /\ updatedAt' = Stamp(updatedAt, chunks)

(* ... and one that takes the place of the committed object of its key. *)
CommitOver(id, previous, chunks) ==
  /\ objectState' = [objectState EXCEPT ![previous] = "deleted", ![id] = "committed"]
  /\ objectChunks' = [objectChunks EXCEPT ![previous] = <<>>, ![id] = chunks]
  /\ refCount' = Attach(Detach(refCount, objectChunks[previous]), chunks)
  /\ updatedAt' = Stamp(Stamp(updatedAt, objectChunks[previous]), chunks)

(* CommitObject: ErrNotFound, and no change, unless the row is pending.    *)
(* The manifest's bucket and key are those of the pending row: Put, the    *)
(* only caller, passes the same pair to both calls.                        *)
CommitObject(id, chunks) ==
  /\ objectState[id] = "pending"
  /\ \/ CommitFirst(id, chunks)
     \/ \E previous \in Committed(objectKey[id]) : CommitOver(id, previous, chunks)
  /\ blockRows' = blockRows \cup Mentioned(chunks)
  /\ UNCHANGED <<objectKey, clock>>

(* DeleteObject: ErrNotFound, and no change, without a committed row. *)
DeleteObject(k) ==
  /\ \E id \in Committed(k) :
       /\ objectState' = [objectState EXCEPT ![id] = "deleted"]
       /\ objectChunks' = [objectChunks EXCEPT ![id] = <<>>]
       /\ refCount' = Detach(refCount, objectChunks[id])
       /\ updatedAt' = Stamp(updatedAt, objectChunks[id])
  /\ UNCHANGED <<objectKey, blockRows, clock>>

(* ListUnreferencedBlocksOlderThan: WHERE ref_count = 0 AND updated_at <=  *)
(* before ORDER BY updated_at LIMIT limit, as the set of answers the       *)
(* database may give: rows of one timestamp come in any order.             *)
Unreferenced(before) ==
  {h \in blockRows : refCount[h] = 0 /\ updatedAt[h] <= before}

ListUnreferencedBlocksOlderThan(before, limit) ==
  LET all == Unreferenced(before)
      size == IF Cardinality(all) <= limit THEN Cardinality(all) ELSE limit
  IN  {batch \in SUBSET all :
         /\ Cardinality(batch) = size
         /\ \A h \in batch, g \in all \ batch : updatedAt[h] <= updatedAt[g]}

(* ForgetBlocks: DELETE ... WHERE hash = ? AND ref_count = 0, per hash. *)
ForgetEveryBlock(hashes) ==
  /\ blockRows' = blockRows \ hashes
  /\ refCount' = [h \in Hashes |-> IF h \in hashes THEN 0 ELSE refCount[h]]
  /\ updatedAt' = [h \in Hashes |-> IF h \in hashes THEN 0 ELSE updatedAt[h]]
  /\ UNCHANGED <<objectVars, clock>>

Forgotten(hashes) == {h \in hashes : refCount[h] = 0}

ForgetBlocks(hashes) ==
  /\ blockRows' = blockRows \ Forgotten(hashes)
  /\ updatedAt' = [h \in Hashes |-> IF h \in Forgotten(hashes) THEN 0 ELSE updatedAt[h]]
  /\ UNCHANGED <<objectVars, refCount, clock>>

(* Time passes; MaxClock is the bound of the model. *)
Tick ==
  /\ clock < MaxClock
  /\ clock' = clock + 1
  /\ UNCHANGED <<objectVars, blockVars>>

Next ==
  \/ \E id \in ObjectIds, k \in Keys : CreatePendingObject(id, k)
  \/ \E id \in ObjectIds, chunks \in Manifests : CommitObject(id, chunks)
  \/ \E k \in Keys : DeleteObject(k)
  \/ \E hashes \in SUBSET Hashes : ForgetBlocks(hashes)
  \/ Tick

Spec == Init /\ [][Next]_storeVars

-----------------------------------------------------------------------------
(* Properties. *)

ObjectStates == {"absent", "pending", "committed", "deleted"}

\* Every table column has the type of its declaration in
\* migrations.go (a reference count is a natural number, a state is one of
\* the states of the CHECK constraint).
TypeOK ==
  /\ objectState \in [ObjectIds -> ObjectStates]
  /\ objectKey \in [ObjectIds -> Keys \cup {NoKey}]
  /\ objectChunks \in [ObjectIds -> Seq(Hashes)]
  /\ blockRows \in SUBSET Hashes
  /\ refCount \in [Hashes -> Nat]
  /\ updatedAt \in [Hashes -> Nat]
  /\ clock \in Nat

(* The rows <<id, i>> of an object_chunks table that name a block. *)
RowsNaming(table, h) == UNION {{id} \X Positions(table[id], h) : id \in ObjectIds}

References(h) == RowsNaming(objectChunks, h)

\* A block's ref_count is exactly the number of object_chunks rows that name
\* it, whatever commits, overwrites, deletes and sweeps came before: too low
\* and GC deletes live data, too high and the block is never collected.
\* (attachObjectChunks and detachObjectChunks keep a counter by hand.)
RefCountExact ==
  \A h \in Hashes : refCount[h] = Cardinality(References(h))

\* At most one committed object per bucket/key: the overwrite in CommitObject
\* retires the previous row in the same transaction, so the unique index
\* objects_committed_key never has to reject a commit.
OneCommittedPerKey ==
  \A k \in Keys : \A id, other \in Committed(k) : id = other

\* Every object_chunks row names a block that has a row in blocks (the
\* foreign key, which SQLite does not enforce unless asked to): ForgetBlocks
\* never removes the row of a block that some object is made of.
ReferencedBlocksHaveRows ==
  \A h \in Hashes : References(h) # {} => h \in blockRows

\* Only a committed object has object_chunks rows: a pending upload holds no
\* reference, and a deleted or replaced object keeps none.
OnlyCommittedHaveChunks ==
  \A id \in ObjectIds : objectState[id] # "committed" => objectChunks[id] = <<>>

\* What the schema declares and SQLite enforces in part (the unique index) or
\* only when asked to (the foreign keys) holds by what the transactions do: one
\* object per key, rows for referenced blocks, no rows of other objects.
TablesConsistent ==
  OneCommittedPerKey /\ ReferencedBlocksHaveRows /\ OnlyCommittedHaveChunks

\* A row with ref_count zero carries the time its last reference went away
\* and keeps it: no step makes an orphan look older than it is, or younger.
\* (docs/gc.md:21, "whose zero-reference timestamp is older than the
\* configured orphan age".)
OrphanTimestampHonest ==
  [][\A h \in blockRows' : refCount'[h] = 0 =>
       updatedAt'[h] = IF References(h) # {} THEN clock ELSE updatedAt[h]]_storeVars

\* The store implements the abstract map of ObjectMap: the committed row of a
\* key and its chunk rows change together, for one key at a time.
LiveManifests ==
  [k \in Keys |-> IF Committed(k) = {} THEN NoObject
                  ELSE objectChunks[CHOOSE id \in Committed(k) : TRUE]]

Map == INSTANCE ObjectMap WITH live <- LiveManifests

ImplementsObjectMap == Map!Spec

=============================================================================
