----------------------------- MODULE MemoryStore -----------------------------
(***************************************************************************)
(* The metadata store of the tests (src/internal/metadata/memory.go), one  *)
(* tenant of it, beside the SQLite store of MetadataStore: both stand      *)
(* behind the interface of src/internal/metadata/store.go, and here both   *)
(* are given the same calls.  Every method of the memory store holds s.mu  *)
(* from its first to its last statement, so it is one step.  Unlike the    *)
(* SQL stores it finds the object of a key through an index it keeps       *)
(* beside the objects, and a deleted object keeps its chunk list.          *)
(***************************************************************************)
EXTENDS MetadataStore

ASSUME MemoryNothing == NoObject \notin ObjectIds

VARIABLES
  objects,  \* s.objects: state, key and chunks by id
  index,    \* s.index: the id under a key, or NoObject
  blocks    \* s.blocks[tenant]: a map, absent hashes are not in its domain

memoryVars == <<objects, index, blocks>>
bothVars == <<storeVars, memoryVars>>

(* A map yields the zero value for a key it does not have. *)
Ref(map, h) == IF h \in DOMAIN map THEN map[h] ELSE [count |-> 0, updatedAt |-> 0]

incrementLocked(map, chunks) ==
  [h \in DOMAIN map \cup Mentioned(chunks) |->
     IF h \in Mentioned(chunks)
     THEN [count |-> Ref(map, h).count + Occurrences(chunks, h), updatedAt |-> clock]
     ELSE map[h]]

decrementLocked(map, chunks) ==
  [h \in DOMAIN map \cup Mentioned(chunks) |->
     IF h \in Mentioned(chunks)
     THEN [count |-> IF Ref(map, h).count >= Occurrences(chunks, h)
                     THEN Ref(map, h).count - Occurrences(chunks, h) ELSE 0,
           updatedAt |-> clock]
     ELSE map[h]]

-----------------------------------------------------------------------------
(* The methods of the memory store. *)

MemoryInit ==
  /\ objects = [id \in ObjectIds |-> [state |-> "absent", key |-> NoKey, chunks |-> <<>>]]
  /\ index = [k \in Keys |-> NoObject]
  /\ blocks = <<>>

MemoryCreate(id, k) ==
  /\ objects[id].state = "absent"
  /\ objects' = [objects EXCEPT ![id] = [state |-> "pending", key |-> k, chunks |-> <<>>]]
  /\ UNCHANGED <<index, blocks>>

MemoryCommitFirst(id, k, chunks) ==
  /\ index[k] = NoObject
  /\ objects' = [objects EXCEPT ![id] = [state |-> "committed", key |-> k, chunks |-> chunks]]
  /\ blocks' = incrementLocked(blocks, chunks)

MemoryCommitOver(id, k, chunks) ==
  /\ index[k] # NoObject
  /\ objects' = [objects EXCEPT ![index[k]].state = "deleted",
                                ![id] = [state |-> "committed", key |-> k, chunks |-> chunks]]
  /\ blocks' = incrementLocked(decrementLocked(blocks, objects[index[k]].chunks), chunks)

(* ErrNotFound, and no change, unless the object is pending. *)
MemoryCommit(id, chunks) ==
  LET k == objects[id].key
  IN  /\ objects[id].state = "pending"
      /\ MemoryCommitFirst(id, k, chunks) \/ MemoryCommitOver(id, k, chunks)
      /\ index' = [index EXCEPT ![k] = id]

(* ErrNotFound, and no change, without an entry in the index or when the   *)
(* entry's object is not committed.                                        *)
MemoryDelete(k) ==
  /\ index[k] # NoObject /\ objects[index[k]].state = "committed"
  /\ objects' = [objects EXCEPT ![index[k]].state = "deleted"]
  /\ blocks' = decrementLocked(blocks, objects[index[k]].chunks)
  /\ index' = [index EXCEPT ![k] = NoObject]

MemoryForgetAll(hashes) ==
  /\ blocks' = [h \in DOMAIN blocks \ hashes |-> blocks[h]]
  /\ UNCHANGED <<objects, index>>

(* Only entries whose count is zero are deleted. *)
MemoryForget(hashes) ==
  /\ blocks' = [h \in DOMAIN blocks \ {g \in hashes : Ref(blocks, g).count = 0} |-> blocks[h]]
  /\ UNCHANGED <<objects, index>>

-----------------------------------------------------------------------------
(* One caller, two stores.  An id randomID draws and the clock are the     *)
(* same for both; a call one of them refuses the other must refuse too.    *)

BothInit == Init /\ MemoryInit

BothCreate(id, k) == CreatePendingObject(id, k) /\ MemoryCreate(id, k)

BothCommit(id, chunks) == CommitObject(id, chunks) /\ MemoryCommit(id, chunks)

BothDelete(k) == DeleteObject(k) /\ MemoryDelete(k)

BothForget(hashes) == ForgetBlocks(hashes) /\ MemoryForget(hashes)

BothNext ==
  \/ \E id \in ObjectIds, k \in Keys : BothCreate(id, k)
  \/ \E id \in ObjectIds, chunks \in Manifests : BothCommit(id, chunks)
  \/ \E k \in Keys : BothDelete(k)
  \/ \E hashes \in SUBSET Hashes : BothForget(hashes)
  \/ Tick /\ UNCHANGED memoryVars

BothSpec == BothInit /\ [][BothNext]_bothVars

-----------------------------------------------------------------------------
(* Properties. *)

MemoryObjects ==
  [state : ObjectStates, key : Keys \cup {NoKey}, chunks : Seq(Hashes)]

\* Every map of the memory store holds values of its Go type; counts are never
\* negative.
MemoryTypeOK ==
  /\ objects \in [ObjectIds -> MemoryObjects]
  /\ index \in [Keys -> ObjectIds \cup {NoObject}]
  /\ DOMAIN blocks \subseteq Hashes
  /\ \A h \in DOMAIN blocks : blocks[h] \in [count : Nat, updatedAt : Nat]

\* The index, which a commit and a delete update by hand, names exactly the
\* committed object of each key: an entry left behind would hide an object or
\* release its blocks twice.
IndexExact ==
  \A k \in Keys, id \in ObjectIds :
    index[k] = id <=> objects[id].state = "committed" /\ objects[id].key = k

SameObjects ==
  \A id \in ObjectIds :
    /\ objects[id].state = objectState[id]
    /\ objects[id].key = objectKey[id]
    /\ objectState[id] = "committed" => objects[id].chunks = objectChunks[id]

SameBlocks ==
  /\ DOMAIN blocks = blockRows
  /\ \A h \in blockRows : blocks[h] = [count |-> refCount[h], updatedAt |-> updatedAt[h]]

\* After the same calls the two stores hold the same, and the index of the one
\* finds what the other finds by its query: each refuses what the other refuses,
\* answers the same manifests and lists the same unreferenced blocks, so what
\* the tests of the service see of one holds of the other.
StoresAgree == SameObjects /\ SameBlocks /\ IndexExact

=============================================================================
