---------------------------- MODULE PostgresStore ----------------------------
(***************************************************************************)
(* The object and block tables of PostgresStore                            *)
(* (src/internal/metadata/postgres.go), which several gateways share.      *)
(* BeginTx asks for no isolation level, so a transaction runs under READ   *)
(* COMMITTED, statement by statement among those of the others: a          *)
(* statement sees what was committed when it began, a write (or SELECT FOR *)
(* UPDATE) locks its row until the transaction ends, and a statement that  *)
(* has waited for a lock looks again at the version it then finds.         *)
(*                                                                         *)
(* A row has its committed version (objects, blocks) and the version its   *)
(* lock's holder has written (newObjects, newBlocks).  Statements that can *)
(* neither wait nor be told apart by the others are one step.  Timestamps  *)
(* are left out; MetadataStore has them.                                   *)
(***************************************************************************)
EXTENDS Integers, Sequences, FiniteSets

CONSTANTS
  Transactions,  \* connections, of any gateway, that run transactions
  ObjectIds,     \* ids randomID may draw
  Keys,          \* bucket/key pairs of one tenant
  Hashes,        \* SHA-256 block ids
  Manifests,     \* chunk lists a caller may commit
  Batches,       \* lists of hashes a sweep may forget
  NoObject,      \* "no object"
  NoRow,         \* the reference count of a block without a row
  NoTransaction  \* the holder of a row nobody has locked

ASSUME ManifestsAssumption == Manifests \cup Batches \subseteq Seq(Hashes)
ASSUME NoRowAssumption == NoRow \notin Nat
ASSUME NobodyAssumption ==
  NoTransaction \notin Transactions /\ NoObject \notin ObjectIds \cup Manifests

VARIABLES
  objects, newObjects,  \* [ObjectIds -> state, key and object_chunks rows]
  blocks, newBlocks,    \* [Hashes -> ref_count or NoRow]
  objectHolder,         \* the transaction that has locked the objects row
  blockHolder,          \* the transaction that has locked the blocks row
  tx                    \* what each connection is doing

rowVars  == <<objects, newObjects, blocks, newBlocks>>
lockVars == <<objectHolder, blockHolder>>
vars     == <<rowVars, lockVars, tx>>

Idle == [step |-> "idle", op |-> "none", id |-> NoObject, key |-> NoObject,
         chunks |-> <<>>, previous |-> NoObject, done |-> 0, result |-> "none"]

CommittedIn(table, k) ==
  {id \in ObjectIds : table[id].state = "committed" /\ table[id].key = k}

Free(holder, t) == holder \in {NoTransaction, t}

Goto(t, step) == tx' = [tx EXCEPT ![t].step = step, ![t].done = 0]

(* The transaction is rolled back: what it has written is forgotten. *)
RollbackForgotten(t, result) ==
  /\ tx' = [tx EXCEPT ![t] = [Idle EXCEPT !.op = tx[t].op, !.result = result]]
  /\ UNCHANGED <<rowVars, lockVars>>

Rollback(t, result) ==
  /\ newObjects' = [id \in ObjectIds |->
                     IF objectHolder[id] = t THEN objects[id] ELSE newObjects[id]]
  /\ newBlocks' = [h \in Hashes |-> IF blockHolder[h] = t THEN blocks[h] ELSE newBlocks[h]]
  /\ objectHolder' = [id \in ObjectIds |->
                       IF objectHolder[id] = t THEN NoTransaction ELSE objectHolder[id]]
  /\ blockHolder' = [h \in Hashes |->
                      IF blockHolder[h] = t THEN NoTransaction ELSE blockHolder[h]]
  /\ tx' = [tx EXCEPT ![t] = [Idle EXCEPT !.op = tx[t].op, !.result = result]]
  /\ UNCHANGED <<objects, blocks>>

-----------------------------------------------------------------------------
Init ==
  /\ objects = [id \in ObjectIds |-> [state |-> "absent", key |-> NoObject, chunks |-> <<>>]]
  /\ newObjects = objects
  /\ blocks = [h \in Hashes |-> NoRow]
  /\ newBlocks = blocks
  /\ objectHolder = [id \in ObjectIds |-> NoTransaction]
  /\ blockHolder = [h \in Hashes |-> NoTransaction]
  /\ tx = [t \in Transactions |-> Idle]

(* One INSERT, a transaction of its own. *)
CreatePendingObject(id, k) ==
  /\ objects[id].state = "absent"
  /\ objects' = [objects EXCEPT ![id].state = "pending", ![id].key = k]
  /\ newObjects' = [newObjects EXCEPT ![id].state = "pending", ![id].key = k]
  /\ UNCHANGED <<blocks, newBlocks, lockVars, tx>>

(* CommitObject, up to the lock on the pending row.  Only the Put that     *)
(* made the row commits it; without a pending row nothing happens.         *)
BeginCommit(t, id, chunks) ==
  /\ tx[t].step = "idle"
  /\ objects[id].state = "pending" /\ objectHolder[id] = NoTransaction
  /\ objectHolder' = [objectHolder EXCEPT ![id] = t]
  /\ tx' = [tx EXCEPT ![t] = [Idle EXCEPT !.step = "select", !.op = "commit", !.id = id,
                                          !.key = objects[id].key, !.chunks = chunks]]
  /\ UNCHANGED <<rowVars, blockHolder>>

BeginDelete(t, k) ==
  /\ tx[t].step = "idle"
  /\ tx' = [tx EXCEPT ![t] = [Idle EXCEPT !.step = "select", !.op = "delete", !.key = k]]
  /\ UNCHANGED <<rowVars, lockVars>>

BeginForget(t, hashes) ==
  /\ tx[t].step = "idle"
  /\ tx' = [tx EXCEPT ![t] = [Idle EXCEPT !.step = "forget", !.op = "forget",
                                          !.chunks = hashes]]
  /\ UNCHANGED <<rowVars, lockVars>>

(* What follows when postgresLoadCommittedForUpdate answers "no row": a    *)
(* commit goes on, a delete is ErrNotFound.                                *)
NoPrevious(t) ==
  \/ /\ tx[t].op = "commit"
     /\ Goto(t, "attach")
     /\ UNCHANGED <<rowVars, lockVars>>
  \/ /\ tx[t].op = "delete"
     /\ Rollback(t, "not found")

(* SELECT ... state = 'committed' FOR UPDATE: the row its snapshot shows. *)
Select(t) ==
  /\ tx[t].step = "select"
  /\ \/ CommittedIn(objects, tx[t].key) = {} /\ NoPrevious(t)
     \/ \E id \in CommittedIn(objects, tx[t].key) :
          /\ tx' = [tx EXCEPT ![t].step = "lock", ![t].previous = id]
          /\ UNCHANGED <<rowVars, lockVars>>

(* ... and its lock, once nobody holds it.  If the row has changed since,  *)
(* the condition is evaluated again, on this row alone.                    *)
Lock(t) ==
  /\ objectHolder' = [objectHolder EXCEPT ![tx[t].previous] = t]
  /\ Goto(t, "detach")
  /\ UNCHANGED <<rowVars, blockHolder>>

LockPrevious(t) ==
  /\ tx[t].step = "lock"
  /\ objectHolder[tx[t].previous] = NoTransaction
  /\ IF objects[tx[t].previous].state = "committed" THEN Lock(t) ELSE NoPrevious(t)

(* postgresDetachObjectChunks: an UPDATE of one blocks row after another. *)
Next1(t) == tx[t].done + 1

DetachChunk(t) ==
  LET chunks == objects[tx[t].previous].chunks
      h == chunks[Next1(t)]
  IN  /\ tx[t].step = "detach" /\ Next1(t) \in DOMAIN chunks
      /\ Free(blockHolder[h], t)
      /\ newBlocks' = [newBlocks EXCEPT ![h] = IF @ = NoRow \/ @ = 0 THEN @ ELSE @ - 1]
      /\ blockHolder' = [blockHolder EXCEPT ![h] = t]
      /\ tx' = [tx EXCEPT ![t].done = Next1(t)]
      /\ UNCHANGED <<objects, newObjects, blocks, objectHolder>>

(* ... then DELETE FROM object_chunks, and the row becomes 'deleted'. *)
RetireChunksOnly(t) ==
  /\ tx[t].step = "detach" /\ tx[t].done = Len(objects[tx[t].previous].chunks)
  /\ newObjects' = [newObjects EXCEPT ![tx[t].previous].chunks = <<>>]
  /\ Goto(t, IF tx[t].op = "commit" THEN "attach" ELSE "end")
  /\ UNCHANGED <<objects, blocks, newBlocks, lockVars>>

Retire(t) ==
  /\ tx[t].step = "detach" /\ tx[t].done = Len(objects[tx[t].previous].chunks)
  /\ newObjects' = [newObjects EXCEPT ![tx[t].previous].state = "deleted",
                                      ![tx[t].previous].chunks = <<>>]
  /\ Goto(t, IF tx[t].op = "commit" THEN "attach" ELSE "end")
  /\ UNCHANGED <<objects, blocks, newBlocks, lockVars>>

(* postgresAttachObjectChunks, one chunk: the upsert locks the blocks row, *)
(* under the lock the object_chunks row is inserted and the count raised.  *)
AttachChunkUnlocked(t) ==
  LET h == tx[t].chunks[Next1(t)]
      count == IF blocks[h] = NoRow THEN 0 ELSE blocks[h]
  IN  /\ tx[t].step = "attach" /\ Next1(t) \in DOMAIN tx[t].chunks
      /\ newBlocks' = [newBlocks EXCEPT ![h] = count + 1]
      /\ newObjects' = [newObjects EXCEPT ![tx[t].id].chunks = Append(@, h)]
      /\ blockHolder' = [blockHolder EXCEPT ![h] = t]
      /\ tx' = [tx EXCEPT ![t].done = Next1(t)]
      /\ UNCHANGED <<objects, blocks, objectHolder>>

AttachChunk(t) ==
  LET h == tx[t].chunks[Next1(t)]
      count == IF newBlocks[h] = NoRow THEN 0 ELSE newBlocks[h]
  IN  /\ tx[t].step = "attach" /\ Next1(t) \in DOMAIN tx[t].chunks
      /\ Free(blockHolder[h], t)
      /\ newBlocks' = [newBlocks EXCEPT ![h] = count + 1]
      /\ newObjects' = [newObjects EXCEPT ![tx[t].id].chunks = Append(@, h)]
      /\ blockHolder' = [blockHolder EXCEPT ![h] = t]
      /\ tx' = [tx EXCEPT ![t].done = Next1(t)]
      /\ UNCHANGED <<objects, blocks, objectHolder>>

(* UPDATE objects SET state = 'committed'.  The unique index               *)
(* objects_committed_key waits for the end of any transaction that has     *)
(* made a row of the key committed, or no longer so ...                    *)
Unsettled(t) ==
  {id \in CommittedIn(objects, tx[t].key) \cup CommittedIn(newObjects, tx[t].key) :
     /\ newObjects[id].state # objects[id].state
     /\ ~Free(objectHolder[id], t)}

(* ... and refuses the row beside another committed one. *)
Taken(t) == CommittedIn(newObjects, tx[t].key) \ {tx[t].id}

AttachedAll(t) == tx[t].step = "attach" /\ tx[t].done = Len(tx[t].chunks)

MakeCommitted(t) ==
  /\ newObjects' = [newObjects EXCEPT ![tx[t].id].state = "committed"]
  /\ Goto(t, "end")
  /\ UNCHANGED <<objects, blocks, newBlocks, lockVars>>

Publish(t) ==
  /\ AttachedAll(t) /\ Unsettled(t) = {}
  /\ IF Taken(t) = {} THEN MakeCommitted(t) ELSE Rollback(t, "duplicate key")

(* ForgetBlocks: DELETE ... WHERE hash = $2 AND ref_count = 0, a row the   *)
(* statement sees with another count is passed over without its lock.      *)
SeenCount(t, h) == IF blockHolder[h] = t THEN newBlocks[h] ELSE blocks[h]

ForgetRow(t) ==
  LET h == tx[t].chunks[Next1(t)]
  IN  /\ tx[t].step = "forget" /\ Next1(t) \in DOMAIN tx[t].chunks
      /\ tx' = [tx EXCEPT ![t].done = Next1(t)]
      /\ \/ /\ SeenCount(t, h) # 0
            /\ UNCHANGED <<newBlocks, blockHolder>>
         \/ /\ SeenCount(t, h) = 0 /\ Free(blockHolder[h], t)
            /\ newBlocks' = [newBlocks EXCEPT ![h] = NoRow]
            /\ blockHolder' = [blockHolder EXCEPT ![h] = t]
      /\ UNCHANGED <<objects, newObjects, blocks, objectHolder>>

(* tx.Commit: what the transaction has written becomes what others see. *)
Finished(t) ==
  \/ tx[t].step = "end"
  \/ tx[t].step = "forget" /\ tx[t].done = Len(tx[t].chunks)

Commit(t) ==
  /\ Finished(t)
  /\ objects' = [id \in ObjectIds |->
                  IF objectHolder[id] = t THEN newObjects[id] ELSE objects[id]]
  /\ blocks' = [h \in Hashes |-> IF blockHolder[h] = t THEN newBlocks[h] ELSE blocks[h]]
  /\ objectHolder' = [id \in ObjectIds |->
                       IF objectHolder[id] = t THEN NoTransaction ELSE objectHolder[id]]
  /\ blockHolder' = [h \in Hashes |->
                      IF blockHolder[h] = t THEN NoTransaction ELSE blockHolder[h]]
  /\ tx' = [tx EXCEPT ![t] = [Idle EXCEPT !.op = tx[t].op, !.result = "ok"]]
  /\ UNCHANGED <<newObjects, newBlocks>>

(* A cancelled request or a lost connection: defer tx.Rollback(). *)
Fail(t) == tx[t].step # "idle" /\ Rollback(t, "cut off")

-----------------------------------------------------------------------------
(* PostgreSQL rolls back a transaction that waits for itself through the   *)
(* locks of others.                                                        *)
AwaitedBlock(t) ==
  CASE tx[t].step = "detach" /\ Next1(t) \in DOMAIN objects[tx[t].previous].chunks ->
         {objects[tx[t].previous].chunks[Next1(t)]}
    [] tx[t].step = "attach" /\ Next1(t) \in DOMAIN tx[t].chunks ->
         {tx[t].chunks[Next1(t)]}
    [] tx[t].step = "forget" /\ Next1(t) \in DOMAIN tx[t].chunks ->
         {h \in {tx[t].chunks[Next1(t)]} : SeenCount(t, h) = 0}
    [] OTHER -> {}

AwaitedObjects(t) ==
  CASE tx[t].step = "lock" -> {tx[t].previous}
    [] AttachedAll(t) -> Unsettled(t)
    [] OTHER -> {}

WaitsFor(t) ==
  ({blockHolder[h] : h \in AwaitedBlock(t)} \cup {objectHolder[id] : id \in AwaitedObjects(t)})
    \ {t, NoTransaction}

Deadlocked(t) ==
  \E circle \in SUBSET Transactions :
    /\ t \in circle
    /\ \A u \in circle : /\ WaitsFor(u) \cap circle # {}
                         /\ \E v \in circle : u \in WaitsFor(v)

DetectDeadlock(t) == Deadlocked(t) /\ Rollback(t, "deadlock")

-----------------------------------------------------------------------------
Statement(t) ==
  \/ Select(t) \/ LockPrevious(t) \/ DetachChunk(t) \/ Retire(t)
  \/ AttachChunk(t) \/ Publish(t) \/ ForgetRow(t) \/ Commit(t)

Begin(t) ==
  \/ \E id \in ObjectIds, chunks \in Manifests : BeginCommit(t, id, chunks)
  \/ \E k \in Keys : BeginDelete(t, k)
  \/ \E hashes \in Batches : BeginForget(t, hashes)

Next ==
  \/ \E id \in ObjectIds, k \in Keys : CreatePendingObject(id, k)
  \/ \E t \in Transactions :
       Begin(t) \/ Statement(t) \/ Fail(t) \/ DetectDeadlock(t)

Spec == Init /\ [][Next]_vars

(* Lock queues are first come, first served, so a statement that could go  *)
(* on again and again does; deadlock_timeout ends.                         *)
FairSpec ==
  Spec /\ \A t \in Transactions : SF_vars(Statement(t)) /\ WF_vars(DetectDeadlock(t))

-----------------------------------------------------------------------------
(* Properties. *)

References(h) ==
  UNION {{id} \X {i \in DOMAIN objects[id].chunks : objects[id].chunks[i] = h} :
           id \in ObjectIds}

Count(h) == IF blocks[h] = NoRow THEN 0 ELSE blocks[h]

\* What is committed agrees at every moment, whatever transactions are under
\* way: a block's ref_count is the number of object_chunks rows that name it,
\* and a block that is named has a row.  (Commits, deletes and sweeps update
\* the same blocks rows without SERIALIZABLE isolation; a count taken from an
\* older version, or a row released twice, would be lost in the noise.)
CommittedCountsExact ==
  \A h \in Hashes :
    /\ Count(h) = Cardinality(References(h))
    /\ References(h) # {} => blocks[h] # NoRow

\* What GetObject sees is the abstract map of ObjectMap: a transaction
\* changes one key at a time, all at once, when it commits.
LiveManifests ==
  [k \in Keys |-> IF CommittedIn(objects, k) = {} THEN NoObject
                  ELSE objects[CHOOSE id \in CommittedIn(objects, k) : TRUE].chunks]

Map == INSTANCE ObjectMap WITH live <- LiveManifests

PostgresImplementsObjectMap == Map!Spec

\* Every transaction comes to an end, by its last statement or by an error:
\* commits and deletes lock blocks rows in the order of their manifests, so
\* they do block one another, and only the database's detector ends that.
TransactionsEnd ==
  \A t \in Transactions : tx[t].step # "idle" ~> tx[t].step = "idle"

=============================================================================
