------------------------- MODULE ObjectServiceProofs -------------------------
(***************************************************************************)
(* Proofs about ObjectService, for any number of uploads, sweepers, keys,  *)
(* blocks, failures and crashes: the service drives the metadata store by  *)
(* steps of MetadataStore only, and a committed object loses a block, or a *)
(* sweep removes one that is not an old orphan, only where an upload and a *)
(* sweep have the block in hand at the same time.                          *)
(* Last, the memory store that stands in for the tables in tests: its maps *)
(* keep their types, its index is exact and it agrees with the SQLite      *)
(* store after every sequence of calls.                                    *)
(***************************************************************************)
EXTENDS ObjectService, MemoryStore, MetadataStoreProofs

-----------------------------------------------------------------------------
(* The local state of calls. *)

PutRecord ==
  [pc : {"idle", "chunk", "upload"}, id : ObjectIds \cup {NoId},
   body : Seq(Hashes), next : Nat \ {0}, seen : SUBSET Hashes]

SweepRecord ==
  [pc : {"idle", "list", "delete", "forget"}, cutoff : Int,
   batch : SUBSET Hashes, left : SUBSET Hashes, attempt : Nat]

(* A Put in progress has a pending id and a manifest, has handled every    *)
(* chunk before next, and stands before an existing chunk when it uploads. *)
GoodPut(p) ==
  /\ p \in PutRecord
  /\ p.pc = "idle" => p.seen = {}
  /\ p.pc # "idle" =>
       /\ p.id \in ObjectIds
       /\ p.body \in Manifests
       /\ \A i \in 1 .. Len(p.body) : i < p.next => p.body[i] \in p.seen
  /\ p.pc = "upload" => p.next <= Len(p.body)

LocalInv ==
  /\ stored \subseteq Hashes
  /\ put \in [Uploads -> PutRecord]
  /\ \A u \in Uploads : GoodPut(put[u])
  /\ sweep \in [Sweepers -> SweepRecord]
  /\ faults \in Nat
  /\ collided \subseteq Hashes

\* A Put that is not running is well formed.
LEMMA IdleIsGood == GoodPut(IdlePut) /\ IdleSweep \in SweepRecord
BY DEF GoodPut, PutRecord, IdlePut, IdleSweep, SweepRecord

\* Blocks in hand of both an upload and a sweep are blocks.
LEMMA OverlapType ==
  ASSUME NEW puts \in [Uploads -> PutRecord], NEW sweeps \in [Sweepers -> SweepRecord]
  PROVE  Overlap(puts, sweeps) \subseteq Hashes
BY DEF Overlap, PutRecord, SweepRecord

\* A chunk still to be processed is a block.
LEMMA ChunkIsBlock ==
  ASSUME LocalInv, NEW u \in Uploads, put[u].next <= Len(put[u].body)
  PROVE  Chunk(u) \in Hashes
<1>1. put[u].body \in Seq(Hashes) /\ put[u].next \in Nat \ {0}
  BY DEF LocalInv, PutRecord
<1>2. put[u].next \in 1 .. Len(put[u].body)
  BY <1>1
<1> QED
  BY <1>1, <1>2 DEF Chunk

\* Handling a chunk keeps a Put well formed.
LEMMA HandledIsGood ==
  ASSUME NEW p, GoodPut(p), p.pc # "idle", p.next <= Len(p.body),
         NEW seen \in SUBSET Hashes, p.seen \subseteq seen, p.body[p.next] \in seen,
         NEW q \in PutRecord, q.pc = "chunk", q.id = p.id, q.body = p.body,
         q.next = p.next + 1, q.seen = seen
  PROVE  GoodPut(q)
<1>1. p.next \in Nat \ {0} /\ p.body \in Seq(Hashes) /\ Len(p.body) \in Nat
  BY DEF GoodPut, PutRecord
<1>2. /\ p.id \in ObjectIds /\ p.body \in Manifests
      /\ \A i \in 1 .. Len(p.body) : i < p.next => p.body[i] \in p.seen
  BY DEF GoodPut
<1>3. ASSUME NEW i \in 1 .. Len(p.body), i < p.next + 1
      PROVE  p.body[i] \in seen
  <2>1. i = p.next \/ i < p.next
    BY <1>1, <1>3
  <2> QED
    BY <2>1, <1>2
<1> QED
  BY <1>2, <1>3 DEF GoodPut

\* A step of one Put that leaves a well-formed Put behind keeps the invariant.
LEMMA PutUpdateLocal ==
  ASSUME LocalInv, NEW u \in Uploads, NEW p, GoodPut(p), put' = [put EXCEPT ![u] = p],
         stored' \subseteq Hashes, sweep' = sweep, faults' = faults,
         collided' = collided \/ RecordOverlap
  PROVE  LocalInv'
<1>1. put' \in [Uploads -> PutRecord]
  BY DEF LocalInv, GoodPut
<1>2. \A v \in Uploads : GoodPut(put'[v])
  BY DEF LocalInv
<1>3. collided' \subseteq Hashes
  BY <1>1, OverlapType DEF LocalInv, RecordOverlap
<1> QED
  BY <1>1, <1>2, <1>3 DEF LocalInv, GoodPut

\* Every step of a Put keeps the calls well formed.
LEMMA PutStepLocal ==
  ASSUME LocalInv, NEW u \in Uploads, PutNext(u)
  PROVE  LocalInv'
<1>1. /\ stored \subseteq Hashes /\ put \in [Uploads -> PutRecord]
      /\ GoodPut(put[u]) /\ put[u] \in PutRecord
      /\ collided \subseteq Hashes
  BY DEF LocalInv
<1>2. sweep' = sweep /\ faults' = faults
  BY DEF PutNext, PutBegin, PutRepeatedChunk, PutHasBlock, PutBlock, PutCommit, PutFail
<1>3. CASE \E id \in ObjectIds, k \in Keys, body \in Manifests : PutBegin(u, id, k, body)
  <2>1. PICK id \in ObjectIds, k \in Keys, body \in Manifests : PutBegin(u, id, k, body)
    BY <1>3
  <2>2. body \in Seq(Hashes) /\ Len(body) \in Nat
    BY ManifestsAssumption DEF ManifestsAssumption
  <2> DEFINE p == [pc |-> "chunk", id |-> id, body |-> body, next |-> 1, seen |-> {}]
  <2>3. GoodPut(p)
    BY <2>2 DEF GoodPut, PutRecord
  <2> QED
    BY <2>1, <2>3, <1>1, <1>2, PutUpdateLocal DEF PutBegin
<1> DEFINE handled == Handled(put[u], Chunk(u))
<1>4. ASSUME put[u].pc # "idle", put[u].next <= Len(put[u].body)
      PROVE  GoodPut(handled)
  <2>1. Chunk(u) \in Hashes
    BY <1>4, ChunkIsBlock
  <2>2. /\ handled \in PutRecord /\ handled.pc = "chunk" /\ handled.id = put[u].id
        /\ handled.body = put[u].body /\ handled.next = put[u].next + 1
        /\ handled.seen = put[u].seen \cup {Chunk(u)}
    BY <2>1, <1>1 DEF PutRecord, Handled
  <2>3. put[u].seen \cup {Chunk(u)} \in SUBSET Hashes
    BY <2>1, <1>1 DEF PutRecord
  <2> HIDE DEF handled
  <2> QED
    BY <1>4, <2>2, <2>3, <1>1, HandledIsGood DEF Chunk
<1>5. CASE PutRepeatedChunk(u)
  <2>1. put[u].next <= Len(put[u].body) /\ put[u].pc = "chunk"
    BY <1>5 DEF PutRepeatedChunk, MoreChunks
  <2> QED
    BY <1>5, <2>1, <1>1, <1>2, <1>4, PutUpdateLocal DEF PutRepeatedChunk
<1>6. CASE PutHasBlock(u)
  <2>1. put[u].next <= Len(put[u].body) /\ put[u].pc = "chunk"
    BY <1>6 DEF PutHasBlock, MoreChunks
  <2> DEFINE uploading == [put[u] EXCEPT !.pc = "upload"]
  <2>2. GoodPut(uploading)
    BY <2>1, <1>1 DEF GoodPut, PutRecord
  <2>3. put' = [put EXCEPT ![u] = handled] \/ put' = [put EXCEPT ![u] = uploading]
    BY <1>6, <1>1 DEF PutHasBlock
  <2>4. stored' = stored /\ RecordOverlap
    BY <1>6 DEF PutHasBlock
  <2> HIDE DEF handled, uploading
  <2> QED
    BY <2>1, <2>2, <2>3, <2>4, <1>1, <1>2, <1>4, PutUpdateLocal
<1>7. CASE PutBlock(u)
  <2>1. put[u].pc = "upload" /\ put[u].next <= Len(put[u].body)
    BY <1>7, <1>1 DEF PutBlock, GoodPut
  <2>2. Chunk(u) \in Hashes
    BY <2>1, ChunkIsBlock
  <2>3. stored' \subseteq Hashes /\ RecordOverlap
    BY <1>7, <2>2, <1>1 DEF PutBlock
  <2>4. GoodPut(handled)
    BY <2>1, <1>4
  <2> QED
    BY <1>7, <2>3, <2>4, <1>1, <1>2, PutUpdateLocal DEF PutBlock
<1>8. CASE PutCommit(u) \/ PutFail(u)
  BY <1>8, <1>1, <1>2, IdleIsGood, PutUpdateLocal DEF PutCommit, PutFail
<1> QED
  BY <1>3, <1>5, <1>6, <1>7, <1>8 DEF PutNext

\* The records a sweep goes through.
LEMMA SweepRecords ==
  ASSUME NEW cutoff \in Int, NEW batch \in SUBSET Hashes, NEW left \in SUBSET Hashes,
         NEW attempt \in Nat
  PROVE  Listing(cutoff) \in SweepRecord /\ Deleting(cutoff, batch, left, attempt) \in SweepRecord
BY DEF Listing, Deleting, SweepRecord

\* What a list call answers is a set of old, unreferenced blocks.
LEMMA ListedBlocks ==
  ASSUME NEW before, NEW batch \in ListUnreferencedBlocksOlderThan(before, BatchSize), TypeOK
  PROVE  /\ batch \in SUBSET Hashes
         /\ \A h \in batch : refCount[h] = 0 /\ updatedAt[h] <= before
BY DEF ListUnreferencedBlocksOlderThan, Unreferenced, TypeOK

SweepNext(w) == SweepProgress(w) \/ SweepDeleteFails(w) \/ SweepFails(w)

\* Every step of a sweep keeps the calls well formed.
LEMMA SweepStepLocal ==
  ASSUME LocalInv, TypeOK, NEW w \in Sweepers, SweepNext(w)
  PROVE  LocalInv'
<1>1. /\ sweep \in [Sweepers -> SweepRecord] /\ stored \subseteq Hashes
      /\ faults \in Nat /\ clock \in Int /\ MinOrphanAge \in Int
      /\ sweep[w].cutoff \in Int /\ sweep[w].batch \in SUBSET Hashes
      /\ sweep[w].left \in SUBSET Hashes /\ sweep[w].attempt \in Nat
  BY ServiceAssumption DEF LocalInv, TypeOK, ServiceAssumption, SweepRecord
<1>2. /\ put' = put /\ stored' \subseteq Hashes /\ faults' \in Nat
      /\ collided' = collided \/ RecordOverlap
  <2>1. CASE SweepStart(w) \/ SweepList(w) \/ SweepForget(w)
    BY <1>1, <2>1 DEF SweepStart, SweepList, SweepForget
  <2>2. CASE SweepDelete(w)
    <3>1. stored' \subseteq stored
      BY <2>2 DEF SweepDelete
    <3> QED
      BY <1>1, <2>2, <3>1 DEF SweepDelete
  <2>3. CASE SweepDeleteFails(w) \/ SweepFails(w)
    BY <1>1, <2>3 DEF SweepDeleteFails, SweepFails, Fault
  <2> QED
    BY <2>1, <2>2, <2>3 DEF SweepNext, SweepProgress
<1>3. SUFFICES \E s \in SweepRecord : sweep' = [sweep EXCEPT ![w] = s]
  <2>1. sweep' \in [Sweepers -> SweepRecord]
    BY <1>1, <1>3
  <2>2. collided' \subseteq Hashes
    BY <1>2, <2>1, OverlapType DEF LocalInv, RecordOverlap
  <2> QED
    BY <1>2, <2>1, <2>2 DEF LocalInv
<1>4. CASE SweepStart(w)
  <2>1. clock - MinOrphanAge \in Int
    BY <1>1
  <2>2. Listing(clock - MinOrphanAge) \in SweepRecord
    BY <2>1 DEF Listing, SweepRecord
  <2> QED
    BY <1>4, <2>2 DEF SweepStart
<1>5. CASE SweepList(w)
  <2>1. PICK batch \in ListUnreferencedBlocksOlderThan(sweep[w].cutoff, BatchSize) :
          sweep' = [sweep EXCEPT ![w] = IF batch = {} THEN IdleSweep
                                        ELSE Deleting(sweep[w].cutoff, batch, batch, 0)]
    BY <1>5 DEF SweepList
  <2>2. batch \in SUBSET Hashes
    BY ListedBlocks
  <2> QED
    BY <1>1, <2>1, <2>2, SweepRecords, IdleIsGood
<1>6. CASE SweepDelete(w)
  <2>1. PICK h \in sweep[w].left :
          sweep' = [sweep EXCEPT ![w] =
                      Deleting(sweep[w].cutoff, sweep[w].batch, sweep[w].left \ {h},
                               sweep[w].attempt)]
    BY <1>1, <1>6 DEF SweepDelete
  <2>2. sweep[w].left \ {h} \in SUBSET Hashes
    BY <1>1
  <2> QED
    BY <1>1, <2>1, <2>2, SweepRecords
<1>7. CASE SweepForget(w)
  BY <1>1, <1>7, SweepRecords, IdleIsGood DEF SweepForget, AfterForget
<1>8. CASE SweepDeleteFails(w)
  <2>1. sweep[w].attempt + 1 \in Nat
    BY <1>1
  <2> QED
    BY <1>1, <1>8, <2>1, SweepRecords, IdleIsGood DEF SweepDeleteFails
<1>9. CASE SweepFails(w)
  BY <1>1, <1>9, IdleIsGood DEF SweepFails
<1> QED
  BY <1>4, <1>5, <1>6, <1>7, <1>8, <1>9 DEF SweepNext, SweepProgress

\* Deletes, time and stuttering leave the calls alone; a crash ends them all.
LEMMA OtherStepLocal ==
  ASSUME LocalInv, (\E k \in Keys : Delete(k)) \/ Crash \/ TimePasses \/ UNCHANGED serviceVars
  PROVE  LocalInv'
<1>1. CASE Crash
  BY <1>1, IdleIsGood DEF Crash, Fault, LocalInv, GoodPut
<1>2. CASE (\E k \in Keys : Delete(k)) \/ TimePasses \/ UNCHANGED serviceVars
  BY <1>2 DEF Delete, TimePasses, serviceVars, LocalInv, GoodPut
<1> QED
  BY <1>1, <1>2

-----------------------------------------------------------------------------
(* The service is a client of the metadata store. *)

\* Every step of the service is a step of the store or leaves it unchanged.
LEMMA ServiceStepIsStoreStep ==
  ASSUME LocalInv, [ServiceNext]_serviceVars
  PROVE  [Next]_storeVars
<1>1. CASE \E u \in Uploads : PutNext(u)
  <2>1. PICK u \in Uploads : PutNext(u)
    BY <1>1
  <2>2. put[u].pc # "idle" => put[u].id \in ObjectIds /\ put[u].body \in Manifests
    BY DEF LocalInv, GoodPut
  <2>3. CASE PutCommit(u)
    BY <2>2, <2>3 DEF PutCommit, Next
  <2>4. CASE \E id \in ObjectIds, k \in Keys, body \in Manifests : PutBegin(u, id, k, body)
    BY <2>4 DEF PutBegin, Next
  <2> QED
    BY <2>1, <2>3, <2>4 DEF PutNext, PutRepeatedChunk, PutHasBlock, PutBlock, PutFail
<1>2. CASE \E w \in Sweepers : SweepNext(w)
  <2>1. PICK w \in Sweepers : SweepNext(w)
    BY <1>2
  <2>2. sweep[w].batch \in SUBSET Hashes
    BY DEF LocalInv, SweepRecord
  <2> QED
    BY <2>1, <2>2 DEF SweepNext, SweepProgress, SweepStart, SweepList, SweepDelete, SweepForget,
                      SweepDeleteFails, SweepFails, Next
<1>3. CASE \E k \in Keys : Delete(k)
  BY <1>3 DEF Delete, Next
<1>4. CASE Crash \/ TimePasses \/ UNCHANGED serviceVars
  BY <1>4 DEF Crash, TimePasses, serviceVars, Next
<1> QED
  BY <1>1, <1>2, <1>3, <1>4 DEF ServiceNext, SweepNext

\* Calls are well formed and the tables satisfy the store's invariant.
LEMMA BaseStep ==
  ASSUME LocalInv, IInv, [ServiceNext]_serviceVars
  PROVE  LocalInv' /\ IInv'
<1>1. TypeOK
  BY DEF IInv
<1>2. IInv'
  BY ServiceStepIsStoreStep, StepInv
<1>3. LocalInv'
  BY <1>1, PutStepLocal, SweepStepLocal, OtherStepLocal DEF ServiceNext, SweepNext
<1> QED
  BY <1>2, <1>3

\* The service starts with no call running and nothing stored.
LEMMA BaseInit == ServiceInit => LocalInv /\ IInv
<1>1. ASSUME ServiceInit
      PROVE  LocalInv
  <2>1. /\ stored = {} /\ collided = {} /\ faults = 0
        /\ put = [u \in Uploads |-> IdlePut] /\ sweep = [w \in Sweepers |-> IdleSweep]
    BY <1>1 DEF ServiceInit
  <2>2. IdlePut \in PutRecord
    BY IdleIsGood DEF GoodPut
  <2>3. put \in [Uploads -> PutRecord] /\ sweep \in [Sweepers -> SweepRecord]
    BY <2>1, <2>2, IdleIsGood
  <2>4. \A u \in Uploads : GoodPut(put[u])
    BY <2>1, IdleIsGood
  <2> QED
    BY <2>1, <2>3, <2>4 DEF LocalInv
<1> QED
  BY <1>1, InitInv DEF ServiceInit

\* The local state of every call is well formed.
THEOREM ServiceTypeCorrect == ServiceSpec => []ServiceTypeOK
<1>1. LocalInv => ServiceTypeOK
  BY DEF LocalInv, ServiceTypeOK, PutRecord, SweepRecord
<1> QED
  BY <1>1, BaseInit, BaseStep, PTL DEF ServiceSpec

\* The actions of the service are built from those of the store, so what is
\* proved of MetadataStore may be used of the whole service.
LEMMA ServiceRunsAreStoreRuns == ServiceSpec => Spec
<1>1. ServiceInit => Init
  BY DEF ServiceInit
<1>2. LocalInv /\ [ServiceNext]_serviceVars => [Next]_storeVars
  BY ServiceStepIsStoreStep
<1> QED
  BY <1>1, <1>2, BaseInit, BaseStep, PTL DEF ServiceSpec, Spec

\* Reference counts stay exact under concurrent uploads, deletes and sweeps,
\* with failures and crashes.
THEOREM ServiceKeepsRefCountsExact == ServiceSpec => []RefCountExact
BY ServiceRunsAreStoreRuns, RefCountsAreExact

-----------------------------------------------------------------------------
(* What an upload, a delete or a sweep does to a block nobody uses. *)

(* A block without references gains none and does not look younger. *)
Undisturbed(h) ==
  References(h) = {} =>
    References(h)' = {} /\ updatedAt'[h] \in {updatedAt[h], 0}

\* New rows of one object name no block but those of its manifest.
LEMMA OtherBlocksUnnamed ==
  ASSUME NEW table \in ChunkTables, NEW id \in ObjectIds, NEW chunks \in Seq(Hashes),
         NEW h \in Hashes, h \notin Mentioned(chunks), RowsNaming(table, h) = {}
  PROVE  RowsNaming([table EXCEPT ![id] = chunks], h) = {}
<1> DEFINE after == [table EXCEPT ![id] = chunks]
<1>1. after \in ChunkTables /\ after[id] = chunks
      /\ \A other \in ObjectIds \ {id} : after[other] = table[other]
  BY DEF ChunkTables
<1>2. \A other \in ObjectIds : h \notin Mentioned(table[other])
  BY NamedIffMentioned
<1>3. \A other \in ObjectIds : h \notin Mentioned(after[other])
  BY <1>1, <1>2
<1> HIDE DEF after
<1>4. RowsNaming(after, h) = {}
  BY <1>1, <1>3, NamedIffMentioned
<1> QED
  BY <1>4 DEF after

\* The rows that name a block after a step are those of the new table.
LEMMA ReferencesAfter ==
  ASSUME NEW h \in Hashes
  PROVE  References(h)' = RowsNaming(objectChunks', h)
BY DEF References, RowsNaming, Positions

\* A commit touches no unreferenced block outside its manifest.
LEMMA CommitUndisturbed ==
  ASSUME IInv, NEW id \in ObjectIds, NEW chunks \in Manifests, CommitObject(id, chunks),
         NEW h \in Hashes, h \notin Mentioned(chunks)
  PROVE  Undisturbed(h)
<1> SUFFICES ASSUME References(h) = {}
             PROVE  References(h)' = {} /\ updatedAt'[h] = updatedAt[h]
  BY DEF Undisturbed
<1>1. /\ objectChunks \in ChunkTables /\ chunks \in Seq(Hashes)
      /\ RowsNaming(objectChunks, h) = {}
  BY ManifestsAssumption DEF ManifestsAssumption, IInv, TypeOK, ChunkTables, References
<1>2. CASE CommitFirst(id, chunks)
  <2>1. /\ objectChunks' = [objectChunks EXCEPT ![id] = chunks]
        /\ updatedAt' = Stamp(updatedAt, chunks)
    BY <1>2 DEF CommitFirst
  <2>2. RowsNaming(objectChunks', h) = {}
    BY <1>1, <2>1, OtherBlocksUnnamed
  <2> QED
    BY <2>1, <2>2, ReferencesAfter DEF Stamp
<1>3. CASE \E previous \in Committed(objectKey[id]) : CommitOver(id, previous, chunks)
  <2>1. PICK previous \in Committed(objectKey[id]) : CommitOver(id, previous, chunks)
    BY <1>3
  <2>2. previous \in ObjectIds /\ objectChunks[previous] \in Seq(Hashes)
    BY <1>1 DEF Committed, ChunkTables
  <2> DEFINE detached == [objectChunks EXCEPT ![previous] = <<>>]
  <2>3. /\ objectChunks' = [detached EXCEPT ![id] = chunks]
        /\ updatedAt' = Stamp(Stamp(updatedAt, objectChunks[previous]), chunks)
    BY <2>1 DEF CommitOver
  <2>4. <<>> \in Seq(Hashes) /\ h \notin Mentioned(<<>>) /\ detached \in ChunkTables
    BY <1>1, <2>2 DEF Mentioned, ChunkTables
  <2>5. RowsNaming(detached, h) = {}
    BY <1>1, <2>2, <2>4, OtherBlocksUnnamed
  <2> HIDE DEF detached
  <2>6. RowsNaming(objectChunks', h) = {}
    BY <1>1, <2>3, <2>4, <2>5, OtherBlocksUnnamed
  <2>7. h \notin Mentioned(objectChunks[previous])
    BY <1>1, <2>2, NamedIffMentioned
  <2> QED
    BY <2>3, <2>6, <2>7, ReferencesAfter DEF Stamp
<1> QED
  BY <1>2, <1>3 DEF CommitObject

\* A delete touches no unreferenced block.
LEMMA DeleteUndisturbed ==
  ASSUME IInv, NEW k \in Keys, DeleteObject(k), NEW h \in Hashes
  PROVE  Undisturbed(h)
<1> SUFFICES ASSUME References(h) = {}
             PROVE  References(h)' = {} /\ updatedAt'[h] = updatedAt[h]
  BY DEF Undisturbed
<1>1. PICK id \in Committed(k) :
        /\ objectChunks' = [objectChunks EXCEPT ![id] = <<>>]
        /\ updatedAt' = Stamp(updatedAt, objectChunks[id])
  BY DEF DeleteObject
<1>2. /\ objectChunks \in ChunkTables /\ id \in ObjectIds
      /\ RowsNaming(objectChunks, h) = {}
  BY DEF IInv, TypeOK, ChunkTables, References, Committed
<1>3. <<>> \in Seq(Hashes) /\ h \notin Mentioned(<<>>)
  BY DEF Mentioned
<1>4. RowsNaming(objectChunks', h) = {}
  BY <1>1, <1>2, <1>3, OtherBlocksUnnamed
<1>5. h \notin Mentioned(objectChunks[id])
  BY <1>2, NamedIffMentioned
<1> QED
  BY <1>1, <1>4, <1>5, ReferencesAfter DEF Stamp

\* Neither do the steps that leave the object tables alone.
LEMMA SameTablesUndisturbed ==
  ASSUME IInv, NEW h \in Hashes,
         \/ \E id \in ObjectIds, k \in Keys : CreatePendingObject(id, k)
         \/ \E hashes \in SUBSET Hashes : ForgetBlocks(hashes)
         \/ Tick
         \/ UNCHANGED storeVars
  PROVE  Undisturbed(h)
<1>1. objectChunks' = objectChunks
  BY DEF CreatePendingObject, ForgetBlocks, Tick, storeVars, objectVars
<1>2. References(h)' = References(h)
  BY <1>1, ReferencesAfter DEF References
<1>3. updatedAt'[h] \in {updatedAt[h], 0}
  BY DEF CreatePendingObject, ForgetBlocks, Tick, storeVars, blockVars, Forgotten
<1> QED
  BY <1>2, <1>3 DEF Undisturbed

\* Of all steps of the service only the commit of an upload can give a block
\* its first reference, and only a block that upload has handled.
LEMMA ServiceUndisturbed ==
  ASSUME LocalInv, IInv, [ServiceNext]_serviceVars, NEW h \in Hashes
  PROVE  Undisturbed(h) \/ \E u \in Uploads : PutCommit(u) /\ h \in put[u].seen
<1>1. CASE \E u \in Uploads : PutCommit(u)
  <2>1. PICK u \in Uploads : PutCommit(u)
    BY <1>1
  <2> DEFINE p == put[u]
  <2>2. /\ p.id \in ObjectIds /\ p.body \in Manifests /\ CommitObject(p.id, p.body)
        /\ p.next > Len(p.body) /\ p.next \in Nat
        /\ \A i \in 1 .. Len(p.body) : i < p.next => p.body[i] \in p.seen
    BY <2>1 DEF PutCommit, LocalInv, GoodPut, PutRecord
  <2>3. p.body \in Seq(Hashes) /\ Len(p.body) \in Nat
    BY <2>2, ManifestsAssumption DEF ManifestsAssumption
  <2>4. Mentioned(p.body) \subseteq p.seen
    BY <2>2, <2>3 DEF Mentioned
  <2>5. h \notin Mentioned(p.body) => Undisturbed(h)
    BY <2>2, CommitUndisturbed
  <2> QED
    BY <2>1, <2>4, <2>5
<1>2. CASE \E k \in Keys : Delete(k)
  BY <1>2, DeleteUndisturbed DEF Delete
<1>3. CASE \E u \in Uploads, id \in ObjectIds, k \in Keys, body \in Manifests :
             PutBegin(u, id, k, body)
  BY <1>3, SameTablesUndisturbed DEF PutBegin
<1>4. CASE \E u \in Uploads : \/ PutRepeatedChunk(u) \/ PutHasBlock(u)
                              \/ PutBlock(u) \/ PutFail(u)
  <2>1. UNCHANGED storeVars
    BY <1>4 DEF PutRepeatedChunk, PutHasBlock, PutBlock, PutFail
  <2> QED
    BY <2>1, SameTablesUndisturbed
<1>5. CASE \E w \in Sweepers : SweepForget(w)
  <2>1. PICK w \in Sweepers : SweepForget(w)
    BY <1>5
  <2>2. sweep[w].batch \in SUBSET Hashes
    BY DEF LocalInv, SweepRecord
  <2> QED
    BY <2>1, <2>2, SameTablesUndisturbed DEF SweepForget
<1>6. CASE \E w \in Sweepers : \/ SweepStart(w) \/ SweepList(w) \/ SweepDelete(w)
                               \/ SweepDeleteFails(w) \/ SweepFails(w)
  <2>1. UNCHANGED storeVars
    BY <1>6 DEF SweepStart, SweepList, SweepDelete, SweepDeleteFails, SweepFails
  <2> QED
    BY <2>1, SameTablesUndisturbed
<1>7. CASE Crash \/ TimePasses \/ UNCHANGED serviceVars
  <2>1. Tick \/ UNCHANGED storeVars
    BY <1>7 DEF Crash, TimePasses, serviceVars
  <2> QED
    BY <2>1, SameTablesUndisturbed
<1> QED
  BY <1>1, <1>2, <1>3, <1>4, <1>5, <1>6, <1>7 DEF ServiceNext, PutNext, SweepProgress

-----------------------------------------------------------------------------
(* Blocks in hand. *)

SeenSafe ==
  \A u \in Uploads : put[u].seen \subseteq stored \cup collided

OverlapRecorded == Overlap(put, sweep) \subseteq collided

(* What a sweep knows of the blocks it listed for as long as no upload has *)
(* them in hand: nothing refers to them, their orphan age has passed, and  *)
(* those it is through with are gone.                                      *)
GoodBatch(w) ==
  /\ sweep[w].left \subseteq sweep[w].batch
  /\ sweep[w].pc \in {"idle", "list"} => sweep[w].batch = {}
  /\ sweep[w].pc = "forget" => sweep[w].left = {}
  /\ sweep[w].pc # "idle" => sweep[w].cutoff + MinOrphanAge <= clock
  /\ \A h \in sweep[w].batch :
       h \in collided \/ (References(h) = {} /\ updatedAt[h] <= sweep[w].cutoff)
  /\ \A h \in sweep[w].batch \ sweep[w].left : h \notin stored \/ h \in collided

SafetyInv ==
  /\ SeenSafe
  /\ OverlapRecorded
  /\ \A w \in Sweepers : GoodBatch(w)
  /\ ReferencedBlocksStored

\* Sweeps that are idle have nothing in hand.
LEMMA IdleBatch ==
  ASSUME NEW w \in Sweepers, sweep' = [sweep EXCEPT ![w] = IdleSweep],
         sweep \in [Sweepers -> SweepRecord]
  PROVE  GoodBatch(w)'
BY DEF GoodBatch, IdleSweep

\* A step of others keeps what a sweep knows, when the blocks it stores are
\* recorded as collided and those it commits were.
LEMMA BatchKept ==
  ASSUME LocalInv, IInv, IInv', NEW w \in Sweepers, GoodBatch(w), sweep'[w] = sweep[w],
         clock' \in {clock, clock + 1}, collided \subseteq collided',
         \A h \in sweep[w].batch : h \in collided' \/ Undisturbed(h),
         \A h \in sweep[w].batch : h \in stored' => h \in stored \cup collided'
  PROVE  GoodBatch(w)'
<1>1. /\ sweep[w].cutoff \in Int /\ MinOrphanAge \in Int /\ clock \in Int
      /\ sweep[w].batch \subseteq Hashes /\ updatedAt \in [Hashes -> Nat]
      /\ updatedAt' \in [Hashes -> Nat]
  BY ServiceAssumption DEF LocalInv, SweepRecord, ServiceAssumption, IInv, TypeOK
<1>2. sweep[w].pc # "idle" => sweep[w].cutoff + MinOrphanAge <= clock'
  BY <1>1 DEF GoodBatch
<1>3. ASSUME NEW h \in sweep[w].batch
      PROVE  h \in collided' \/ (References(h)' = {} /\ updatedAt'[h] <= sweep[w].cutoff)
  <2>1. h \in Hashes /\ updatedAt[h] \in Nat
    BY <1>1
  <2>2. h \in collided \/ (References(h) = {} /\ updatedAt[h] <= sweep[w].cutoff)
    BY DEF GoodBatch
  <2>3. 0 <= sweep[w].cutoff \/ h \in collided
    BY <2>1, <2>2, <1>1
  <2>4. h \in collided' \/ Undisturbed(h)
    OBVIOUS
  <2> QED
    BY <2>2, <2>3, <2>4 DEF Undisturbed
<1>4. \A h \in sweep[w].batch \ sweep[w].left : h \notin stored' \/ h \in collided'
  BY DEF GoodBatch
<1> QED
  BY <1>2, <1>3, <1>4 DEF GoodBatch

\* Giving blocks up creates no overlap.
LEMMA OverlapShrinks ==
  ASSUME OverlapRecorded, collided \subseteq collided',
         \A u \in Uploads : put'[u].seen \subseteq put[u].seen,
         \A w \in Sweepers : sweep'[w].batch \subseteq sweep[w].batch
  PROVE  OverlapRecorded'
BY DEF OverlapRecorded, Overlap

\* A step that does not commit and keeps what is stored keeps committed
\* objects whole.
LEMMA StillCovered ==
  ASSUME ReferencedBlocksStored, stored \subseteq stored', collided \subseteq collided',
         \A h \in Hashes : Undisturbed(h)
  PROVE  ReferencedBlocksStored'
BY DEF ReferencedBlocksStored, Undisturbed

-----------------------------------------------------------------------------
(* Uploads keep the invariant. *)

\* What the steps of an upload change besides the tables.
LEMMA PutEffect ==
  ASSUME LocalInv, NEW u \in Uploads, PutNext(u)
  PROVE  /\ sweep' = sweep /\ clock' = clock /\ stored \subseteq stored'
         /\ \A v \in Uploads \ {u} : put'[v] = put[v]
         /\ stored' \ stored \subseteq put'[u].seen
         /\ \/ /\ collided' = collided /\ stored' = stored
               /\ put'[u].seen \subseteq put[u].seen
            \/ /\ RecordOverlap
               /\ put'[u].seen \subseteq put[u].seen \cup stored'
<1>1. put \in [Uploads -> PutRecord]
  BY DEF LocalInv
<1>2. CASE \E id \in ObjectIds, k \in Keys, body \in Manifests : PutBegin(u, id, k, body)
  BY <1>1, <1>2 DEF PutBegin, CreatePendingObject
<1>3. CASE PutRepeatedChunk(u)
  BY <1>1, <1>3 DEF PutRepeatedChunk, Handled, storeVars
<1>4. CASE PutHasBlock(u)
  <2>1. CASE Chunk(u) \in stored
    BY <1>1, <1>4, <2>1 DEF PutHasBlock, Handled, storeVars
  <2>2. CASE Chunk(u) \notin stored
    <3>1. put'[u].seen = put[u].seen /\ \A v \in Uploads \ {u} : put'[v] = put[v]
      BY <1>1, <1>4, <2>2 DEF PutHasBlock, PutRecord
    <3> QED
      BY <1>4, <3>1 DEF PutHasBlock, storeVars
  <2> QED
    BY <2>1, <2>2
<1>5. CASE PutBlock(u)
  BY <1>1, <1>5 DEF PutBlock, Handled, storeVars
<1>6. CASE PutCommit(u)
  BY <1>1, <1>6 DEF PutCommit, CommitObject, IdlePut
<1>7. CASE PutFail(u)
  BY <1>1, <1>7 DEF PutFail, IdlePut, storeVars
<1> QED
  BY <1>2, <1>3, <1>4, <1>5, <1>6, <1>7 DEF PutNext

\* Every step of an upload keeps the safety invariant.
LEMMA PutStepSafe ==
  ASSUME LocalInv, IInv, IInv', SafetyInv, NEW u \in Uploads, PutNext(u),
         [ServiceNext]_serviceVars
  PROVE  SafetyInv'
<1>1. /\ sweep' = sweep /\ clock' = clock /\ stored \subseteq stored'
      /\ collided \subseteq collided'
      /\ \A v \in Uploads \ {u} : put'[v] = put[v]
      /\ stored' \ stored \subseteq put'[u].seen
  BY PutEffect DEF RecordOverlap
<1>2. OverlapRecorded'
  <2>1. CASE collided' = collided /\ put'[u].seen \subseteq put[u].seen
    <3>1. /\ \A v \in Uploads : put'[v].seen \subseteq put[v].seen
          /\ \A w \in Sweepers : sweep'[w].batch \subseteq sweep[w].batch
      BY <1>1, <2>1
    <3> QED
      BY <1>1, <3>1, OverlapShrinks DEF SafetyInv
  <2>2. CASE RecordOverlap
    BY <2>2 DEF RecordOverlap, OverlapRecorded
  <2> QED
    BY <2>1, <2>2, PutEffect
<1>3. SeenSafe'
  <2>1. put'[u].seen \subseteq put[u].seen \cup stored'
    BY PutEffect
  <2>2. ASSUME NEW v \in Uploads
        PROVE  put'[v].seen \subseteq stored' \cup collided'
    <3>1. put[v].seen \subseteq stored' \cup collided'
      BY <1>1 DEF SafetyInv, SeenSafe
    <3> QED
      BY <1>1, <2>1, <3>1
  <2> QED
    BY <2>2 DEF SeenSafe
<1>4. ASSUME NEW h \in Hashes
      PROVE  Undisturbed(h) \/ h \in put[u].seen
  <2>1. ASSUME NEW v \in Uploads, PutCommit(v)
        PROVE  v = u \/ put'[v] = put[v]
    BY <1>1
  <2>2. ASSUME NEW v \in Uploads, PutCommit(v), v # u
        PROVE  FALSE
    <3>1. put \in [Uploads -> PutRecord]
      BY DEF LocalInv
    <3>2. put'[v].pc = "idle" /\ put[v].pc = "chunk"
      BY <2>2, <3>1 DEF PutCommit, IdlePut
    <3> QED
      BY <2>1, <2>2, <3>2
  <2> QED
    BY <2>2, ServiceUndisturbed
<1>5. ASSUME NEW w \in Sweepers
      PROVE  GoodBatch(w)'
  <2>1. sweep[w].batch \subseteq Hashes
    BY DEF LocalInv, SweepRecord
  <2>2. \A h \in put[u].seen : h \in sweep[w].batch => h \in collided'
    BY <1>1, <2>1 DEF SafetyInv, OverlapRecorded, Overlap
  <2>3. \A h \in put'[u].seen : h \in sweep[w].batch => h \in collided'
    BY <1>1, <1>2, <2>1 DEF OverlapRecorded, Overlap
  <2>4. \A h \in sweep[w].batch : h \in collided' \/ Undisturbed(h)
    BY <1>4, <2>1, <2>2
  <2>5. \A h \in sweep[w].batch : h \in stored' => h \in stored \cup collided'
    BY <1>1, <2>3
  <2>6. GoodBatch(w) /\ sweep'[w] = sweep[w] /\ clock' \in {clock, clock + 1}
    BY <1>1 DEF SafetyInv
  <2> QED
    BY <1>1, <2>4, <2>5, <2>6, BatchKept
<1>6. ReferencedBlocksStored'
  <2>1. SUFFICES ASSUME NEW h \in Hashes, References(h)' # {}
                 PROVE  h \in stored' \cup collided'
    BY DEF ReferencedBlocksStored
  <2>2. References(h) # {} \/ h \in put[u].seen
    BY <1>4, <2>1 DEF Undisturbed
  <2> QED
    BY <1>1, <2>2 DEF SafetyInv, SeenSafe, ReferencedBlocksStored
<1> QED
  BY <1>2, <1>3, <1>5, <1>6 DEF SafetyInv

-----------------------------------------------------------------------------
(* Sweeps keep the invariant. *)

\* What the steps of a sweep change besides the tables.
LEMMA SweepEffect ==
  ASSUME LocalInv, NEW w \in Sweepers, GoodBatch(w), SweepNext(w)
  PROVE  /\ put' = put /\ clock' = clock /\ stored' \subseteq stored
         /\ stored \ stored' \subseteq sweep[w].batch
         /\ \A v \in Sweepers \ {w} : sweep'[v] = sweep[v]
         /\ \/ RecordOverlap
            \/ collided' = collided /\ sweep'[w].batch \subseteq sweep[w].batch
<1>1. sweep \in [Sweepers -> SweepRecord]
  BY DEF LocalInv
<1>2. CASE SweepStart(w)
  BY <1>1, <1>2 DEF SweepStart, Listing, storeVars
<1>3. CASE SweepList(w)
  BY <1>1, <1>3 DEF SweepList, storeVars
<1>4. CASE SweepDelete(w)
  <2>1. PICK h \in sweep[w].left :
          /\ stored' = stored \ {h}
          /\ sweep' = [sweep EXCEPT ![w] =
                         Deleting(sweep[w].cutoff, sweep[w].batch, sweep[w].left \ {h},
                                  sweep[w].attempt)]
    BY <1>1, <1>4 DEF SweepDelete
  <2>2. put' = put /\ clock' = clock /\ collided' = collided
    BY <1>4 DEF SweepDelete, storeVars
  <2>3. /\ \A v \in Sweepers \ {w} : sweep'[v] = sweep[v]
        /\ sweep'[w].batch = sweep[w].batch
    BY <1>1, <2>1 DEF Deleting
  <2>4. stored' \subseteq stored /\ stored \ stored' \subseteq sweep[w].batch
    BY <2>1 DEF GoodBatch
  <2> QED
    BY <2>2, <2>3, <2>4
<1>5. CASE SweepForget(w)
  BY <1>1, <1>5 DEF SweepForget, ForgetBlocks, AfterForget, IdleSweep, Listing
<1>6. CASE SweepDeleteFails(w)
  BY <1>1, <1>6 DEF SweepDeleteFails, Deleting, IdleSweep, storeVars
<1>7. CASE SweepFails(w)
  BY <1>1, <1>7 DEF SweepFails, IdleSweep, storeVars
<1> QED
  BY <1>2, <1>3, <1>4, <1>5, <1>6, <1>7 DEF SweepNext, SweepProgress

\* A sweep that goes on to list has nothing in hand.
LEMMA ListingBatch ==
  ASSUME NEW w \in Sweepers, NEW cutoff \in Int, sweep \in [Sweepers -> SweepRecord],
         sweep' = [sweep EXCEPT ![w] = Listing(cutoff)], cutoff + MinOrphanAge <= clock'
  PROVE  GoodBatch(w)'
BY DEF GoodBatch, Listing

\* The batch a sweep lists is made of old orphans.
LEMMA ListedBatch ==
  ASSUME LocalInv, IInv, NEW w \in Sweepers, GoodBatch(w), SweepList(w)
  PROVE  GoodBatch(w)'
<1>1. sweep \in [Sweepers -> SweepRecord] /\ TypeOK
  BY DEF LocalInv, IInv
<1>2. PICK batch \in ListUnreferencedBlocksOlderThan(sweep[w].cutoff, BatchSize) :
        sweep' = [sweep EXCEPT ![w] = IF batch = {} THEN IdleSweep
                                      ELSE Deleting(sweep[w].cutoff, batch, batch, 0)]
  BY DEF SweepList
<1>3. CASE batch = {}
  BY <1>1, <1>2, <1>3, IdleBatch
<1>4. CASE batch # {}
  <2>1. /\ sweep'[w].pc = "delete" /\ sweep'[w].cutoff = sweep[w].cutoff
        /\ sweep'[w].batch = batch /\ sweep'[w].left = batch
    BY <1>1, <1>2, <1>4 DEF Deleting
  <2>2. /\ sweep[w].cutoff + MinOrphanAge <= clock /\ clock' = clock
        /\ objectChunks' = objectChunks /\ updatedAt' = updatedAt
    BY DEF GoodBatch, SweepList, storeVars, objectVars, blockVars
  <2>3. ASSUME NEW h \in batch
        PROVE  References(h)' = {} /\ updatedAt'[h] <= sweep[w].cutoff
    <3>1. h \in Hashes /\ refCount[h] = 0 /\ updatedAt[h] <= sweep[w].cutoff
      BY <1>1, ListedBlocks
    <3>2. References(h) = {}
      BY <3>1, ZeroIffUnnamed
    <3> QED
      BY <2>2, <3>1, <3>2, ReferencesAfter DEF References
  <2> QED
    BY <2>1, <2>2, <2>3 DEF GoodBatch
<1> QED
  BY <1>3, <1>4

\* Deleting blocks of the batch leaves those it is through with gone.
LEMMA DeletedBatch ==
  ASSUME LocalInv, IInv, NEW w \in Sweepers, GoodBatch(w),
         SweepDelete(w) \/ SweepDeleteFails(w)
  PROVE  GoodBatch(w)'
<1>1. /\ sweep \in [Sweepers -> SweepRecord] /\ sweep[w].pc = "delete"
      /\ sweep[w].left \subseteq sweep[w].batch
      /\ sweep[w].cutoff + MinOrphanAge <= clock
  BY DEF LocalInv, SweepDelete, SweepDeleteFails, GoodBatch
<1>2. /\ clock' = clock /\ collided' = collided /\ objectChunks' = objectChunks
      /\ updatedAt' = updatedAt /\ stored' \subseteq stored
  BY DEF SweepDelete, SweepDeleteFails, storeVars, objectVars, blockVars
<1>3. ASSUME NEW h \in sweep[w].batch
      PROVE  h \in collided' \/ (References(h)' = {} /\ updatedAt'[h] <= sweep[w].cutoff)
  <2>1. h \in Hashes
    BY <1>1 DEF SweepRecord
  <2> QED
    BY <1>2, <2>1, ReferencesAfter DEF GoodBatch, References
<1>4. CASE SweepDelete(w)
  <2>1. PICK h \in sweep[w].left :
          /\ stored' = stored \ {h}
          /\ sweep' = [sweep EXCEPT ![w] =
                         Deleting(sweep[w].cutoff, sweep[w].batch, sweep[w].left \ {h},
                                  sweep[w].attempt)]
    BY <1>1, <1>4 DEF SweepDelete
  <2>2. /\ sweep'[w].cutoff = sweep[w].cutoff /\ sweep'[w].batch = sweep[w].batch
        /\ sweep'[w].left = sweep[w].left \ {h}
        /\ sweep'[w].pc = IF sweep[w].left \ {h} = {} THEN "forget" ELSE "delete"
    BY <1>1, <2>1 DEF Deleting
  <2>3. \A g \in sweep[w].batch \ (sweep[w].left \ {h}) : g \notin stored' \/ g \in collided'
    BY <1>2, <2>1 DEF GoodBatch
  <2> QED
    BY <1>1, <1>2, <1>3, <2>2, <2>3 DEF GoodBatch
<1>5. CASE SweepDeleteFails(w)
  <2>1. CASE sweep' = [sweep EXCEPT ![w] = IdleSweep]
    BY <1>1, <2>1, IdleBatch
  <2>2. CASE sweep' = [sweep EXCEPT ![w] = Deleting(sweep[w].cutoff, sweep[w].batch,
                                                   sweep[w].batch, sweep[w].attempt + 1)]
    <3>1. /\ sweep'[w].cutoff = sweep[w].cutoff /\ sweep'[w].batch = sweep[w].batch
          /\ sweep'[w].left = sweep[w].batch
          /\ sweep'[w].pc = IF sweep[w].batch = {} THEN "forget" ELSE "delete"
      BY <1>1, <2>2 DEF Deleting
    <3> QED
      BY <1>1, <1>2, <1>3, <3>1 DEF GoodBatch
  <2> QED
    BY <1>1, <1>5, <2>1, <2>2 DEF SweepDeleteFails
<1> QED
  BY <1>4, <1>5

\* Every step of a sweep leaves its own batch good.
LEMMA OwnBatch ==
  ASSUME LocalInv, IInv, NEW w \in Sweepers, GoodBatch(w), SweepNext(w)
  PROVE  GoodBatch(w)'
<1>1. /\ sweep \in [Sweepers -> SweepRecord] /\ clock' = clock /\ clock \in Int
      /\ MinOrphanAge \in Int /\ sweep[w].cutoff \in Int
  BY SweepEffect, ServiceAssumption
     DEF LocalInv, IInv, TypeOK, ServiceAssumption, SweepRecord
<1>2. CASE SweepStart(w)
  <2>1. /\ clock - MinOrphanAge \in Int
        /\ (clock - MinOrphanAge) + MinOrphanAge <= clock'
    BY <1>1
  <2> QED
    BY <1>1, <1>2, <2>1, ListingBatch DEF SweepStart
<1>3. CASE SweepForget(w)
  <2>1. sweep[w].cutoff + MinOrphanAge <= clock'
    BY <1>1, <1>3 DEF SweepForget, GoodBatch
  <2> QED
    BY <1>1, <1>3, <2>1, IdleBatch, ListingBatch DEF SweepForget, AfterForget
<1>4. CASE SweepFails(w)
  BY <1>1, <1>4, IdleBatch DEF SweepFails
<1> QED
  BY <1>2, <1>3, <1>4, ListedBatch, DeletedBatch DEF SweepNext, SweepProgress

\* Every step of a sweep keeps the safety invariant.
LEMMA SweepStepSafe ==
  ASSUME LocalInv, IInv, IInv', SafetyInv, NEW w \in Sweepers, SweepNext(w),
         [ServiceNext]_serviceVars
  PROVE  SafetyInv'
<1>0. GoodBatch(w)
  BY DEF SafetyInv
<1>1. /\ put' = put /\ clock' = clock /\ stored' \subseteq stored
      /\ collided \subseteq collided'
      /\ \A v \in Sweepers \ {w} : sweep'[v] = sweep[v]
  BY <1>0, SweepEffect DEF RecordOverlap
<1>2. \A h \in stored \ stored' : h \in sweep[w].batch
  BY <1>0, SweepEffect
<1>3. OverlapRecorded'
  <2>1. CASE collided' = collided /\ sweep'[w].batch \subseteq sweep[w].batch
    <3>1. /\ \A u \in Uploads : put'[u].seen \subseteq put[u].seen
          /\ \A v \in Sweepers : sweep'[v].batch \subseteq sweep[v].batch
      BY <1>1, <2>1
    <3> QED
      BY <1>1, <3>1, OverlapShrinks DEF SafetyInv
  <2>2. CASE RecordOverlap
    BY <2>2 DEF RecordOverlap, OverlapRecorded
  <2> QED
    BY <1>0, <2>1, <2>2, SweepEffect
<1>4. SeenSafe'
  <2>1. ASSUME NEW u \in Uploads, NEW h \in put[u].seen
        PROVE  h \in stored' \cup collided'
    <3>1. h \in Hashes /\ h \in stored \cup collided
      BY DEF LocalInv, PutRecord, SafetyInv, SeenSafe
    <3>2. h \in sweep[w].batch => h \in collided
      BY <3>1 DEF SafetyInv, OverlapRecorded, Overlap
    <3> QED
      BY <1>1, <1>2, <3>1, <3>2
  <2> QED
    BY <1>1, <2>1 DEF SeenSafe
<1>5. \A h \in Hashes : Undisturbed(h)
  <2>1. ASSUME NEW u \in Uploads, PutCommit(u)
        PROVE  FALSE
    <3>1. put \in [Uploads -> PutRecord]
      BY DEF LocalInv
    <3>2. put'[u].pc = "idle" /\ put[u].pc = "chunk"
      BY <2>1, <3>1 DEF PutCommit, IdlePut
    <3> QED
      BY <1>1, <3>2
  <2> QED
    BY <2>1, ServiceUndisturbed
<1>6. ASSUME NEW v \in Sweepers
      PROVE  GoodBatch(v)'
  <2>1. sweep[v].batch \subseteq Hashes
    BY DEF LocalInv, SweepRecord
  <2>2. CASE v = w
    BY <2>2, OwnBatch DEF SafetyInv
  <2>3. CASE v # w
    <3>1. /\ GoodBatch(v) /\ sweep'[v] = sweep[v] /\ clock' \in {clock, clock + 1}
          /\ \A h \in sweep[v].batch : h \in collided' \/ Undisturbed(h)
          /\ \A h \in sweep[v].batch : h \in stored' => h \in stored \cup collided'
      BY <1>1, <1>5, <2>1, <2>3 DEF SafetyInv
    <3> QED
      BY <1>1, <3>1, BatchKept
  <2> QED
    BY <2>2, <2>3
<1>7. ReferencedBlocksStored'
  <2>1. SUFFICES ASSUME NEW h \in Hashes, References(h)' # {}
                 PROVE  h \in stored' \cup collided'
    BY DEF ReferencedBlocksStored
  <2>2. References(h) # {} /\ h \in stored \cup collided
    BY <1>5, <2>1 DEF Undisturbed, SafetyInv, ReferencedBlocksStored
  <2>3. h \in sweep[w].batch => h \in collided
    BY <2>2 DEF SafetyInv, GoodBatch
  <2> QED
    BY <1>1, <1>2, <2>2, <2>3
<1> QED
  BY <1>3, <1>4, <1>6, <1>7 DEF SafetyInv

-----------------------------------------------------------------------------
(* Deletes, crashes and time keep the invariant. *)

\* A step that stores nothing, commits nothing and lists nothing, and at most
\* ends calls, keeps the safety invariant.
LEMMA OtherStepSafe ==
  ASSUME LocalInv, IInv, IInv', SafetyInv, [ServiceNext]_serviceVars,
         (\E k \in Keys : Delete(k)) \/ Crash \/ TimePasses \/ UNCHANGED serviceVars
  PROVE  SafetyInv'
<1>1. /\ stored' = stored /\ collided' = collided /\ clock' \in {clock, clock + 1}
      /\ \/ put' = put /\ sweep' = sweep
         \/ /\ put' = [u \in Uploads |-> IdlePut]
            /\ sweep' = [w \in Sweepers |-> IdleSweep]
  <2>1. CASE \E k \in Keys : Delete(k)
    BY <2>1 DEF Delete, DeleteObject
  <2>2. CASE Crash
    BY <2>2 DEF Crash, storeVars
  <2>3. CASE TimePasses
    BY <2>3 DEF TimePasses, Tick
  <2>4. CASE UNCHANGED serviceVars
    BY <2>4 DEF serviceVars, storeVars
  <2> QED
    BY <2>1, <2>2, <2>3, <2>4
<1>2. /\ \A u \in Uploads : put'[u] = put[u] \/ put'[u] = IdlePut
      /\ \A w \in Sweepers : sweep'[w] = sweep[w] \/ sweep'[w] = IdleSweep
  BY <1>1
<1>3. /\ \A u \in Uploads : put'[u].seen \subseteq put[u].seen
      /\ \A w \in Sweepers : sweep'[w].batch \subseteq sweep[w].batch
  BY <1>2 DEF IdlePut, IdleSweep
<1>4. OverlapRecorded'
  BY <1>1, <1>3, OverlapShrinks DEF SafetyInv
<1>5. SeenSafe'
  BY <1>1, <1>3 DEF SafetyInv, SeenSafe
<1>6. \A h \in Hashes : Undisturbed(h)
  <2>1. ASSUME NEW u \in Uploads, PutCommit(u)
        PROVE  FALSE
    <3>1. CASE \E k \in Keys : Delete(k)
      <4>1. put' = put /\ put \in [Uploads -> PutRecord]
        BY <3>1 DEF Delete, LocalInv
      <4> QED
        BY <2>1, <4>1 DEF PutCommit, IdlePut
    <3>2. CASE Crash
      BY <2>1, <3>2 DEF PutCommit, Crash, Fault, LocalInv
    <3>3. CASE TimePasses \/ UNCHANGED serviceVars
      <4>1. put' = put /\ put \in [Uploads -> PutRecord]
        BY <3>3 DEF TimePasses, serviceVars, LocalInv
      <4> QED
        BY <2>1, <4>1 DEF PutCommit, IdlePut
    <3> QED
      BY <3>1, <3>2, <3>3
  <2> QED
    BY <2>1, ServiceUndisturbed
<1>7. ASSUME NEW w \in Sweepers
      PROVE  GoodBatch(w)'
  <2>1. CASE sweep'[w] = IdleSweep
    BY <2>1 DEF GoodBatch, IdleSweep
  <2>2. CASE sweep'[w] = sweep[w]
    <3>1. sweep[w].batch \subseteq Hashes
      BY DEF LocalInv, SweepRecord
    <3>2. /\ GoodBatch(w) /\ collided \subseteq collided'
          /\ \A h \in sweep[w].batch : h \in collided' \/ Undisturbed(h)
          /\ \A h \in sweep[w].batch : h \in stored' => h \in stored \cup collided'
      BY <1>1, <1>6, <3>1 DEF SafetyInv
    <3> QED
      BY <1>1, <2>2, <3>2, BatchKept
  <2> QED
    BY <1>2, <2>1, <2>2
<1>8. ReferencedBlocksStored'
  BY <1>1, <1>6, StillCovered DEF SafetyInv
<1> QED
  BY <1>4, <1>5, <1>7, <1>8 DEF SafetyInv

-----------------------------------------------------------------------------
(* The invariant of the whole service, and what follows from it. *)

ServiceInv == LocalInv /\ IInv /\ SafetyInv

\* With nothing stored and nobody running there is nothing to lose.
LEMMA ServiceInitInv == ServiceInit => ServiceInv
<1> SUFFICES ASSUME ServiceInit PROVE ServiceInv
  OBVIOUS
<1>1. /\ put = [u \in Uploads |-> IdlePut] /\ sweep = [w \in Sweepers |-> IdleSweep]
      /\ Init
  BY DEF ServiceInit
<1>2. /\ \A u \in Uploads : put[u].seen = {}
      /\ \A w \in Sweepers : /\ sweep[w].batch = {} /\ sweep[w].left = {}
                             /\ sweep[w].pc = "idle"
  BY <1>1 DEF IdlePut, IdleSweep
<1>3. SeenSafe /\ OverlapRecorded /\ \A w \in Sweepers : GoodBatch(w)
  BY <1>2 DEF SeenSafe, OverlapRecorded, Overlap, GoodBatch
<1>4. \A h \in Hashes : References(h) = {}
  BY <1>1 DEF Init, References, RowsNaming, Positions
<1> QED
  BY <1>3, <1>4, BaseInit DEF ServiceInv, SafetyInv, ReferencedBlocksStored

\* Every step of the service keeps its invariant.
LEMMA ServiceStepInv ==
  ASSUME ServiceInv, [ServiceNext]_serviceVars
  PROVE  ServiceInv'
<1>1. LocalInv /\ IInv /\ SafetyInv /\ LocalInv' /\ IInv'
  BY BaseStep DEF ServiceInv
<1>2. SafetyInv'
  BY <1>1, PutStepSafe, SweepStepSafe, OtherStepSafe DEF ServiceNext, SweepNext
<1> QED
  BY <1>1, <1>2 DEF ServiceInv

\* The invariant holds throughout.
THEOREM ServiceInvariance == ServiceSpec => []ServiceInv
BY ServiceInitInv, ServiceStepInv, PTL DEF ServiceSpec

\* A committed object loses a block only where an upload and a sweep had the
\* block in hand together.
THEOREM CommittedObjectsKeepTheirBlocks == ServiceSpec => []ReferencedBlocksStored
<1>1. ServiceInv => ReferencedBlocksStored
  BY DEF ServiceInv, SafetyInv
<1> QED
  BY <1>1, ServiceInvariance, PTL

\* Only a sweep removes blocks from the backend, and only blocks of its batch.
LEMMA RemovedByASweep ==
  ASSUME ServiceInv, ServiceNext, NEW h \in stored \ stored'
  PROVE  \E w \in Sweepers : sweep[w].pc = "delete" /\ h \in sweep[w].left
<1>1. CASE \E w \in Sweepers : SweepDelete(w)
  BY <1>1 DEF SweepDelete
<1>2. CASE \E u \in Uploads : PutNext(u)
  BY <1>2, PutEffect DEF ServiceInv
<1>3. CASE \E w \in Sweepers : SweepStart(w) \/ SweepList(w) \/ SweepForget(w)
                               \/ SweepDeleteFails(w) \/ SweepFails(w)
  BY <1>3 DEF SweepStart, SweepList, SweepForget, SweepDeleteFails, SweepFails
<1>4. CASE (\E k \in Keys : Delete(k)) \/ Crash \/ TimePasses
  BY <1>4 DEF Delete, Crash, TimePasses
<1> QED
  BY <1>1, <1>2, <1>3, <1>4 DEF ServiceNext, SweepProgress

\* Outside an overlap only old orphans are removed from the backend.
THEOREM SweepsRemoveOldOrphans == ServiceSpec => OnlyOldOrphansRemoved
<1>1. ASSUME ServiceInv, ServiceNext, NEW h \in stored \ stored', h \notin collided
      PROVE  refCount[h] = 0 /\ updatedAt[h] + MinOrphanAge <= clock
  <2>1. PICK w \in Sweepers : sweep[w].pc = "delete" /\ h \in sweep[w].left
    BY <1>1, RemovedByASweep
  <2>2. /\ References(h) = {} /\ updatedAt[h] <= sweep[w].cutoff
        /\ sweep[w].cutoff + MinOrphanAge <= clock
    BY <1>1, <2>1 DEF ServiceInv, SafetyInv, GoodBatch
  <2>3. /\ h \in Hashes /\ updatedAt[h] \in Nat /\ sweep[w].cutoff \in Int
        /\ MinOrphanAge \in Nat /\ clock \in Nat
    BY <1>1, ServiceAssumption
       DEF ServiceInv, LocalInv, SweepRecord, IInv, TypeOK, ServiceAssumption
  <2>4. refCount[h] = 0
    BY <1>1, <2>2, <2>3, ZeroIffUnnamed DEF ServiceInv
  <2> QED
    BY <2>2, <2>3, <2>4
<1>2. ServiceInv /\ [ServiceNext]_serviceVars =>
        [\A h \in stored \ stored' :
           \/ h \in collided
           \/ refCount[h] = 0 /\ updatedAt[h] + MinOrphanAge <= clock]_serviceVars
  BY <1>1
<1> QED
  BY <1>2, ServiceInvariance, PTL DEF ServiceSpec, OnlyOldOrphansRemoved

\* Only a sweep that is through with its batch drops rows of blocks.
LEMMA DroppedByASweep ==
  ASSUME ServiceInv, ServiceNext, NEW h \in blockRows \ blockRows'
  PROVE  \E w \in Sweepers : sweep[w].pc = "forget" /\ h \in sweep[w].batch
<1>1. CASE \E w \in Sweepers : SweepForget(w)
  BY <1>1 DEF SweepForget, ForgetBlocks, Forgotten
<1>2. CASE \E u \in Uploads : PutNext(u)
  BY <1>2 DEF PutNext, PutBegin, CreatePendingObject, PutRepeatedChunk, PutHasBlock,
              PutBlock, PutCommit, CommitObject, PutFail, storeVars, blockVars
<1>3. CASE \E w \in Sweepers : SweepStart(w) \/ SweepList(w) \/ SweepDelete(w)
                               \/ SweepDeleteFails(w) \/ SweepFails(w)
  BY <1>3 DEF SweepStart, SweepList, SweepDelete, SweepDeleteFails, SweepFails, storeVars,
              blockVars
<1>4. CASE (\E k \in Keys : Delete(k)) \/ Crash \/ TimePasses
  BY <1>4 DEF Delete, DeleteObject, Crash, TimePasses, Tick, storeVars, blockVars
<1> QED
  BY <1>1, <1>2, <1>3, <1>4 DEF ServiceNext, SweepProgress

\* Outside an overlap a row is forgotten only after its block is gone.
THEOREM RowsOutliveBlocks == ServiceSpec => ForgottenBlocksAreGone
<1>1. ASSUME ServiceInv, ServiceNext, NEW h \in blockRows \ blockRows', h \notin collided
      PROVE  h \notin stored
  <2>1. PICK w \in Sweepers : sweep[w].pc = "forget" /\ h \in sweep[w].batch
    BY <1>1, DroppedByASweep
  <2> QED
    BY <1>1, <2>1 DEF ServiceInv, SafetyInv, GoodBatch
<1>2. ServiceInv /\ [ServiceNext]_serviceVars =>
        [\A h \in blockRows \ blockRows' : h \notin stored \/ h \in collided]_serviceVars
  BY <1>1
<1> QED
  BY <1>2, ServiceInvariance, PTL DEF ServiceSpec, ForgottenBlocksAreGone

-----------------------------------------------------------------------------
(* MemoryStore.                                                            *)

(* The map of blocks and the columns of the table hold the same, and a     *)
(* block without a row is counted zero.                                    *)
SameCounts(map, rows, counts, times) ==
  /\ DOMAIN map = rows
  /\ \A h \in rows : map[h] = [count |-> counts[h], updatedAt |-> times[h]]
  /\ \A h \in Hashes \ rows : counts[h] = 0

MInv ==
  /\ objects \in [ObjectIds -> MemoryObjects]
  /\ index \in [Keys -> ObjectIds \cup {NoObject}]
  /\ IndexExact
  /\ SameObjects
  /\ SameCounts(blocks, blockRows, refCount, updatedAt)

-----------------------------------------------------------------------------
(* The helpers on counts. *)

\* incrementLocked does what Attach, Stamp and the inserted rows do.
LEMMA IncrementsAgree ==
  ASSUME NEW map, NEW rows \in SUBSET Hashes,
         NEW counts \in [Hashes -> Nat], NEW times \in [Hashes -> Nat],
         SameCounts(map, rows, counts, times), NEW chunks \in Seq(Hashes)
  PROVE  SameCounts(incrementLocked(map, chunks), rows \cup Mentioned(chunks),
                    Attach(counts, chunks), Stamp(times, chunks))
<1>1. Mentioned(chunks) \subseteq Hashes
  BY DEF Mentioned
<1>2. \A h \in Hashes :
        /\ Occurrences(chunks, h) \in Nat
        /\ h \notin Mentioned(chunks) => Occurrences(chunks, h) = 0
  BY OccurrencesType
<1>3. \A h \in Hashes : Ref(map, h).count = counts[h]
  BY DEF SameCounts, Ref
<1>4. \A h \in Mentioned(chunks) :
        /\ incrementLocked(map, chunks)[h]
             = [count |-> counts[h] + Occurrences(chunks, h), updatedAt |-> clock]
        /\ Attach(counts, chunks)[h] = counts[h] + Occurrences(chunks, h)
        /\ Stamp(times, chunks)[h] = clock
  BY <1>1, <1>3 DEF incrementLocked, Attach, Stamp
<1>5. \A h \in Hashes \ Mentioned(chunks) :
        /\ Attach(counts, chunks)[h] = counts[h]
        /\ Stamp(times, chunks)[h] = times[h]
  BY <1>2 DEF Attach, Stamp
<1>6. \A h \in rows \ Mentioned(chunks) : incrementLocked(map, chunks)[h] = map[h]
  BY DEF incrementLocked, SameCounts
<1>7. DOMAIN incrementLocked(map, chunks) = rows \cup Mentioned(chunks)
  BY DEF incrementLocked, SameCounts
<1> QED
  BY <1>4, <1>5, <1>6, <1>7 DEF SameCounts

\* decrementLocked does what Detach and Stamp do, if the blocks it is given
\* have rows: it would add an entry for a block that has none.
LEMMA DecrementsAgree ==
  ASSUME NEW map, NEW rows \in SUBSET Hashes,
         NEW counts \in [Hashes -> Nat], NEW times \in [Hashes -> Nat],
         SameCounts(map, rows, counts, times), NEW chunks \in Seq(Hashes),
         Mentioned(chunks) \subseteq rows
  PROVE  SameCounts(decrementLocked(map, chunks), rows,
                    Detach(counts, chunks), Stamp(times, chunks))
<1>2. \A h \in Hashes :
        /\ Occurrences(chunks, h) \in Nat
        /\ h \notin Mentioned(chunks) => Occurrences(chunks, h) = 0
  BY OccurrencesType
<1>3. \A h \in Hashes : Ref(map, h).count = counts[h]
  BY DEF SameCounts, Ref
<1>4. \A h \in Mentioned(chunks) :
        /\ decrementLocked(map, chunks)[h] = [count |-> Detach(counts, chunks)[h], updatedAt |-> clock]
        /\ Stamp(times, chunks)[h] = clock
  BY <1>3 DEF decrementLocked, Detach, Stamp
<1>5. \A h \in Hashes \ Mentioned(chunks) :
        /\ Detach(counts, chunks)[h] = counts[h]
        /\ Stamp(times, chunks)[h] = times[h]
  BY <1>2 DEF Detach, Stamp
<1>6. \A h \in rows \ Mentioned(chunks) : decrementLocked(map, chunks)[h] = map[h]
  BY DEF decrementLocked, SameCounts
<1>7. DOMAIN decrementLocked(map, chunks) = rows
  BY DEF decrementLocked, SameCounts
<1> QED
  BY <1>4, <1>5, <1>6, <1>7 DEF SameCounts

\* The blocks of an object have rows.
LEMMA ChunksHaveRows ==
  ASSUME IInv, NEW id \in ObjectIds
  PROVE  objectChunks[id] \in Seq(Hashes) /\ Mentioned(objectChunks[id]) \subseteq blockRows
<1>1. objectChunks \in ChunkTables /\ objectChunks[id] \in Seq(Hashes)
  BY DEF IInv, TypeOK, ChunkTables
<1>2. ASSUME NEW h \in Mentioned(objectChunks[id]) PROVE h \in blockRows
  <2>1. h \in Hashes
    BY <1>1 DEF Mentioned
  <2>2. References(h) # {}
    BY <1>1, <2>1, NamedIffMentioned DEF References
  <2> QED
    BY <2>1, <2>2 DEF IInv, ReferencedBlocksHaveRows
<1> QED
  BY <1>1, <1>2

\* The index leads to the object the committed row of a key stands for.
LEMMA IndexIsCommitted ==
  ASSUME MInv, IInv, NEW k \in Keys
  PROVE  /\ index[k] = NoObject => Committed(k) = {}
         /\ \A id \in Committed(k) : index[k] = id
         /\ index[k] # NoObject => index[k] \in Committed(k)
BY MemoryNothing DEF MInv, IndexExact, SameObjects, Committed, MemoryObjects

-----------------------------------------------------------------------------
(* The inductive invariant. *)

\* Two empty stores agree.
LEMMA MemoryInitInv == BothInit => MInv
<1> SUFFICES ASSUME BothInit PROVE MInv
  OBVIOUS
<1>1. objects \in [ObjectIds -> MemoryObjects]
  BY DEF BothInit, MemoryInit, MemoryObjects, ObjectStates
<1>2. index \in [Keys -> ObjectIds \cup {NoObject}] /\ IndexExact
  BY MemoryNothing DEF BothInit, MemoryInit, IndexExact
<1>3. SameObjects
  BY DEF BothInit, MemoryInit, Init, SameObjects
<1>4. SameCounts(blocks, blockRows, refCount, updatedAt)
  BY DEF BothInit, MemoryInit, Init, SameCounts
<1> QED
  BY <1>1, <1>2, <1>3, <1>4 DEF MInv

\* A commit keeps the stores in agreement.
LEMMA MemoryCommitInv ==
  ASSUME IInv, MInv, NEW id \in ObjectIds, NEW chunks \in Manifests, BothCommit(id, chunks)
  PROVE  MInv'
<1> DEFINE k == objects[id].key
<1>1. /\ k \in Keys /\ k = objectKey[id] /\ chunks \in Seq(Hashes)
      /\ objectState[id] = "pending" /\ objects[id].state = "pending"
      /\ index' = [index EXCEPT ![k] = id]
      /\ blockRows' = blockRows \cup Mentioned(chunks) /\ UNCHANGED <<objectKey, clock>>
  BY ManifestsAssumption
  DEF ManifestsAssumption, BothCommit, CommitObject, MemoryCommit, MInv, IInv, RowsWellFormed,
      SameObjects
<1>2. /\ blockRows \in SUBSET Hashes /\ refCount \in [Hashes -> Nat]
      /\ updatedAt \in [Hashes -> Nat] /\ clock \in Nat
      /\ objectState \in [ObjectIds -> ObjectStates]
      /\ objectChunks \in [ObjectIds -> Seq(Hashes)]
  BY DEF IInv, TypeOK
<1>3. CASE Committed(k) = {}
  <2>1. index[k] = NoObject
    BY <1>1, <1>3, IndexIsCommitted
  <2>2. CommitFirst(id, chunks) /\ MemoryCommitFirst(id, k, chunks)
    BY <1>1, <1>3, <2>1 DEF BothCommit, CommitObject, MemoryCommit, MemoryCommitOver
  <2>3. objects' = [objects EXCEPT ![id] = [state |-> "committed", key |-> k, chunks |-> chunks]]
    BY <2>2 DEF MemoryCommitFirst
  <2>4. objects' \in [ObjectIds -> MemoryObjects]
    BY <1>1, <2>3 DEF MInv, MemoryObjects, ObjectStates
  <2>5. IndexExact'
    BY <1>1, <2>1, <2>3, MemoryNothing DEF MInv, IndexExact, MemoryObjects
  <2>6. SameObjects'
    BY <1>1, <1>2, <2>2, <2>3 DEF MInv, SameObjects, CommitFirst, MemoryObjects
  <2>7. SameCounts(blocks', blockRows', refCount', updatedAt')
    BY <1>1, <1>2, <2>2, IncrementsAgree DEF MInv, CommitFirst, MemoryCommitFirst
  <2> QED
    BY <1>1, <2>4, <2>5, <2>6, <2>7 DEF MInv, SameCounts
<1>4. CASE Committed(k) # {}
  <2>1. PICK previous \in Committed(k) : CommitOver(id, previous, chunks)
    BY <1>1, <1>4 DEF BothCommit, CommitObject, CommitFirst
  <2>2. /\ index[k] = previous /\ previous \in ObjectIds /\ previous # NoObject
        /\ previous # id /\ objectState[previous] = "committed" /\ objectKey[previous] = k
    BY <1>1, <2>1, IndexIsCommitted, MemoryNothing DEF Committed
  <2>3. MemoryCommitOver(id, k, chunks)
    BY <1>1, <2>2 DEF BothCommit, MemoryCommit, MemoryCommitFirst
  <2>4. objects' = [objects EXCEPT ![previous].state = "deleted",
                      ![id] = [state |-> "committed", key |-> k, chunks |-> chunks]]
    BY <2>2, <2>3 DEF MemoryCommitOver
  <2>5. objects[previous].chunks = objectChunks[previous]
    BY <2>2 DEF MInv, SameObjects
  <2>6. objects' \in [ObjectIds -> MemoryObjects]
    <3>1. PICK a, b : /\ a = [objects[previous] EXCEPT !.state = "deleted"]
                      /\ b = [state |-> "committed", key |-> k, chunks |-> chunks]
      OBVIOUS
    <3>2. a \in MemoryObjects /\ b \in MemoryObjects
      BY <1>1, <2>2, <3>1 DEF MInv, MemoryObjects, ObjectStates
    <3>3. objects' = [objects EXCEPT ![previous] = a, ![id] = b]
      BY <2>4, <3>1
    <3> QED
      BY <3>2, <3>3 DEF MInv
  <2>7. IndexExact'
    <3> SUFFICES ASSUME NEW j \in Keys, NEW o \in ObjectIds
                 PROVE  index'[j] = o <=> objects'[o].state = "committed" /\ objects'[o].key = j
      BY DEF IndexExact
    <3>1. index[j] = o <=> objects[o].state = "committed" /\ objects[o].key = j
      BY DEF MInv, IndexExact
    <3>2. /\ index'[j] = IF j = k THEN id ELSE index[j]
          /\ objects'[o].state = IF o = id THEN "committed" ELSE IF o = previous THEN "deleted"
                                 ELSE objects[o].state
          /\ objects'[o].key = objects[o].key
      BY <1>1, <2>2, <2>4 DEF MInv, MemoryObjects
    <3>3. /\ index[k] = o <=> o = previous
          /\ objects[previous].key = k /\ objects[id].state = "pending" /\ objects[id].key = k
      BY <1>1, <2>2 DEF MInv, SameObjects
    <3> HIDE DEF k
    <3>4. previous # id
      BY <2>2
    <3>5. CASE j = k
      BY <3>1, <3>2, <3>3, <3>4, <3>5
    <3>6. CASE j # k
      BY <3>1, <3>2, <3>3, <3>4, <3>6
    <3> QED
      BY <3>5, <3>6
  <2>8. SameObjects'
    <3>1. /\ objectState' = [objectState EXCEPT ![previous] = "deleted", ![id] = "committed"]
          /\ objectChunks' = [objectChunks EXCEPT ![previous] = <<>>, ![id] = chunks]
      BY <2>1 DEF CommitOver
    <3> QED
      BY <1>1, <1>2, <2>2, <2>4, <3>1 DEF MInv, SameObjects, MemoryObjects
  <2>9. SameCounts(blocks', blockRows', refCount', updatedAt')
    <3> DEFINE old == objectChunks[previous]
    <3>1. old \in Seq(Hashes) /\ Mentioned(old) \subseteq blockRows
      BY <2>2, ChunksHaveRows
    <3>2. SameCounts(decrementLocked(blocks, old), blockRows,
                     Detach(refCount, old), Stamp(updatedAt, old))
      BY <1>2, <3>1, DecrementsAgree DEF MInv
    <3>3. Detach(refCount, old) \in [Hashes -> Nat] /\ Stamp(updatedAt, old) \in [Hashes -> Nat]
      BY <1>2, <3>1, CountersType
    <3>4. SameCounts(incrementLocked(decrementLocked(blocks, old), chunks),
                     blockRows \cup Mentioned(chunks),
                     Attach(Detach(refCount, old), chunks), Stamp(Stamp(updatedAt, old), chunks))
      BY <1>1, <1>2, <3>2, <3>3, IncrementsAgree
    <3> QED
      BY <1>1, <2>1, <2>2, <2>3, <2>5, <3>4 DEF CommitOver, MemoryCommitOver
  <2> QED
    BY <1>1, <2>6, <2>7, <2>8, <2>9 DEF MInv, SameCounts
<1> QED
  BY <1>3, <1>4

\* A delete keeps the stores in agreement.
LEMMA MemoryDeleteInv ==
  ASSUME IInv, MInv, NEW k \in Keys, BothDelete(k)
  PROVE  MInv'
<1>1. PICK id \in Committed(k) :
        /\ objectState' = [objectState EXCEPT ![id] = "deleted"]
        /\ objectChunks' = [objectChunks EXCEPT ![id] = <<>>]
        /\ refCount' = Detach(refCount, objectChunks[id])
        /\ updatedAt' = Stamp(updatedAt, objectChunks[id])
  BY DEF BothDelete, DeleteObject
<1>2. /\ index[k] = id /\ id \in ObjectIds /\ id # NoObject
      /\ objectState[id] = "committed" /\ objectKey[id] = k
  BY <1>1, IndexIsCommitted, MemoryNothing DEF Committed
<1>3. /\ objects' = [objects EXCEPT ![id].state = "deleted"]
      /\ blocks' = decrementLocked(blocks, objects[id].chunks)
      /\ index' = [index EXCEPT ![k] = NoObject]
      /\ UNCHANGED <<objectKey, blockRows>>
  BY <1>2 DEF BothDelete, DeleteObject, MemoryDelete
<1>4. /\ blockRows \in SUBSET Hashes /\ refCount \in [Hashes -> Nat]
      /\ updatedAt \in [Hashes -> Nat] /\ clock \in Nat
      /\ objectState \in [ObjectIds -> ObjectStates]
      /\ objectChunks \in [ObjectIds -> Seq(Hashes)]
  BY DEF IInv, TypeOK
<1>5. objects[id].chunks = objectChunks[id]
  BY <1>2 DEF MInv, SameObjects
<1>6. objects' \in [ObjectIds -> MemoryObjects] /\ index' \in [Keys -> ObjectIds \cup {NoObject}]
  BY <1>2, <1>3 DEF MInv, MemoryObjects, ObjectStates
<1>7. IndexExact'
  BY <1>2, <1>3, MemoryNothing DEF MInv, IndexExact, MemoryObjects, SameObjects
<1>8. SameObjects'
  BY <1>1, <1>2, <1>3, <1>4 DEF MInv, SameObjects, MemoryObjects
<1>9. SameCounts(blocks', blockRows', refCount', updatedAt')
  BY <1>1, <1>2, <1>3, <1>4, <1>5, ChunksHaveRows, DecrementsAgree DEF MInv
<1> QED
  BY <1>6, <1>7, <1>8, <1>9 DEF MInv, SameCounts

\* Every call keeps the stores in agreement.
LEMMA MemoryStepInv == IInv /\ MInv /\ [BothNext]_bothVars => MInv'
<1> SUFFICES ASSUME IInv, MInv, [BothNext]_bothVars PROVE MInv'
  OBVIOUS
<1>1. ASSUME NEW id \in ObjectIds, NEW k \in Keys, BothCreate(id, k) PROVE MInv'
  <2>1. /\ objects' = [objects EXCEPT ![id] = [state |-> "pending", key |-> k, chunks |-> <<>>]]
        /\ objects[id].state = "absent"
        /\ objectState' = [objectState EXCEPT ![id] = "pending"]
        /\ objectKey' = [objectKey EXCEPT ![id] = k]
        /\ UNCHANGED <<index, blocks, objectChunks, blockRows, refCount, updatedAt>>
    BY <1>1 DEF BothCreate, CreatePendingObject, MemoryCreate, blockVars
  <2>2. objects' \in [ObjectIds -> MemoryObjects]
    BY <2>1 DEF MInv, MemoryObjects, ObjectStates
  <2>3. IndexExact'
    BY <2>1, MemoryNothing DEF MInv, IndexExact, MemoryObjects
  <2>4. SameObjects'
    BY <2>1 DEF MInv, SameObjects, MemoryObjects, IInv, TypeOK
  <2> QED
    BY <2>1, <2>2, <2>3, <2>4 DEF MInv, SameCounts
<1>2. ASSUME NEW id \in ObjectIds, NEW chunks \in Manifests, BothCommit(id, chunks) PROVE MInv'
  BY <1>2, MemoryCommitInv
<1>3. ASSUME NEW k \in Keys, BothDelete(k) PROVE MInv'
  BY <1>3, MemoryDeleteInv
<1>4. ASSUME NEW hashes \in SUBSET Hashes, BothForget(hashes) PROVE MInv'
  <2>1. /\ UNCHANGED <<objects, index, objectState, objectKey, objectChunks, refCount>>
        /\ blockRows' = blockRows \ Forgotten(hashes)
        /\ updatedAt' = [h \in Hashes |-> IF h \in Forgotten(hashes) THEN 0 ELSE updatedAt[h]]
        /\ blocks' = [h \in DOMAIN blocks \ {g \in hashes : Ref(blocks, g).count = 0} |-> blocks[h]]
    BY <1>4 DEF BothForget, ForgetBlocks, MemoryForget, objectVars
  <2>2. \A h \in Hashes : Ref(blocks, h).count = refCount[h]
    BY DEF MInv, SameCounts, Ref
  <2>3. {g \in hashes : Ref(blocks, g).count = 0} = Forgotten(hashes)
    BY <2>2 DEF Forgotten
  <2>4. Forgotten(hashes) \subseteq Hashes /\ \A h \in Forgotten(hashes) : refCount[h] = 0
    BY DEF Forgotten
  <2>5. blockRows \subseteq Hashes
    BY DEF IInv, TypeOK
  <2>6. SameCounts(blocks', blockRows', refCount', updatedAt')
    BY <2>1, <2>3, <2>4, <2>5 DEF MInv, SameCounts
  <2>7. IndexExact' /\ SameObjects'
    BY <2>1 DEF MInv, IndexExact, SameObjects
  <2> QED
    BY <2>1, <2>6, <2>7 DEF MInv, SameCounts
<1>5. CASE UNCHANGED bothVars \/ (Tick /\ UNCHANGED memoryVars)
  BY <1>5 DEF bothVars, storeVars, objectVars, blockVars, memoryVars, Tick,
              MInv, IndexExact, SameObjects, SameCounts
<1> QED
  BY <1>1, <1>2, <1>3, <1>4, <1>5 DEF BothNext

-----------------------------------------------------------------------------
\* A call of both stores is a step of the SQLite store.
LEMMA BothIsStore == BothSpec => Spec
<1>1. BothInit => Init
  BY DEF BothInit
<1>2. [BothNext]_bothVars => [Next]_storeVars
  BY DEF BothNext, Next, bothVars, BothCreate, BothCommit, BothDelete, BothForget
<1> QED
  BY <1>1, <1>2, PTL DEF BothSpec, Spec

\* The invariants of both stores hold of the two together.
THEOREM MemoryInvariance == BothSpec => [](IInv /\ MInv)
<1>1. BothSpec => []IInv
  BY BothIsStore, Invariance, PTL
<1> QED
  BY <1>1, MemoryInitInv, MemoryStepInv, PTL DEF BothSpec

\* The counts, states and chunk lists of the store keep their types.
THEOREM MemoryTypeCorrect == BothSpec => []MemoryTypeOK
<1>1. IInv /\ MInv => MemoryTypeOK
  BY DEF IInv, TypeOK, MInv, MemoryTypeOK, SameCounts
<1> QED
  BY <1>1, MemoryInvariance, PTL

\* The index names exactly the committed object of each key, however commits,
\* overwrites and deletes alternate.
THEOREM IndexIsExact == BothSpec => []IndexExact
<1>1. MInv => IndexExact
  BY DEF MInv
<1> QED
  BY <1>1, MemoryInvariance, PTL

\* The store of the tests and the SQLite store hold the same after the same
\* calls.
THEOREM TheStoresAgree == BothSpec => []StoresAgree
<1>1. MInv => StoresAgree
  BY DEF MInv, StoresAgree, SameBlocks, SameCounts
<1> QED
  BY <1>1, MemoryInvariance, PTL

=============================================================================
