------------------------- MODULE MetadataStoreProofs -------------------------
(***************************************************************************)
(* Proofs about MetadataStore, for every set of object ids, keys, hashes   *)
(* and manifests and every bound on the clock: reference counts are exact, *)
(* a key has at most one committed object, and the store implements the    *)
(* abstract map of ObjectMap.                                              *)
(***************************************************************************)
EXTENDS MetadataStore, FiniteSetTheorems, TLAPS

-----------------------------------------------------------------------------
(* Lists of chunks and the rows they become. *)

\* The positions of a block in a manifest are a finite set, so counting them
\* gives a natural number, zero exactly when the manifest does not name it.
LEMMA OccurrencesType ==
  ASSUME NEW chunks \in Seq(Hashes), NEW h \in Hashes
  PROVE  /\ IsFiniteSet(Positions(chunks, h))
         /\ Occurrences(chunks, h) \in Nat
         /\ Occurrences(chunks, h) = 0 <=> h \notin Mentioned(chunks)
<1>1. IsFiniteSet(1 .. Len(chunks))
  BY FS_Interval
<1>2. Positions(chunks, h) \in SUBSET (1 .. Len(chunks))
  BY DEF Positions
<1>3. IsFiniteSet(Positions(chunks, h))
  BY <1>1, <1>2, FS_Subset
<1>4. Occurrences(chunks, h) \in Nat
  BY <1>3, FS_CardinalityType DEF Occurrences
<1>5. Occurrences(chunks, h) = 0 <=> Positions(chunks, h) = {}
  BY <1>3, FS_EmptySet DEF Occurrences
<1>6. Positions(chunks, h) = {} <=> h \notin Mentioned(chunks)
  BY DEF Positions, Mentioned
<1> QED
  BY <1>3, <1>4, <1>5, <1>6

\* The rows that inserting a manifest adds for a block are as many as its
\* occurrences there.
LEMMA RowsOfManifest ==
  ASSUME NEW chunks \in Seq(Hashes), NEW h \in Hashes, NEW id
  PROVE  /\ IsFiniteSet({id} \X Positions(chunks, h))
         /\ Cardinality({id} \X Positions(chunks, h)) = Occurrences(chunks, h)
<1>1. IsFiniteSet({id}) /\ Cardinality({id}) = 1
  BY FS_Singleton
<1>2. IsFiniteSet(Positions(chunks, h)) /\ Occurrences(chunks, h) \in Nat
  BY OccurrencesType
<1>3. /\ IsFiniteSet({id} \X Positions(chunks, h))
      /\ Cardinality({id} \X Positions(chunks, h))
           = Cardinality({id}) * Cardinality(Positions(chunks, h))
  BY <1>1, <1>2, FS_Product
<1> QED
  BY <1>1, <1>2, <1>3 DEF Occurrences

ChunkTables == [ObjectIds -> Seq(Hashes)]

\* Attaching a manifest to an object without rows adds its occurrences of
\* each block to the number of rows that name the block.
LEMMA AttachRows ==
  ASSUME NEW table \in ChunkTables, NEW id \in ObjectIds, table[id] = <<>>,
         NEW chunks \in Seq(Hashes), NEW h \in Hashes,
         IsFiniteSet(RowsNaming(table, h))
  PROVE  LET after == [table EXCEPT ![id] = chunks]
         IN  /\ IsFiniteSet(RowsNaming(after, h))
             /\ Cardinality(RowsNaming(after, h))
                  = Cardinality(RowsNaming(table, h)) + Occurrences(chunks, h)
<1> DEFINE after == [table EXCEPT ![id] = chunks]
           added == {id} \X Positions(chunks, h)
<1>1. after \in ChunkTables /\ after[id] = chunks
      /\ \A other \in ObjectIds \ {id} : after[other] = table[other]
  BY DEF ChunkTables
<1>2. Positions(table[id], h) = {}
  BY DEF Positions
<1>3. RowsNaming(after, h) = RowsNaming(table, h) \cup added
  BY <1>1, <1>2 DEF RowsNaming
<1>4. RowsNaming(table, h) \cap added = {}
  BY <1>2 DEF RowsNaming
<1>5. IsFiniteSet(added) /\ Cardinality(added) = Occurrences(chunks, h)
  BY RowsOfManifest
<1>6. /\ IsFiniteSet(RowsNaming(table, h) \cup added)
      /\ Cardinality(RowsNaming(table, h) \cup added)
           = Cardinality(RowsNaming(table, h)) + Cardinality(added)
             - Cardinality(RowsNaming(table, h) \cap added)
  <2> HIDE DEF added
  <2> QED
    BY <1>5, FS_Union
<1>7. Cardinality(RowsNaming(table, h)) \in Nat /\ Occurrences(chunks, h) \in Nat
  BY FS_CardinalityType, OccurrencesType
<1> QED
  <2>1. Cardinality(RowsNaming(after, h))
          = Cardinality(RowsNaming(table, h)) + Cardinality(added) - Cardinality({})
    BY <1>3, <1>4, <1>6
  <2>2. Cardinality({}) = 0
    BY FS_EmptySet
  <2>3. IsFiniteSet(RowsNaming(after, h))
    BY <1>3, <1>6
  <2>4. Cardinality(RowsNaming(after, h))
          = Cardinality(RowsNaming(table, h)) + Occurrences(chunks, h)
    BY <2>1, <2>2, <1>5, <1>7
  <2> QED
    BY <2>3, <2>4

\* Removing the rows of an object takes its occurrences of each block off the
\* number of rows that name the block, which never falls below zero.
LEMMA DetachRows ==
  ASSUME NEW table \in ChunkTables, NEW id \in ObjectIds, NEW h \in Hashes,
         IsFiniteSet(RowsNaming(table, h))
  PROVE  LET after == [table EXCEPT ![id] = <<>>]
         IN  /\ after \in ChunkTables
             /\ IsFiniteSet(RowsNaming(after, h))
             /\ Occurrences(table[id], h) <= Cardinality(RowsNaming(table, h))
             /\ Cardinality(RowsNaming(after, h))
                  = Cardinality(RowsNaming(table, h)) - Occurrences(table[id], h)
<1> DEFINE after == [table EXCEPT ![id] = <<>>]
           removed == {id} \X Positions(table[id], h)
<1>1. table[id] \in Seq(Hashes)
  BY DEF ChunkTables
<1>2. after \in ChunkTables /\ after[id] = <<>>
      /\ \A other \in ObjectIds \ {id} : after[other] = table[other]
  BY DEF ChunkTables
<1>3. Positions(after[id], h) = {}
  BY <1>2 DEF Positions
<1>4. removed \in SUBSET RowsNaming(table, h)
  BY DEF RowsNaming
<1>5. RowsNaming(after, h) = RowsNaming(table, h) \ removed
  BY <1>2, <1>3 DEF RowsNaming
<1>6. RowsNaming(table, h) \cap removed = removed
  BY <1>4
<1>7. Cardinality(removed) = Occurrences(table[id], h)
  BY <1>1, RowsOfManifest
<1>8. Cardinality(removed) <= Cardinality(RowsNaming(table, h))
  BY <1>4, FS_Subset
<1>9. /\ IsFiniteSet(RowsNaming(table, h) \ removed)
      /\ Cardinality(RowsNaming(table, h) \ removed)
           = Cardinality(RowsNaming(table, h)) - Cardinality(RowsNaming(table, h) \cap removed)
  <2> HIDE DEF removed
  <2> QED
    BY FS_Difference
<1> QED
  BY <1>2, <1>5, <1>6, <1>7, <1>8, <1>9

\* A block is named by some row exactly when some object's manifest mentions
\* it.
LEMMA NamedIffMentioned ==
  ASSUME NEW table \in ChunkTables, NEW h \in Hashes
  PROVE  RowsNaming(table, h) # {} <=> \E id \in ObjectIds : h \in Mentioned(table[id])
<1>1. ASSUME RowsNaming(table, h) # {}
      PROVE  \E id \in ObjectIds : h \in Mentioned(table[id])
  <2>1. PICK id \in ObjectIds : {id} \X Positions(table[id], h) # {}
    BY <1>1 DEF RowsNaming
  <2>2. PICK i \in DOMAIN table[id] : table[id][i] = h
    BY <2>1 DEF Positions
  <2> QED
    BY <2>2 DEF Mentioned
<1>2. ASSUME NEW id \in ObjectIds, h \in Mentioned(table[id])
      PROVE  RowsNaming(table, h) # {}
  <2>1. PICK i \in DOMAIN table[id] : table[id][i] = h
    BY <1>2 DEF Mentioned
  <2>2. <<id, i>> \in {id} \X Positions(table[id], h)
    BY <2>1 DEF Positions
  <2> QED
    BY <2>2 DEF RowsNaming
<1> QED
  BY <1>1, <1>2

\* Attach and Detach keep reference counts natural numbers, and Stamp keeps
\* timestamps natural numbers.
LEMMA CountersType ==
  ASSUME NEW counts \in [Hashes -> Nat], NEW chunks \in Seq(Hashes), clock \in Nat
  PROVE  /\ Attach(counts, chunks) \in [Hashes -> Nat]
         /\ Detach(counts, chunks) \in [Hashes -> Nat]
         /\ Stamp(counts, chunks) \in [Hashes -> Nat]
<1>1. \A h \in Hashes : Occurrences(chunks, h) \in Nat
  BY OccurrencesType
<1>2. Attach(counts, chunks) \in [Hashes -> Nat]
  BY <1>1 DEF Attach
<1>3. Detach(counts, chunks) \in [Hashes -> Nat]
  BY <1>1 DEF Detach
<1>4. Stamp(counts, chunks) \in [Hashes -> Nat]
  BY DEF Stamp
<1> QED
  BY <1>2, <1>3, <1>4

-----------------------------------------------------------------------------
(* The inductive invariant: the reference counts cannot be proved exact    *)
(* without knowing that a pending object has no rows yet (otherwise the    *)
(* rows a commit inserts would not all be new), and the rows of blocks     *)
(* cannot be proved safe from ForgetBlocks without exact counts.           *)

Counted(counts, table) ==
  \A h \in Hashes : /\ IsFiniteSet(RowsNaming(table, h))
                   /\ counts[h] = Cardinality(RowsNaming(table, h))

\* Attaching a manifest to an object without rows keeps the counts exact.
LEMMA AttachKeepsCount ==
  ASSUME NEW counts \in [Hashes -> Nat], NEW table \in ChunkTables,
         Counted(counts, table),
         NEW id \in ObjectIds, table[id] = <<>>, NEW chunks \in Seq(Hashes)
  PROVE  Counted(Attach(counts, chunks), [table EXCEPT ![id] = chunks])
<1> SUFFICES ASSUME NEW h \in Hashes
             PROVE  /\ IsFiniteSet(RowsNaming([table EXCEPT ![id] = chunks], h))
                    /\ Attach(counts, chunks)[h]
                         = Cardinality(RowsNaming([table EXCEPT ![id] = chunks], h))
  BY DEF Counted
<1>1. /\ IsFiniteSet(RowsNaming(table, h))
      /\ counts[h] = Cardinality(RowsNaming(table, h))
  BY DEF Counted
<1>2. Attach(counts, chunks)[h] = counts[h] + Occurrences(chunks, h)
  BY DEF Attach
<1> QED
  BY <1>1, <1>2, AttachRows

\* Removing the rows of an object keeps the counts exact, and the floor of
\* detachObjectChunks at zero is never what decides the new count.
LEMMA DetachKeepsCount ==
  ASSUME NEW counts \in [Hashes -> Nat], NEW table \in ChunkTables,
         Counted(counts, table), NEW id \in ObjectIds
  PROVE  Counted(Detach(counts, table[id]), [table EXCEPT ![id] = <<>>])
<1> SUFFICES ASSUME NEW h \in Hashes
             PROVE  /\ IsFiniteSet(RowsNaming([table EXCEPT ![id] = <<>>], h))
                    /\ Detach(counts, table[id])[h]
                         = Cardinality(RowsNaming([table EXCEPT ![id] = <<>>], h))
  BY DEF Counted
<1>1. /\ IsFiniteSet(RowsNaming(table, h))
      /\ counts[h] = Cardinality(RowsNaming(table, h))
  BY DEF Counted
<1>2. Detach(counts, table[id])[h]
        = IF counts[h] >= Occurrences(table[id], h)
          THEN counts[h] - Occurrences(table[id], h) ELSE 0
  BY DEF Detach
<1>3. Occurrences(table[id], h) <= counts[h]
  BY <1>1, DetachRows
<1>4. Occurrences(table[id], h) \in Nat /\ counts[h] \in Nat
  BY OccurrencesType DEF ChunkTables
<1>5. Detach(counts, table[id])[h] = counts[h] - Occurrences(table[id], h)
  BY <1>2, <1>3, <1>4
<1> QED
  BY <1>1, <1>5, DetachRows

(* A row has a key, and a committed row the manifest of some caller. *)
RowsWellFormed ==
  \A id \in ObjectIds :
    /\ objectState[id] # "absent" => objectKey[id] \in Keys
    /\ objectState[id] = "committed" => objectChunks[id] \in Manifests

IInv ==
  /\ TypeOK
  /\ RowsWellFormed
  /\ OnlyCommittedHaveChunks
  /\ OneCommittedPerKey
  /\ Counted(refCount, objectChunks)
  /\ ReferencedBlocksHaveRows

\* The empty tables satisfy the invariant.
LEMMA InitInv == Init => IInv
<1> SUFFICES ASSUME Init PROVE IInv
  OBVIOUS
<1>1. TypeOK
  BY MaxClockAssumption DEF Init, TypeOK, ObjectStates
<1>2. RowsWellFormed /\ OnlyCommittedHaveChunks /\ OneCommittedPerKey
  BY DEF Init, RowsWellFormed, OnlyCommittedHaveChunks, OneCommittedPerKey, Committed
<1>3. \A h \in Hashes : RowsNaming(objectChunks, h) = {}
  BY DEF Init, RowsNaming, Positions
<1>4. Counted(refCount, objectChunks)
  BY <1>3, FS_EmptySet DEF Init, Counted
<1>5. ReferencedBlocksHaveRows
  BY <1>3 DEF ReferencedBlocksHaveRows, References
<1> QED
  BY <1>1, <1>2, <1>4, <1>5 DEF IInv

\* Inserting a pending row touches neither chunk rows nor blocks.
LEMMA CreateInv ==
  ASSUME IInv, NEW id \in ObjectIds, NEW k \in Keys, CreatePendingObject(id, k)
  PROVE  IInv'
<1> USE DEF IInv
<1>1. TypeOK'
  BY DEF CreatePendingObject, TypeOK, blockVars, ObjectStates
<1>2. RowsWellFormed' /\ OnlyCommittedHaveChunks'
  BY DEF CreatePendingObject, RowsWellFormed, OnlyCommittedHaveChunks, TypeOK
<1>3. OneCommittedPerKey'
  BY DEF CreatePendingObject, OneCommittedPerKey, Committed, TypeOK
<1>4. Counted(refCount, objectChunks)'
  BY DEF CreatePendingObject, Counted, RowsNaming, Positions, blockVars
<1>5. ReferencedBlocksHaveRows'
  BY DEF CreatePendingObject, ReferencedBlocksHaveRows, References, RowsNaming,
         Positions, blockVars
<1> QED
  BY <1>1, <1>2, <1>3, <1>4, <1>5

\* A first commit of a key gives the pending object its rows and counts them.
LEMMA CommitFirstInv ==
  ASSUME IInv, NEW id \in ObjectIds, NEW chunks \in Manifests,
         CommitObject(id, chunks), CommitFirst(id, chunks)
  PROVE  IInv'
<1> USE DEF IInv
<1>1. chunks \in Seq(Hashes)
  BY ManifestsAssumption DEF ManifestsAssumption
<1>2. /\ objectState[id] = "pending"
      /\ Committed(objectKey[id]) = {}
      /\ objectState' = [objectState EXCEPT ![id] = "committed"]
      /\ objectChunks' = [objectChunks EXCEPT ![id] = chunks]
      /\ refCount' = Attach(refCount, chunks)
      /\ updatedAt' = Stamp(updatedAt, chunks)
      /\ blockRows' = blockRows \cup Mentioned(chunks)
      /\ objectKey' = objectKey /\ clock' = clock
  BY DEF CommitObject, CommitFirst
<1>3. TypeOK'
  <2>1. Mentioned(chunks) \subseteq Hashes
    BY <1>1 DEF Mentioned
  <2> QED
    BY <1>1, <1>2, <2>1, CountersType DEF TypeOK, ObjectStates
<1>4. RowsWellFormed' /\ OnlyCommittedHaveChunks'
  BY <1>2 DEF RowsWellFormed, OnlyCommittedHaveChunks, TypeOK
<1>5. OneCommittedPerKey'
  BY <1>2 DEF OneCommittedPerKey, Committed, TypeOK
<1>6. Counted(refCount, objectChunks)'
  <2>1. objectChunks \in ChunkTables /\ objectChunks[id] = <<>>
        /\ refCount \in [Hashes -> Nat]
    BY <1>2 DEF OnlyCommittedHaveChunks, TypeOK, ChunkTables
  <2>2. Counted(Attach(refCount, chunks), [objectChunks EXCEPT ![id] = chunks])
    BY <2>1, <1>1, AttachKeepsCount
  <2> QED
    BY <2>2, <1>2 DEF Counted
<1>7. ReferencedBlocksHaveRows'
  BY <1>1, <1>2, <1>3, NamedIffMentioned
     DEF ReferencedBlocksHaveRows, References, TypeOK, ChunkTables
<1> QED
  BY <1>3, <1>4, <1>5, <1>6, <1>7

\* An overwrite retires the committed object of the key: its rows are removed
\* and uncounted before the rows of the new manifest are inserted.
LEMMA CommitOverInv ==
  ASSUME IInv, NEW id \in ObjectIds, NEW chunks \in Manifests, CommitObject(id, chunks),
         NEW previous \in Committed(objectKey[id]), CommitOver(id, previous, chunks)
  PROVE  IInv'
<1> USE DEF IInv
<1> DEFINE detached == [objectChunks EXCEPT ![previous] = <<>>]
<1>1. chunks \in Seq(Hashes)
  BY ManifestsAssumption DEF ManifestsAssumption
<1>2. /\ objectState[id] = "pending"
      /\ objectState' = [objectState EXCEPT ![previous] = "deleted", ![id] = "committed"]
      /\ objectChunks' = [objectChunks EXCEPT ![previous] = <<>>, ![id] = chunks]
      /\ refCount' = Attach(Detach(refCount, objectChunks[previous]), chunks)
      /\ updatedAt' = Stamp(Stamp(updatedAt, objectChunks[previous]), chunks)
      /\ blockRows' = blockRows \cup Mentioned(chunks)
      /\ objectKey' = objectKey /\ clock' = clock
  BY DEF CommitObject, CommitOver
<1>3. /\ previous \in ObjectIds /\ previous # id
      /\ objectKey[previous] = objectKey[id]
      /\ objectChunks[previous] \in Seq(Hashes)
  BY <1>2 DEF Committed, TypeOK
<1>4. /\ Detach(refCount, objectChunks[previous]) \in [Hashes -> Nat]
      /\ Stamp(updatedAt, objectChunks[previous]) \in [Hashes -> Nat]
  BY <1>3, CountersType DEF TypeOK
<1>5. /\ detached \in ChunkTables
      /\ detached[id] = <<>>
      /\ objectChunks' = [detached EXCEPT ![id] = chunks]
  BY <1>2, <1>3 DEF OnlyCommittedHaveChunks, TypeOK, ChunkTables
<1>6. /\ objectState' \in [ObjectIds -> ObjectStates]
      /\ objectChunks' \in ChunkTables
      /\ \A other \in ObjectIds :
           /\ objectState'[other] = IF other = id THEN "committed"
                                    ELSE IF other = previous THEN "deleted"
                                    ELSE objectState[other]
           /\ objectChunks'[other] = IF other = id THEN chunks
                                     ELSE IF other = previous THEN <<>>
                                     ELSE objectChunks[other]
  <2>1. objectChunks' \in ChunkTables
    BY <1>1, <1>5 DEF ChunkTables
  <2>2. objectState' \in [ObjectIds -> ObjectStates]
    BY <1>2 DEF TypeOK, ObjectStates
  <2> QED
    BY <2>1, <2>2, <1>2, <1>3 DEF TypeOK, ChunkTables
<1>7. TypeOK'
  <2>1. Mentioned(chunks) \subseteq Hashes
    BY <1>1 DEF Mentioned
  <2>2. /\ refCount' \in [Hashes -> Nat]
        /\ updatedAt' \in [Hashes -> Nat]
    BY <1>1, <1>2, <1>4, CountersType DEF TypeOK
  <2> QED
    BY <1>2, <1>6, <2>1, <2>2 DEF TypeOK, ChunkTables
<1>8. RowsWellFormed' /\ OnlyCommittedHaveChunks' /\ OneCommittedPerKey'
  <2>1. RowsWellFormed' /\ OnlyCommittedHaveChunks'
    BY <1>2, <1>3, <1>6 DEF RowsWellFormed, OnlyCommittedHaveChunks, Committed
  <2>2. OneCommittedPerKey'
    <3> SUFFICES ASSUME NEW k \in Keys,
                        NEW one \in Committed(k)', NEW two \in Committed(k)'
                 PROVE  one = two
      BY DEF OneCommittedPerKey
    <3>1. /\ one = id \/ (one \in Committed(k) /\ one # previous)
          /\ two = id \/ (two \in Committed(k) /\ two # previous)
      BY <1>2, <1>3, <1>6 DEF Committed
    <3>2. (one = id \/ two = id) => objectKey[id] = k
      BY <1>2 DEF Committed
    <3>3. objectKey[id] = k => Committed(k) \subseteq {previous}
      BY <1>3 DEF OneCommittedPerKey
    <3> QED
      BY <3>1, <3>2, <3>3 DEF OneCommittedPerKey
  <2> QED
    BY <2>1, <2>2
<1>9. Counted(refCount, objectChunks)'
  <2>1. Counted(Detach(refCount, objectChunks[previous]), detached)
    BY <1>3, DetachKeepsCount DEF TypeOK, ChunkTables
  <2>2. Counted(Attach(Detach(refCount, objectChunks[previous]), chunks),
                [detached EXCEPT ![id] = chunks])
    BY <2>1, <1>1, <1>4, <1>5, AttachKeepsCount
  <2> QED
    BY <2>2, <1>2, <1>5 DEF Counted
<1>10. ReferencedBlocksHaveRows'
  <2> SUFFICES ASSUME NEW h \in Hashes, References(h)' # {}
               PROVE  h \in blockRows'
    BY DEF ReferencedBlocksHaveRows
  <2>1. PICK other \in ObjectIds : h \in Mentioned(objectChunks'[other])
    BY <1>6, NamedIffMentioned DEF References
  <2>2. CASE other = id
    BY <1>2, <1>6, <2>1, <2>2
  <2>3. CASE other # id
    <3>1. h \in Mentioned(objectChunks[other])
      BY <1>6, <2>1, <2>3 DEF Mentioned
    <3> QED
      BY <3>1, <1>2, NamedIffMentioned
         DEF ReferencedBlocksHaveRows, References, TypeOK, ChunkTables
  <2> QED
    BY <2>2, <2>3
<1> QED
  BY <1>7, <1>8, <1>9, <1>10

\* Deleting an object removes and uncounts its rows.
LEMMA DeleteInv ==
  ASSUME IInv, NEW k \in Keys, DeleteObject(k)
  PROVE  IInv'
<1> USE DEF IInv
<1>1. PICK id \in Committed(k) :
        /\ objectState' = [objectState EXCEPT ![id] = "deleted"]
        /\ objectChunks' = [objectChunks EXCEPT ![id] = <<>>]
        /\ refCount' = Detach(refCount, objectChunks[id])
        /\ updatedAt' = Stamp(updatedAt, objectChunks[id])
  BY DEF DeleteObject
<1>2. objectKey' = objectKey /\ blockRows' = blockRows /\ clock' = clock
  BY DEF DeleteObject
<1>3. id \in ObjectIds /\ objectChunks \in ChunkTables /\ objectChunks[id] \in Seq(Hashes)
  BY DEF Committed, TypeOK, ChunkTables
<1>4. Counted(refCount, objectChunks)' /\ objectChunks' \in ChunkTables
  <2>1. Counted(Detach(refCount, objectChunks[id]), [objectChunks EXCEPT ![id] = <<>>])
    BY <1>3, DetachKeepsCount DEF TypeOK
  <2>2. objectChunks' \in ChunkTables
    BY <1>1, <1>3 DEF ChunkTables
  <2> QED
    BY <2>1, <2>2, <1>1 DEF Counted
<1>5. TypeOK'
  <2>1. refCount' \in [Hashes -> Nat] /\ updatedAt' \in [Hashes -> Nat]
    BY <1>1, <1>3, CountersType DEF TypeOK
  <2> QED
    BY <1>1, <1>2, <1>4, <2>1 DEF TypeOK, ChunkTables, ObjectStates
<1>6. RowsWellFormed' /\ OnlyCommittedHaveChunks'
  BY <1>1, <1>2, <1>3
     DEF RowsWellFormed, OnlyCommittedHaveChunks, Committed, TypeOK, ChunkTables
<1>7. OneCommittedPerKey'
  BY <1>1, <1>2, <1>3 DEF OneCommittedPerKey, Committed, TypeOK
<1>8. ReferencedBlocksHaveRows'
  <2> SUFFICES ASSUME NEW h \in Hashes, References(h)' # {}
               PROVE  h \in blockRows'
    BY DEF ReferencedBlocksHaveRows
  <2>1. PICK other \in ObjectIds : h \in Mentioned(objectChunks'[other])
    BY <1>4, NamedIffMentioned DEF References
  <2>2. other # id
    BY <1>1, <1>3, <2>1 DEF Mentioned, ChunkTables
  <2>3. h \in Mentioned(objectChunks[other])
    BY <1>1, <1>3, <2>1, <2>2 DEF ChunkTables
  <2> QED
    BY <2>3, <1>2, <1>3, NamedIffMentioned DEF ReferencedBlocksHaveRows, References
<1> QED
  BY <1>4, <1>5, <1>6, <1>7, <1>8

\* ForgetBlocks removes rows counted zero: by exactness no chunk row names
\* them.
LEMMA ForgetInv ==
  ASSUME IInv, NEW hashes \in SUBSET Hashes, ForgetBlocks(hashes)
  PROVE  IInv'
<1> USE DEF IInv
<1>1. /\ objectState' = objectState /\ objectKey' = objectKey
      /\ objectChunks' = objectChunks /\ refCount' = refCount /\ clock' = clock
      /\ blockRows' = blockRows \ Forgotten(hashes)
  BY DEF ForgetBlocks, objectVars
<1>2. TypeOK'
  BY <1>1 DEF ForgetBlocks, TypeOK
<1>3. /\ RowsWellFormed' /\ OnlyCommittedHaveChunks'
      /\ OneCommittedPerKey' /\ Counted(refCount, objectChunks)'
  BY <1>1 DEF RowsWellFormed, OnlyCommittedHaveChunks, OneCommittedPerKey, Committed,
              Counted, RowsNaming, Positions
<1>4. \A h \in Forgotten(hashes) : References(h) = {}
  <2> SUFFICES ASSUME NEW h \in Forgotten(hashes)
               PROVE  References(h) = {}
    OBVIOUS
  <2>1. h \in Hashes /\ Cardinality(References(h)) = 0 /\ IsFiniteSet(References(h))
    BY DEF Forgotten, Counted, References
  <2> QED
    BY <2>1, FS_EmptySet
<1>5. ReferencedBlocksHaveRows'
  BY <1>1, <1>4 DEF ReferencedBlocksHaveRows, References, RowsNaming, Positions
<1> QED
  BY <1>2, <1>3, <1>5

\* Time passing and stuttering leave the tables alone.
LEMMA QuietInv ==
  ASSUME IInv, Tick \/ UNCHANGED storeVars
  PROVE  IInv'
<1> USE DEF IInv
<1>1. /\ objectState' = objectState /\ objectKey' = objectKey
      /\ objectChunks' = objectChunks /\ refCount' = refCount
      /\ blockRows' = blockRows /\ updatedAt' = updatedAt
  BY DEF Tick, storeVars, objectVars, blockVars
<1>2. TypeOK'
  BY <1>1 DEF TypeOK, Tick, storeVars
<1>3. /\ RowsWellFormed' /\ OnlyCommittedHaveChunks'
      /\ OneCommittedPerKey' /\ Counted(refCount, objectChunks)'
  BY <1>1 DEF RowsWellFormed, OnlyCommittedHaveChunks, OneCommittedPerKey, Committed,
              Counted, RowsNaming, Positions
<1>4. ReferencedBlocksHaveRows'
  BY <1>1 DEF ReferencedBlocksHaveRows, References, RowsNaming, Positions
<1> QED
  BY <1>2, <1>3, <1>4

\* Every step preserves the invariant.
LEMMA StepInv ==
  ASSUME IInv, [Next]_storeVars
  PROVE  IInv'
<1>1. CASE \E id \in ObjectIds, k \in Keys : CreatePendingObject(id, k)
  BY <1>1, CreateInv
<1>2. CASE \E id \in ObjectIds, chunks \in Manifests : CommitObject(id, chunks)
  <2>1. PICK id \in ObjectIds, chunks \in Manifests : CommitObject(id, chunks)
    BY <1>2
  <2>2. CASE CommitFirst(id, chunks)
    BY <2>1, <2>2, CommitFirstInv
  <2>3. CASE \E previous \in Committed(objectKey[id]) : CommitOver(id, previous, chunks)
    BY <2>1, <2>3, CommitOverInv
  <2> QED
    BY <2>1, <2>2, <2>3 DEF CommitObject
<1>3. CASE \E k \in Keys : DeleteObject(k)
  BY <1>3, DeleteInv
<1>4. CASE \E hashes \in SUBSET Hashes : ForgetBlocks(hashes)
  BY <1>4, ForgetInv
<1>5. CASE Tick \/ UNCHANGED storeVars
  BY <1>5, QuietInv
<1> QED
  BY <1>1, <1>2, <1>3, <1>4, <1>5 DEF Next

\* The invariant holds in every state the store can reach.
THEOREM Invariance == Spec => []IInv
<1>1. Init => IInv
  BY InitInv
<1>2. IInv /\ [Next]_storeVars => IInv'
  BY StepInv
<1> QED
  BY <1>1, <1>2, PTL DEF Spec

\* Every column keeps its type.
THEOREM TypeCorrect == Spec => []TypeOK
<1>1. IInv => TypeOK
  BY DEF IInv
<1> QED
  BY <1>1, Invariance, PTL

\* ref_count is the number of object_chunks rows that name the block.
THEOREM RefCountsAreExact == Spec => []RefCountExact
<1>1. IInv => RefCountExact
  BY DEF IInv, Counted, RefCountExact, References
<1> QED
  BY <1>1, Invariance, PTL

\* A key has at most one committed object.
THEOREM CommittedIsUnique == Spec => []OneCommittedPerKey
<1>1. IInv => OneCommittedPerKey
  BY DEF IInv
<1> QED
  BY <1>1, Invariance, PTL

\* Only committed objects have chunk rows.
THEOREM OthersHoldNoReference == Spec => []OnlyCommittedHaveChunks
<1>1. IInv => OnlyCommittedHaveChunks
  BY DEF IInv
<1> QED
  BY <1>1, Invariance, PTL

\* A block some object is made of keeps its row in blocks.
THEOREM ReferencedRowsSurvive == Spec => []ReferencedBlocksHaveRows
<1>1. IInv => ReferencedBlocksHaveRows
  BY DEF IInv
<1> QED
  BY <1>1, Invariance, PTL

\* The constraints of the schema hold by what the transactions do.
THEOREM TablesStayConsistent == Spec => []TablesConsistent
<1>1. IInv => TablesConsistent
  BY DEF IInv, TablesConsistent
<1> QED
  BY <1>1, Invariance, PTL

-----------------------------------------------------------------------------
(* Timestamps of orphans. *)

\* A block is counted zero exactly when no row names it.
LEMMA ZeroIffUnnamed ==
  ASSUME IInv, NEW h \in Hashes
  PROVE  refCount[h] = 0 <=> References(h) = {}
BY FS_EmptySet DEF IInv, Counted, References

\* A block whose count a detach brings to zero was named before exactly if
\* the detached object named it, so the detach stamps it.
LEMMA DetachToZero ==
  ASSUME IInv, NEW id \in ObjectIds, NEW h \in Hashes,
         Detach(refCount, objectChunks[id])[h] = 0
  PROVE  h \in Mentioned(objectChunks[id]) <=> References(h) # {}
<1>1. objectChunks \in ChunkTables /\ objectChunks[id] \in Seq(Hashes) /\ refCount[h] \in Nat
  BY DEF IInv, TypeOK, ChunkTables
<1>2. h \in Mentioned(objectChunks[id]) => References(h) # {}
  BY <1>1, NamedIffMentioned DEF References
<1>3. ASSUME h \notin Mentioned(objectChunks[id])
      PROVE  References(h) = {}
  <2>1. Occurrences(objectChunks[id], h) = 0
    BY <1>1, <1>3, OccurrencesType
  <2>2. refCount[h] = 0
    BY <2>1, <1>1 DEF Detach
  <2> QED
    BY <2>2, ZeroIffUnnamed
<1> QED
  BY <1>2, <1>3

\* The timestamp GC compares with its cutoff is the time of the step that
\* took the block's last reference away.
THEOREM OrphanTimestamps == Spec => OrphanTimestampHonest
<1> DEFINE Stamped(h) ==
      updatedAt'[h] = IF References(h) # {} THEN clock ELSE updatedAt[h]
<1>1. ASSUME IInv, [Next]_storeVars, NEW h \in blockRows', refCount'[h] = 0
      PROVE  Stamped(h)
  <2>1. h \in Hashes /\ refCount[h] \in Nat /\ refCount \in [Hashes -> Nat]
    <3>1. TypeOK /\ IInv'
      BY <1>1, StepInv DEF IInv
    <3> QED
      BY <1>1, <3>1 DEF TypeOK, IInv
  <2>2. ASSUME refCount'[h] = refCount[h], updatedAt'[h] = updatedAt[h]
        PROVE  Stamped(h)
    BY <2>1, <2>2, <1>1, ZeroIffUnnamed
  <2>3. CASE \E id \in ObjectIds, k \in Keys : CreatePendingObject(id, k)
    BY <2>2, <2>3 DEF CreatePendingObject, blockVars
  <2>4. CASE \E id \in ObjectIds, chunks \in Manifests : CommitObject(id, chunks)
    <3>1. PICK id \in ObjectIds, chunks \in Manifests : CommitObject(id, chunks)
      BY <2>4
    <3>2. chunks \in Seq(Hashes)
      BY ManifestsAssumption DEF ManifestsAssumption
    <3>3. Occurrences(chunks, h) \in Nat
          /\ (Occurrences(chunks, h) = 0 <=> h \notin Mentioned(chunks))
      BY <2>1, <3>2, OccurrencesType
    <3>4. CASE CommitFirst(id, chunks)
      <4>1. refCount'[h] = refCount[h] + Occurrences(chunks, h)
        BY <2>1, <3>4 DEF CommitFirst, Attach
      <4>2. refCount[h] = 0 /\ h \notin Mentioned(chunks)
        BY <4>1, <2>1, <3>3, <1>1
      <4>3. updatedAt'[h] = updatedAt[h]
        BY <4>2, <3>4, <2>1 DEF CommitFirst, Stamp
      <4> QED
        BY <4>2, <4>3, <2>2, <1>1
    <3>5. CASE \E previous \in Committed(objectKey[id]) : CommitOver(id, previous, chunks)
      <4>1. PICK previous \in Committed(objectKey[id]) : CommitOver(id, previous, chunks)
        BY <3>5
      <4>2. previous \in ObjectIds
        BY DEF Committed
      <4>3. Detach(refCount, objectChunks[previous])[h] \in Nat
        <5>1. objectChunks[previous] \in Seq(Hashes) /\ clock \in Nat
          BY <4>2, <1>1 DEF IInv, TypeOK
        <5>2. Detach(refCount, objectChunks[previous]) \in [Hashes -> Nat]
          BY <5>1, <2>1, CountersType
        <5> QED
          BY <5>2, <2>1
      <4>4. refCount'[h]
              = Detach(refCount, objectChunks[previous])[h] + Occurrences(chunks, h)
        BY <2>1, <4>1 DEF CommitOver, Attach
      <4>5. Detach(refCount, objectChunks[previous])[h] = 0 /\ h \notin Mentioned(chunks)
        BY <4>3, <4>4, <3>3, <1>1
      <4>6. updatedAt'[h] = Stamp(updatedAt, objectChunks[previous])[h]
        BY <4>1, <4>5, <2>1 DEF CommitOver, Stamp
      <4>7. h \in Mentioned(objectChunks[previous]) <=> References(h) # {}
        BY <4>2, <4>5, <2>1, <1>1, DetachToZero
      <4> QED
        BY <4>6, <4>7, <2>1 DEF Stamp
    <3> QED
      BY <3>1, <3>4, <3>5 DEF CommitObject
  <2>5. CASE \E k \in Keys : DeleteObject(k)
    <3>1. PICK id \in ObjectIds :
            /\ refCount' = Detach(refCount, objectChunks[id])
            /\ updatedAt' = Stamp(updatedAt, objectChunks[id])
      BY <2>5 DEF DeleteObject, Committed
    <3>2. h \in Mentioned(objectChunks[id]) <=> References(h) # {}
      BY <3>1, <2>1, <1>1, DetachToZero
    <3> QED
      BY <3>1, <3>2, <2>1 DEF Stamp
  <2>6. CASE \E hashes \in SUBSET Hashes : ForgetBlocks(hashes)
    BY <2>1, <2>2, <2>6, <1>1 DEF ForgetBlocks
  <2>7. CASE Tick \/ UNCHANGED storeVars
    BY <2>2, <2>7 DEF Tick, storeVars, blockVars
  <2> QED
    BY <1>1, <2>3, <2>4, <2>5, <2>6, <2>7 DEF Next
<1>2. IInv /\ [Next]_storeVars =>
        [\A h \in blockRows' : refCount'[h] = 0 => Stamped(h)]_storeVars
  BY <1>1
<1> QED
  BY <1>2, Invariance, PTL DEF Spec, OrphanTimestampHonest

-----------------------------------------------------------------------------
(* The store implements the abstract map. *)

\* With one committed object per key, that object is what the key names.
LEMMA LiveIsCommitted ==
  ASSUME OneCommittedPerKey, NEW k \in Keys, NEW id \in Committed(k)
  PROVE  LiveManifests[k] = objectChunks[id]
BY DEF OneCommittedPerKey, LiveManifests

\* A key names nothing exactly when it has no committed object.
LEMMA LiveIsNone ==
  ASSUME NEW k \in Keys, Committed(k) = {}
  PROVE  LiveManifests[k] = NoObject
BY DEF LiveManifests

\* A step that leaves every key its committed objects and their rows leaves
\* the map unchanged.
LEMMA SameLive ==
  ASSUME \A k \in Keys : Committed(k)' = Committed(k),
         \A k \in Keys : \A id \in Committed(k) : objectChunks'[id] = objectChunks[id]
  PROVE  UNCHANGED LiveManifests
<1>1. \A k \in Keys :
        (IF Committed(k) = {} THEN NoObject
         ELSE objectChunks[CHOOSE id \in Committed(k) : TRUE])'
        = IF Committed(k) = {} THEN NoObject
          ELSE objectChunks[CHOOSE id \in Committed(k) : TRUE]
  OBVIOUS
<1> QED
  BY <1>1 DEF LiveManifests

\* A commit gives its key the new manifest, and no other key changes.
LEMMA CommitPublishes ==
  ASSUME IInv, NEW id \in ObjectIds, NEW chunks \in Manifests, CommitObject(id, chunks)
  PROVE  Map!Publish(objectKey[id], chunks)
<1> DEFINE key == objectKey[id]
<1>1. IInv'
  BY StepInv DEF Next
<1>2. /\ objectState[id] = "pending" /\ key \in Keys /\ objectKey' = objectKey
  BY DEF CommitObject, IInv, RowsWellFormed
<1>3. /\ objectState'[id] = "committed" /\ objectChunks'[id] = chunks
      /\ \A k \in Keys \ {key} : Committed(k)' = Committed(k)
      /\ \A k \in Keys \ {key} : \A other \in Committed(k) :
           objectChunks'[other] = objectChunks[other]
  <2>1. objectState \in [ObjectIds -> ObjectStates] /\ objectChunks \in [ObjectIds -> Seq(Hashes)]
    BY DEF IInv, TypeOK
  <2>2. CASE CommitFirst(id, chunks)
    BY <2>1, <2>2, <1>2 DEF CommitFirst, Committed
  <2>3. CASE \E previous \in Committed(key) : CommitOver(id, previous, chunks)
    <3>1. PICK previous \in Committed(key) : CommitOver(id, previous, chunks)
      BY <2>3
    <3>2. previous \in ObjectIds /\ previous # id /\ objectKey[previous] = key
      BY <1>2 DEF Committed
    <3> QED
      BY <2>1, <3>1, <3>2, <1>2 DEF CommitOver, Committed
  <2> QED
    BY <2>2, <2>3 DEF CommitObject
<1>4. id \in Committed(key)'
  BY <1>2, <1>3 DEF Committed
<1>5. LiveManifests'[key] = chunks
  <2>1. OneCommittedPerKey'
    BY <1>1 DEF IInv
  <2> QED
    BY <2>1, <1>2, <1>3, <1>4 DEF LiveManifests, OneCommittedPerKey
<1>6. \A k \in Keys \ {key} : LiveManifests'[k] = LiveManifests[k]
  BY <1>3 DEF LiveManifests
<1>7. LiveManifests' = [LiveManifests EXCEPT ![key] = chunks]
  <2>1. LiveManifests = [k \in Keys |-> LiveManifests[k]]
    BY DEF LiveManifests
  <2>2. LiveManifests' = [k \in Keys |-> LiveManifests'[k]]
    BY DEF LiveManifests
  <2>3. [LiveManifests EXCEPT ![key] = chunks]
          = [k \in Keys |-> IF k = key THEN chunks ELSE LiveManifests[k]]
    BY <2>1
  <2> QED
    BY <2>2, <2>3, <1>5, <1>6
<1> QED
  BY <1>7 DEF Map!Publish

\* A delete empties its key, which named an object, and no other key changes.
LEMMA DeleteRemoves ==
  ASSUME IInv, NEW k \in Keys, DeleteObject(k)
  PROVE  Map!Remove(k)
<1>1. PICK id \in Committed(k) :
        /\ objectState' = [objectState EXCEPT ![id] = "deleted"]
        /\ objectChunks' = [objectChunks EXCEPT ![id] = <<>>]
  BY DEF DeleteObject
<1>2. /\ objectKey' = objectKey /\ id \in ObjectIds
      /\ objectKey[id] = k /\ objectState[id] = "committed"
      /\ objectState \in [ObjectIds -> ObjectStates]
      /\ objectChunks \in [ObjectIds -> Seq(Hashes)]
      /\ OneCommittedPerKey
  BY <1>1 DEF DeleteObject, Committed, IInv, TypeOK
<1>3. LiveManifests[k] # NoObject
  <2>1. LiveManifests[k] = objectChunks[id]
    BY <1>2, LiveIsCommitted
  <2>2. objectChunks[id] \in Manifests
    BY <1>2 DEF IInv, RowsWellFormed
  <2> QED
    BY <2>1, <2>2, NoObjectAssumption DEF NoObjectAssumption
<1>4. Committed(k)' = {}
  BY <1>1, <1>2 DEF Committed, OneCommittedPerKey
<1>5. /\ \A other \in Keys \ {k} : Committed(other)' = Committed(other)
      /\ \A other \in Keys \ {k} : \A row \in Committed(other) :
           objectChunks'[row] = objectChunks[row]
  BY <1>1, <1>2 DEF Committed
<1>6. LiveManifests' = [LiveManifests EXCEPT ![k] = NoObject]
  BY <1>4, <1>5 DEF LiveManifests
<1> QED
  BY <1>3, <1>6 DEF Map!Remove

\* Publishing, replacing and deleting objects are the only ways a key changes
\* what it names, one key and one whole manifest at a time.
THEOREM StoreImplementsMap == Spec => ImplementsObjectMap
<1>1. Init => Map!Init
  BY DEF Init, Map!Init, LiveManifests, Committed
<1>2. IInv /\ [Next]_storeVars => [Map!Next]_LiveManifests
  <2> SUFFICES ASSUME IInv, [Next]_storeVars
               PROVE  [Map!Next]_LiveManifests
    OBVIOUS
  <2>1. CASE \E id \in ObjectIds, k \in Keys : CreatePendingObject(id, k)
    <3>1. PICK id \in ObjectIds, k \in Keys : CreatePendingObject(id, k)
      BY <2>1
    <3>2. \A key \in Keys : Committed(key)' = Committed(key)
      BY <3>1 DEF CreatePendingObject, Committed, IInv, TypeOK
    <3> QED
      BY <3>1, <3>2, SameLive DEF CreatePendingObject
  <2>2. CASE \E id \in ObjectIds, chunks \in Manifests : CommitObject(id, chunks)
    <3>1. PICK id \in ObjectIds, chunks \in Manifests : CommitObject(id, chunks)
      BY <2>2
    <3>2. objectKey[id] \in Keys
      BY <3>1 DEF CommitObject, IInv, RowsWellFormed
    <3> QED
      BY <3>1, <3>2, CommitPublishes DEF Map!Next
  <2>3. CASE \E k \in Keys : DeleteObject(k)
    BY <2>3, DeleteRemoves DEF Map!Next
  <2>4. CASE (\E hashes \in SUBSET Hashes : ForgetBlocks(hashes)) \/ Tick \/ UNCHANGED storeVars
    <3>1. UNCHANGED objectVars
      BY <2>4 DEF ForgetBlocks, Tick, storeVars
    <3>2. \A key \in Keys : Committed(key)' = Committed(key)
      BY <3>1 DEF objectVars, Committed
    <3> QED
      BY <3>1, <3>2, SameLive DEF objectVars
  <2> QED
    BY <2>1, <2>2, <2>3, <2>4 DEF Next
<1> QED
  BY <1>1, <1>2, Invariance, PTL DEF Spec, ImplementsObjectMap, Map!Spec

=============================================================================
