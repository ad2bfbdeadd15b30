---------------------------- MODULE PostgresProofs ----------------------------
(***************************************************************************)
(* Theorems about PostgresStore, for any number of transactions, objects,  *)
(* keys and blocks: however their statements interleave, what is committed *)
(* agrees, a key has one committed object, and the store implements the    *)
(* abstract map of ObjectMap.                                              *)
(***************************************************************************)
EXTENDS PostgresStore, FiniteSetTheorems, TLAPS

(* The rows and what the connections do.                                   *)
Rows == [state : {"absent", "pending", "committed", "deleted"},
         key : Keys \cup {NoObject}, chunks : Seq(Hashes)]

TxRecords ==
  [step : {"idle", "select", "lock", "detach", "attach", "end", "forget"},
   op : {"none", "commit", "delete", "forget"}, id : ObjectIds \cup {NoObject},
   key : Keys \cup {NoObject}, chunks : Seq(Hashes), previous : ObjectIds \cup {NoObject},
   done : Nat,
   result : {"none", "ok", "not found", "duplicate key", "cut off", "deadlock"}]

Types ==
  /\ objects \in [ObjectIds -> Rows] /\ newObjects \in [ObjectIds -> Rows]
  /\ blocks \in [Hashes -> Nat \cup {NoRow}] /\ newBlocks \in [Hashes -> Nat \cup {NoRow}]
  /\ objectHolder \in [ObjectIds -> Transactions \cup {NoTransaction}]
  /\ blockHolder \in [Hashes -> Transactions \cup {NoTransaction}]
  /\ tx \in [Transactions -> TxRecords]

(* A row nobody holds has one version; no version of it has another key;   *)
(* only committed objects have chunks, of a manifest and under a key.      *)
RowsOK ==
  /\ \A id \in ObjectIds :
       /\ objectHolder[id] = NoTransaction => newObjects[id] = objects[id]
       /\ newObjects[id].key = objects[id].key
       /\ objects[id].state # "committed" => objects[id].chunks = <<>>
       /\ objects[id].state = "committed" => objects[id].chunks \in Manifests
       /\ objects[id].state \in {"pending", "committed"} => objects[id].key \in Keys
  /\ \A h \in Hashes : blockHolder[h] = NoTransaction => newBlocks[h] = blocks[h]

(* A key has one committed object, in either version; where the versions   *)
(* differ in that, one transaction makes the difference.                   *)
Unique ==
  \A x, y \in ObjectIds :
    objects[x].key = objects[y].key /\ x # y =>
      /\ ~(objects[x].state = "committed" /\ objects[y].state = "committed")
      /\ ~(newObjects[x].state = "committed" /\ newObjects[y].state = "committed")
      /\ objects[x].state = "committed" /\ newObjects[y].state = "committed"
           => objectHolder[x] = objectHolder[y]

(* A transaction counts the rows that name a block as they are in what it  *)
(* has written, those of the previous object from the last chunk detached. *)
Positions(chunks, h) == {i \in DOMAIN chunks : chunks[i] = h}

Reckoned(w, id, old, new, h) ==
  IF w.step = "detach" /\ id = w.previous THEN {i \in Positions(old.chunks, h) : i > w.done}
  ELSE Positions(new.chunks, h)

SeenBy(t, id, h) ==
  IF objectHolder[id] = t THEN Reckoned(tx[t], id, objects[id], newObjects[id], h)
  ELSE Positions(objects[id].chunks, h)

Pairs(S) == UNION {{id} \X S[id] : id \in ObjectIds}

Counted(t, h) == Pairs([id \in ObjectIds |-> SeenBy(t, id, h)])

Counts(count, rows) ==
  /\ IsFiniteSet(rows)
  /\ Cardinality(rows) = IF count = NoRow THEN 0 ELSE count

CountedOK(t) ==
  \A h \in Hashes :
    /\ blockHolder[h] = t => Counts(newBlocks[h], Counted(t, h))
    /\ blockHolder[h] # t => \A id \in ObjectIds :
         objectHolder[id] = t => SeenBy(t, id, h) = Positions(objects[id].chunks, h)

(* A row t holds is the object it commits or the one it replaces.          *)
IsCommitting(w, id, old, new) ==
  /\ w.op = "commit" /\ id = w.id
  /\ old.state = "pending" /\ old.key = w.key
  /\ new.state = IF w.step = "end" THEN "committed" ELSE "pending"
  /\ new.chunks = CASE w.step = "attach" -> SubSeq(w.chunks, 1, w.done)
                    [] w.step = "end" -> w.chunks
                    [] OTHER -> <<>>

IsReplacing(w, id, old, new) ==
  /\ w.step \in {"detach", "attach", "end"} /\ id = w.previous
  /\ old.state = "committed" /\ old.key = w.key
  /\ IF w.step = "detach" THEN new = old ELSE new.state = "deleted" /\ new.chunks = <<>>

StepOK(t, w) ==
  /\ w.step = "forget" <=> w.step # "idle" /\ w.op = "forget"
  /\ w.step # "idle" => w.op # "none"
  /\ w.step \in {"select", "lock", "detach", "attach", "end"} => w.key \in Keys
  /\ w.step # "idle" /\ w.op = "commit" =>
       /\ w.id \in ObjectIds /\ objectHolder[w.id] = t /\ w.chunks \in Manifests
       /\ objects[w.id].state = "pending"
  /\ w.step = "lock" => /\ w.previous \in ObjectIds /\ objects[w.previous].key = w.key
                        /\ objects[w.previous].state \in {"committed", "deleted"}
  /\ w.step = "detach" \/ (w.step = "end" /\ w.op = "delete") =>
       w.previous \in ObjectIds /\ objectHolder[w.previous] = t
  /\ w.step = "attach" => w.op = "commit" /\ w.done <= Len(w.chunks)
  /\ w.step = "detach" => /\ w.done <= Len(objects[w.previous].chunks)
                          /\ objects[w.previous].state = "committed"

TxOK(t) ==
  /\ StepOK(t, tx[t])
  /\ \A id \in ObjectIds : objectHolder[id] = t =>
       /\ tx[t].step # "idle"
       /\ \/ IsCommitting(tx[t], id, objects[id], newObjects[id])
          \/ IsReplacing(tx[t], id, objects[id], newObjects[id])
  /\ \A h \in Hashes : blockHolder[h] = t => tx[t].step # "idle"
  /\ CountedOK(t)

Referring(h) == Pairs([id \in ObjectIds |-> Positions(objects[id].chunks, h)])

PInv ==
  /\ Types /\ RowsOK /\ Unique
  /\ \A h \in Hashes : Counts(blocks[h], Referring(h))
  /\ \A t \in Transactions : TxOK(t)

-----------------------------------------------------------------------------
(* Counting rows. *)

\* The same rows, row by row.
LEMMA PairsSame ==
  ASSUME NEW S, NEW T, \A id \in ObjectIds : S[id] = T[id]
  PROVE  Pairs(S) = Pairs(T)
BY DEF Pairs

\* A row more, or a row less, of one object.
LEMMA PairsMore ==
  ASSUME NEW S, NEW T, NEW x \in ObjectIds, NEW i, i \notin S[x], T[x] = S[x] \cup {i},
         \A id \in ObjectIds : id # x => T[id] = S[id],
         NEW count \in Nat \cup {NoRow}, Counts(count, Pairs(S))
  PROVE  Counts((IF count = NoRow THEN 0 ELSE count) + 1, Pairs(T))
<1>1. Pairs(T) = Pairs(S) \cup {<<x, i>>}
  BY DEF Pairs
<1>2. <<x, i>> \notin Pairs(S)
  BY DEF Pairs
<1>3. IsFiniteSet(Pairs(S)) /\ Cardinality(Pairs(S)) = IF count = NoRow THEN 0 ELSE count
  BY DEF Counts
<1>4. IsFiniteSet(Pairs(T)) /\ Cardinality(Pairs(T)) = Cardinality(Pairs(S)) + 1
  BY <1>1, <1>2, <1>3, FS_AddElement
<1>5. (IF count = NoRow THEN 0 ELSE count) + 1 # NoRow
  BY NoRowAssumption
<1> QED
  BY <1>3, <1>4, <1>5 DEF Counts

\* Taking one reference away is counting down by one.
LEMMA PairsLess ==
  ASSUME NEW S, NEW T, NEW x \in ObjectIds, NEW i, i \in S[x], T[x] = S[x] \ {i},
         \A id \in ObjectIds : id # x => T[id] = S[id],
         NEW count \in Nat \cup {NoRow}, Counts(count, Pairs(S))
  PROVE  count \in Nat \ {0} /\ Counts(count - 1, Pairs(T))
<1>1. Pairs(T) = Pairs(S) \ {<<x, i>>}
  BY DEF Pairs
<1>2. <<x, i>> \in Pairs(S)
  BY DEF Pairs
<1>3. IsFiniteSet(Pairs(S)) /\ Cardinality(Pairs(S)) = IF count = NoRow THEN 0 ELSE count
  BY DEF Counts
<1>4. IsFiniteSet(Pairs(T)) /\ Cardinality(Pairs(T)) = Cardinality(Pairs(S)) - 1
  <2>1. PICK R, p : R = Pairs(S) /\ p = <<x, i>>
    OBVIOUS
  <2>2. IsFiniteSet(R) /\ p \in R
    BY <1>2, <1>3, <2>1
  <2>3. IsFiniteSet(R \ {p}) /\ Cardinality(R \ {p}) = Cardinality(R) - 1
    BY <2>2, FS_RemoveElement
  <2> QED
    BY <1>1, <2>1, <2>3
<1>5. Cardinality(Pairs(S)) # 0
  BY <1>2, <1>3, FS_EmptySet
<1>6. count \in Nat \ {0}
  BY <1>3, <1>5
<1>7. count - 1 \in Nat /\ count - 1 # NoRow
  BY <1>6, NoRowAssumption
<1> QED
  BY <1>3, <1>4, <1>6, <1>7, NoRowAssumption DEF Counts

\* The positions of a block in a list that has one chunk more, and in one
\* that is looked at from the next chunk on.
LEMMA PositionsMore ==
  ASSUME NEW s \in Seq(Hashes), NEW g \in Hashes, NEW h
  PROVE  /\ Len(s) + 1 \notin Positions(s, h)
         /\ Positions(Append(s, g), h) = IF h = g THEN Positions(s, h) \cup {Len(s) + 1} ELSE Positions(s, h)
<1>1. PICK t : t = Append(s, g)
  OBVIOUS
<1>2. /\ Len(s) \in Nat /\ DOMAIN s = 1 .. Len(s) /\ DOMAIN t = 1 .. Len(s) + 1
      /\ t[Len(s) + 1] = g /\ \A i \in 1 .. Len(s) : t[i] = s[i]
  BY <1>1
<1>3. Len(s) + 1 \notin 1 .. Len(s) /\ 1 .. Len(s) + 1 = (1 .. Len(s)) \cup {Len(s) + 1}
  BY <1>2
<1>4. \A i : i \in Positions(t, h) <=> i \in Positions(s, h) \/ (i = Len(s) + 1 /\ h = g)
  BY <1>2, <1>3 DEF Positions
<1>5. Len(s) + 1 \notin Positions(s, h)
  BY <1>2, <1>3 DEF Positions
<1> QED
  BY <1>1, <1>4, <1>5

\* The positions of a block after the next chunk.
LEMMA PositionsAfter ==
  ASSUME NEW s \in Seq(Hashes), NEW n \in Nat, n + 1 \in DOMAIN s, NEW h
  PROVE  /\ h = s[n + 1] => n + 1 \in {i \in Positions(s, h) : i > n}
         /\ {i \in Positions(s, h) : i > n + 1} =
              IF h = s[n + 1] THEN {i \in Positions(s, h) : i > n} \ {n + 1}
              ELSE {i \in Positions(s, h) : i > n}
<1>1. Len(s) \in Nat /\ DOMAIN s = 1 .. Len(s)
  OBVIOUS
<1>2. \A i \in 1 .. Len(s) : i > n + 1 <=> i > n /\ i # n + 1
  BY <1>1
<1>3. \A i : i \in {j \in Positions(s, h) : j > n + 1} <=>
             i \in {j \in Positions(s, h) : j > n} /\ i # n + 1
  BY <1>1, <1>2 DEF Positions
<1>4. h = s[n + 1] => n + 1 \in {i \in Positions(s, h) : i > n}
  BY <1>1 DEF Positions
<1>5. h # s[n + 1] => n + 1 \notin {i \in Positions(s, h) : i > n}
  BY DEF Positions
<1> QED
  BY <1>3, <1>4, <1>5

\* Of a whole list, and of an empty one.
LEMMA PositionsOf ==
  ASSUME NEW s \in Seq(Hashes), NEW h
  PROVE  /\ {i \in Positions(s, h) : i > 0} = Positions(s, h)
         /\ {i \in Positions(s, h) : i > Len(s)} = {}
         /\ Positions(<<>>, h) = {}
<1>1. Len(s) \in Nat /\ DOMAIN s = 1 .. Len(s) /\ DOMAIN <<>> = {}
  OBVIOUS
<1>2. \A i \in 1 .. Len(s) : i > 0 /\ ~(i > Len(s))
  BY <1>1
<1> QED
  BY <1>1, <1>2 DEF Positions

-----------------------------------------------------------------------------
(* What a step of one transaction, or of none, may do to the others. *)
Moves(t) ==
  /\ \A u \in Transactions : u # t => tx'[u] = tx[u]
  /\ \A id \in ObjectIds :
       /\ \/ objectHolder'[id] = objectHolder[id]
          \/ {objectHolder[id], objectHolder'[id]} \subseteq {t, NoTransaction}
       /\ objectHolder[id] \notin {t, NoTransaction} =>
            objects'[id] = objects[id] /\ newObjects'[id] = newObjects[id]
       /\ objects[id].state \in {"committed", "deleted"} =>
            objects'[id].key = objects[id].key /\ objects'[id].state \in {"committed", "deleted"}
       /\ \A h \in Hashes : blockHolder[h] # t =>
            Positions(objects'[id].chunks, h) = Positions(objects[id].chunks, h)
  /\ \A h \in Hashes :
       /\ \/ blockHolder'[h] = blockHolder[h]
          \/ {blockHolder[h], blockHolder'[h]} \subseteq {t, NoTransaction}
       /\ blockHolder[h] \notin {t, NoTransaction} => newBlocks'[h] = newBlocks[h]

\* A step of one transaction leaves what the others hold and count alone.
LEMMA OthersKeep ==
  ASSUME PInv, NEW t, Moves(t), NEW u \in Transactions, u # t
  PROVE  TxOK(u)'
<1>1. TxOK(u) /\ Types /\ u # NoTransaction
  BY NobodyAssumption DEF PInv
<1>2. tx'[u] = tx[u]
  BY DEF Moves
<1>3. ASSUME NEW id \in ObjectIds
      PROVE  /\ objectHolder'[id] = u <=> objectHolder[id] = u
             /\ objectHolder[id] = u => objects'[id] = objects[id] /\ newObjects'[id] = newObjects[id]
  BY <1>1 DEF Moves
<1>4. ASSUME NEW h \in Hashes
      PROVE  /\ blockHolder'[h] = u <=> blockHolder[h] = u
             /\ blockHolder[h] = u => newBlocks'[h] = newBlocks[h]
  BY <1>1 DEF Moves
<1>5. PICK w : w = tx[u]
  OBVIOUS
<1>6. StepOK(u, w)'
  <2>1. StepOK(u, w)
    BY <1>1, <1>5 DEF TxOK
  <2>2. ASSUME w.step = "lock"
        PROVE  /\ w.previous \in ObjectIds /\ objects'[w.previous].key = w.key
               /\ objects'[w.previous].state \in {"committed", "deleted"}
    <3>1. /\ w.previous \in ObjectIds /\ objects[w.previous].key = w.key
          /\ objects[w.previous].state \in {"committed", "deleted"}
      BY <2>1, <2>2 DEF StepOK
    <3> QED
      BY <3>1 DEF Moves
  <2>3. w.step = "detach" => /\ w.done <= Len(objects'[w.previous].chunks)
                             /\ objects'[w.previous].state = "committed"
    BY <1>3, <2>1 DEF StepOK
  <2>4. w.step # "idle" /\ w.op = "commit" => objects'[w.id].state = "pending"
    BY <1>3, <2>1 DEF StepOK
  <2> QED
    BY <1>3, <2>1, <2>2, <2>3, <2>4 DEF StepOK
<1>7. ASSUME NEW id \in ObjectIds, objectHolder'[id] = u
      PROVE  /\ w.step # "idle"
             /\ \/ IsCommitting(w, id, objects'[id], newObjects'[id])
                \/ IsReplacing(w, id, objects'[id], newObjects'[id])
  <2>1. objectHolder[id] = u /\ objects'[id] = objects[id] /\ newObjects'[id] = newObjects[id]
    BY <1>3, <1>7
  <2> QED
    BY <1>1, <1>5, <2>1 DEF TxOK
<1>8. \A h \in Hashes : blockHolder'[h] = u => w.step # "idle"
  BY <1>1, <1>4, <1>5 DEF TxOK
<1>9. ASSUME NEW id \in ObjectIds, NEW h \in Hashes, objectHolder[id] = u
      PROVE  SeenBy(u, id, h)' = SeenBy(u, id, h)
  BY <1>2, <1>3, <1>9 DEF SeenBy
<1>10. ASSUME NEW h \in Hashes, blockHolder'[h] = u
       PROVE  Counts(newBlocks'[h], Counted(u, h)')
  <2>1. blockHolder[h] = u /\ newBlocks'[h] = newBlocks[h] /\ blockHolder[h] # t
    BY <1>4, <1>10
  <2>2. Counts(newBlocks[h], Counted(u, h))
    BY <1>1, <2>1 DEF TxOK, CountedOK
  <2>3. ASSUME NEW id \in ObjectIds PROVE SeenBy(u, id, h)' = SeenBy(u, id, h)
    <3>1. CASE objectHolder[id] = u
      BY <1>9, <3>1
    <3>2. CASE objectHolder[id] # u
      <4>1. objectHolder'[id] # u
        BY <1>3, <3>2
      <4>2. Positions(objects'[id].chunks, h) = Positions(objects[id].chunks, h)
        BY <2>1 DEF Moves
      <4> QED
        BY <3>2, <4>1, <4>2 DEF SeenBy
    <3> QED
      BY <3>1, <3>2
  <2>4. Counted(u, h)' = Counted(u, h)
    BY <2>3, PairsSame DEF Counted
  <2> QED
    BY <2>1, <2>2, <2>4
<1>11. ASSUME NEW h \in Hashes, blockHolder'[h] # u, NEW id \in ObjectIds, objectHolder'[id] = u
       PROVE  SeenBy(u, id, h)' = Positions(objects'[id].chunks, h)
  <2>1. blockHolder[h] # u /\ objectHolder[id] = u /\ objects'[id] = objects[id]
    BY <1>3, <1>4, <1>11
  <2>2. SeenBy(u, id, h) = Positions(objects[id].chunks, h)
    BY <1>1, <2>1 DEF TxOK, CountedOK
  <2> QED
    BY <1>9, <2>1, <2>2
<1>12. CountedOK(u)'
  BY <1>10, <1>11 DEF CountedOK
<1> QED
  BY <1>2, <1>5, <1>6, <1>7, <1>8, <1>12 DEF TxOK

\* The invariant, from what a step leaves to the others.
LEMMA StepKeeps ==
  ASSUME PInv, NEW t, Moves(t), Types', RowsOK', Unique',
         \A h \in Hashes : Counts(blocks[h], Referring(h))',
         t \in Transactions => TxOK(t)'
  PROVE  PInv'
<1>1. ASSUME NEW u \in Transactions PROVE TxOK(u)'
  <2>1. CASE u = t
    BY <2>1
  <2>2. CASE u # t
    BY <2>2, OthersKeep
  <2> QED
    BY <2>1, <2>2
<1> QED
  BY <1>1 DEF PInv

\* A step that touches neither rows nor locks.
LEMMA RowsStay ==
  ASSUME PInv, NEW t \in Transactions, NEW w \in TxRecords, tx' = [tx EXCEPT ![t] = w],
         UNCHANGED <<rowVars, lockVars>>, TxOK(t)'
  PROVE  PInv'
<1>1. Types
  BY DEF PInv
<1>2. /\ objects' = objects /\ newObjects' = newObjects /\ blocks' = blocks /\ newBlocks' = newBlocks
      /\ objectHolder' = objectHolder /\ blockHolder' = blockHolder
  BY DEF rowVars, lockVars
<1>3. /\ tx' \in [Transactions -> TxRecords] /\ \A u \in Transactions : u # t => tx'[u] = tx[u]
  BY <1>1 DEF Types
<1>4. Types'
  BY <1>1, <1>2, <1>3 DEF Types
<1>5. Moves(t)
  BY <1>2, <1>3 DEF Moves
<1>6. RowsOK' /\ Unique' /\ \A h \in Hashes : Counts(blocks[h], Referring(h))'
  BY <1>2 DEF PInv, RowsOK, Unique, Referring
<1> QED
  BY <1>4, <1>5, <1>6, StepKeeps

\* A transaction that is not running holds no row.
LEMMA IdleHoldsNothing ==
  ASSUME PInv, NEW t \in Transactions, tx[t].step = "idle"
  PROVE  /\ \A id \in ObjectIds : objectHolder[id] # t
         /\ \A h \in Hashes : blockHolder[h] # t
BY DEF PInv, TxOK

\* The record of a transaction that is not running.
LEMMA IdleRecord ==
  /\ Idle \in TxRecords
  /\ Idle.step = "idle" /\ Idle.op = "none" /\ Idle.previous = NoObject /\ Idle.done = 0
BY DEF Idle, TxRecords

\* The record of a transaction that has ended.
LEMMA EndedRecord ==
  ASSUME NEW v \in TxRecords,
         NEW result \in {"ok", "not found", "duplicate key", "cut off", "deadlock"}
  PROVE  /\ [Idle EXCEPT !.op = v.op, !.result = result] \in TxRecords
         /\ [Idle EXCEPT !.op = v.op, !.result = result].step = "idle"
<1>1. PICK op : op = v.op
  OBVIOUS
<1>2. op \in {"none", "commit", "delete", "forget"}
  BY <1>1 DEF TxRecords
<1>3. PICK i : i = Idle
  OBVIOUS
<1>4. i \in TxRecords /\ i.step = "idle"
  BY <1>3, IdleRecord
<1>5. PICK w : w = [i EXCEPT !.op = op, !.result = result]
  OBVIOUS
<1>6. result \in {"none", "ok", "not found", "duplicate key", "cut off", "deadlock"}
  OBVIOUS
<1>7. w \in TxRecords /\ w.step = i.step
  BY <1>2, <1>4, <1>5, <1>6 DEF TxRecords
<1> QED
  BY <1>1, <1>3, <1>4, <1>5, <1>7

\* BEGIN of a delete or of ForgetBlocks.
LEMMA BeginKeeps ==
  ASSUME PInv, NEW t \in Transactions,
         (\E k \in Keys : BeginDelete(t, k)) \/ \E hashes \in Batches : BeginForget(t, hashes)
  PROVE  PInv'
<1>1. PICK w : w = tx'[t]
  OBVIOUS
<1>2. /\ tx[t].step = "idle" /\ UNCHANGED <<rowVars, lockVars>>
      /\ w \in TxRecords /\ tx' = [tx EXCEPT ![t] = w]
      /\ \/ w.step = "select" /\ w.op = "delete" /\ w.key \in Keys
         \/ w.step = "forget" /\ w.op = "forget"
  <2>1. tx \in [Transactions -> TxRecords]
    BY DEF PInv, Types
  <2>2. CASE \E k \in Keys : BeginDelete(t, k)
    <3>1. PICK k \in Keys : BeginDelete(t, k)
      BY <2>2
    <3> QED
      BY <1>1, <2>1, <3>1, IdleRecord DEF BeginDelete, Idle, TxRecords
  <2>3. CASE \E hashes \in Batches : BeginForget(t, hashes)
    <3>1. PICK hashes \in Batches : BeginForget(t, hashes)
      BY <2>3
    <3>2. hashes \in Seq(Hashes)
      BY ManifestsAssumption
    <3> QED
      BY <1>1, <2>1, <3>1, <3>2, IdleRecord DEF BeginForget, Idle, TxRecords
  <2> QED
    BY <2>2, <2>3
<1>3. /\ \A id \in ObjectIds : objectHolder'[id] # t
      /\ \A h \in Hashes : blockHolder'[h] # t
  BY <1>2, IdleHoldsNothing DEF lockVars
<1>4. StepOK(t, w)'
  BY <1>2 DEF StepOK
<1>5. TxOK(t)'
  BY <1>1, <1>3, <1>4 DEF TxOK, CountedOK
<1> QED
  BY <1>2, <1>5, RowsStay

\* A step to another statement, where no row is being detached.
LEMMA StatementKeeps ==
  ASSUME PInv, NEW t \in Transactions, NEW w \in TxRecords, tx' = [tx EXCEPT ![t] = w],
         UNCHANGED <<rowVars, lockVars>>,
         tx[t].step \in {"select", "lock"},
         w.op = tx[t].op, w.id = tx[t].id, w.key = tx[t].key, w.chunks = tx[t].chunks,
         \/ w.step = "attach" /\ w.op = "commit" /\ w.done = 0
         \/ /\ w.step = "lock" /\ w.previous \in ObjectIds /\ objects[w.previous].key = w.key
            /\ objects[w.previous].state \in {"committed", "deleted"}
  PROVE  PInv'
<1>1. /\ objects' = objects /\ newObjects' = newObjects /\ blocks' = blocks /\ newBlocks' = newBlocks
      /\ objectHolder' = objectHolder /\ blockHolder' = blockHolder
  BY DEF rowVars, lockVars
<1>2. tx \in [Transactions -> TxRecords] /\ tx'[t] = w /\ TxOK(t)
  BY DEF PInv, Types
<1>3. PICK v : v = tx[t]
  OBVIOUS
<1>0. w.chunks \in Seq(Hashes) /\ Len(w.chunks) \in Nat /\ SubSeq(w.chunks, 1, 0) = <<>>
  <2>1. w.chunks \in Seq(Hashes)
    BY DEF TxRecords
  <2> QED
    BY <2>1
<1>4. StepOK(t, v) /\ v.op \in {"commit", "delete"} /\ v.step \in {"select", "lock"}
  <2>1. StepOK(t, v) /\ v \in TxRecords
    BY <1>2, <1>3 DEF TxOK
  <2> QED
    BY <1>3, <2>1 DEF StepOK, TxRecords
<1>5. StepOK(t, w)'
  <2>1. w.done = 0 => w.done <= Len(w.chunks)
    BY <1>0
  <2> QED
    BY <1>1, <1>3, <1>4, <2>1 DEF StepOK
<1>6. ASSUME NEW id \in ObjectIds, objectHolder[id] = t
      PROVE  IsCommitting(w, id, objects[id], newObjects[id])
  <2>1. IsCommitting(v, id, objects[id], newObjects[id])
    BY <1>2, <1>3, <1>4, <1>6 DEF TxOK, IsReplacing
  <2>2. newObjects[id].chunks = <<>>
    BY <1>4, <2>1 DEF IsCommitting
  <2>3. w.step = "attach" => SubSeq(w.chunks, 1, w.done) = <<>>
    BY <1>0
  <2>4. newObjects[id].chunks = CASE w.step = "attach" -> SubSeq(w.chunks, 1, w.done)
                                  [] w.step = "end" -> w.chunks
                                  [] OTHER -> <<>>
    BY <2>2, <2>3
  <2> QED
    BY <1>3, <1>4, <2>1, <2>4 DEF IsCommitting
<1>7. ASSUME NEW id \in ObjectIds, NEW h \in Hashes PROVE SeenBy(t, id, h)' = SeenBy(t, id, h)
  BY <1>1, <1>2, <1>3, <1>4 DEF SeenBy, Reckoned
<1>8. ASSUME NEW h \in Hashes PROVE Counted(t, h)' = Counted(t, h)
  BY <1>7, PairsSame DEF Counted
<1>9. CountedOK(t)'
  BY <1>1, <1>2, <1>7, <1>8 DEF TxOK, CountedOK
<1>10. TxOK(t)'
  BY <1>1, <1>2, <1>5, <1>6, <1>9 DEF TxOK
<1> QED
  BY <1>10, RowsStay

-----------------------------------------------------------------------------
(* Transactions end: what they hold is given back, or becomes committed. *)

\* A rollback: what was written is as it was committed, and nothing is held.
LEMMA RollbackKeeps ==
  ASSUME PInv, NEW t \in Transactions,
         NEW result \in {"not found", "duplicate key", "cut off", "deadlock"}, Rollback(t, result)
  PROVE  PInv'
<1>1. Types /\ RowsOK /\ Unique /\ t # NoTransaction
  BY NobodyAssumption DEF PInv
<1>2. PICK w : w = [Idle EXCEPT !.op = tx[t].op, !.result = result]
  OBVIOUS
<1>3. w \in TxRecords /\ w.step = "idle"
  <2>1. tx[t] \in TxRecords
    BY <1>1 DEF Types
  <2> QED
    BY <1>2, <2>1, EndedRecord
<1>4. /\ tx' = [tx EXCEPT ![t] = w] /\ objects' = objects /\ blocks' = blocks
      /\ newObjects' = [id \in ObjectIds |-> IF objectHolder[id] = t THEN objects[id] ELSE newObjects[id]]
      /\ newBlocks' = [h \in Hashes |-> IF blockHolder[h] = t THEN blocks[h] ELSE newBlocks[h]]
      /\ objectHolder' = [id \in ObjectIds |-> IF objectHolder[id] = t THEN NoTransaction ELSE objectHolder[id]]
      /\ blockHolder' = [h \in Hashes |-> IF blockHolder[h] = t THEN NoTransaction ELSE blockHolder[h]]
  BY <1>2 DEF Rollback
<1>5. ASSUME NEW id \in ObjectIds
      PROVE  /\ newObjects'[id] = IF objectHolder[id] = t THEN objects[id] ELSE newObjects[id]
             /\ objectHolder'[id] = IF objectHolder[id] = t THEN NoTransaction ELSE objectHolder[id]
             /\ objectHolder'[id] # t
  BY <1>1, <1>4
<1>6. ASSUME NEW h \in Hashes
      PROVE  /\ newBlocks'[h] = IF blockHolder[h] = t THEN blocks[h] ELSE newBlocks[h]
             /\ blockHolder'[h] = IF blockHolder[h] = t THEN NoTransaction ELSE blockHolder[h]
             /\ blockHolder'[h] # t
  BY <1>1, <1>4
<1>7. tx'[t] = w /\ (\A u \in Transactions : u # t => tx'[u] = tx[u])
  BY <1>1, <1>4 DEF Types
<1>8. Types'
  BY <1>1, <1>3, <1>4 DEF Types
<1>9. Moves(t)
  BY <1>4, <1>5, <1>6, <1>7 DEF Moves
<1>10. RowsOK'
  BY <1>1, <1>4, <1>5, <1>6 DEF RowsOK
<1>11. Unique'
  <2> SUFFICES ASSUME NEW x \in ObjectIds, NEW y \in ObjectIds, objects[x].key = objects[y].key, x # y
               PROVE  /\ ~(newObjects'[x].state = "committed" /\ newObjects'[y].state = "committed")
                      /\ objects[x].state = "committed" /\ newObjects'[y].state = "committed"
                           => objectHolder'[x] = objectHolder'[y]
    BY <1>1, <1>4 DEF Unique
  <2>1. /\ ~(objects[x].state = "committed" /\ objects[y].state = "committed")
        /\ ~(newObjects[x].state = "committed" /\ newObjects[y].state = "committed")
        /\ objects[x].state = "committed" /\ newObjects[y].state = "committed"
             => objectHolder[x] = objectHolder[y]
        /\ objects[y].state = "committed" /\ newObjects[x].state = "committed"
             => objectHolder[x] = objectHolder[y]
    BY <1>1 DEF Unique
  <2> QED
    BY <1>5, <2>1
<1>12. \A h \in Hashes : Counts(blocks[h], Referring(h))'
  BY <1>4 DEF PInv, Referring
<1>13. TxOK(t)'
  <2>1. StepOK(t, w)'
    BY <1>3 DEF StepOK
  <2> QED
    BY <1>5, <1>6, <1>7, <2>1 DEF TxOK, CountedOK
<1> QED
  BY <1>8, <1>9, <1>10, <1>11, <1>12, <1>13, StepKeeps

\* A transaction that is finished has counted what it will have written.
LEMMA FinishedCounts ==
  ASSUME PInv, NEW t \in Transactions, Finished(t)
  PROVE  /\ \A id \in ObjectIds : objectHolder[id] = t =>
              /\ newObjects[id].state \in {"committed", "deleted"}
              /\ newObjects[id].state = "committed" =>
                   newObjects[id].chunks \in Manifests /\ newObjects[id].key \in Keys
              /\ newObjects[id].state = "deleted" => newObjects[id].chunks = <<>>
         /\ \A id \in ObjectIds, h \in Hashes : objectHolder[id] = t =>
              SeenBy(t, id, h) = Positions(newObjects[id].chunks, h)
         /\ \A id \in ObjectIds, h \in Hashes : objectHolder[id] # t =>
              SeenBy(t, id, h) = Positions(objects[id].chunks, h)
<1>1. PICK w : w = tx[t]
  OBVIOUS
<1>2. TxOK(t) /\ RowsOK /\ StepOK(t, w) /\ w.step \in {"end", "forget"}
  BY <1>1 DEF PInv, TxOK, Finished
<1>3. ASSUME NEW id \in ObjectIds, objectHolder[id] = t
      PROVE  /\ newObjects[id].state \in {"committed", "deleted"}
             /\ newObjects[id].state = "committed" =>
                  newObjects[id].chunks \in Manifests /\ newObjects[id].key \in Keys
             /\ newObjects[id].state = "deleted" => newObjects[id].chunks = <<>>
  <2>1. \/ IsCommitting(w, id, objects[id], newObjects[id])
        \/ IsReplacing(w, id, objects[id], newObjects[id])
    BY <1>1, <1>2, <1>3 DEF TxOK
  <2>2. CASE IsCommitting(w, id, objects[id], newObjects[id])
    <3>1. w.step = "end" /\ w.chunks \in Manifests
      BY <1>2, <2>2 DEF IsCommitting, StepOK
    <3>2. newObjects[id].chunks = w.chunks /\ newObjects[id].state = "committed" /\ objects[id].state = "pending"
      BY <2>2, <3>1 DEF IsCommitting
    <3>3. newObjects[id].key \in Keys
      BY <1>2, <3>2 DEF RowsOK
    <3> QED
      BY <3>1, <3>2, <3>3
  <2>3. CASE IsReplacing(w, id, objects[id], newObjects[id])
    BY <1>2, <2>3 DEF IsReplacing
  <2> QED
    BY <2>1, <2>2, <2>3
<1>4. \A id \in ObjectIds, h \in Hashes :
        SeenBy(t, id, h) = IF objectHolder[id] = t THEN Positions(newObjects[id].chunks, h)
                           ELSE Positions(objects[id].chunks, h)
  BY <1>1, <1>2 DEF SeenBy, Reckoned
<1> QED
  BY <1>3, <1>4

\* COMMIT: what was written becomes visible and nothing is held.
LEMMA CommitKeeps ==
  ASSUME PInv, NEW t \in Transactions, Commit(t)
  PROVE  PInv'
<1>1. Types /\ RowsOK /\ Unique /\ TxOK(t) /\ t # NoTransaction
  BY NobodyAssumption DEF PInv
<1>2. PICK w : w = [Idle EXCEPT !.op = tx[t].op, !.result = "ok"]
  OBVIOUS
<1>3. w \in TxRecords /\ w.step = "idle"
  <2>1. tx[t] \in TxRecords
    BY <1>1 DEF Types
  <2> QED
    BY <1>2, <2>1, EndedRecord
<1>4. /\ tx' = [tx EXCEPT ![t] = w] /\ newObjects' = newObjects /\ newBlocks' = newBlocks
      /\ objects' = [id \in ObjectIds |-> IF objectHolder[id] = t THEN newObjects[id] ELSE objects[id]]
      /\ blocks' = [h \in Hashes |-> IF blockHolder[h] = t THEN newBlocks[h] ELSE blocks[h]]
      /\ objectHolder' = [id \in ObjectIds |-> IF objectHolder[id] = t THEN NoTransaction ELSE objectHolder[id]]
      /\ blockHolder' = [h \in Hashes |-> IF blockHolder[h] = t THEN NoTransaction ELSE blockHolder[h]]
  BY <1>2 DEF Commit
<1>5. ASSUME NEW id \in ObjectIds
      PROVE  /\ objects'[id] = IF objectHolder[id] = t THEN newObjects[id] ELSE objects[id]
             /\ objectHolder'[id] = IF objectHolder[id] = t THEN NoTransaction ELSE objectHolder[id]
             /\ objectHolder'[id] # t
             /\ newObjects'[id] = newObjects[id] /\ newObjects[id].key = objects[id].key
             /\ objects'[id].key = objects[id].key
  BY <1>1, <1>4 DEF RowsOK
<1>6. ASSUME NEW h \in Hashes
      PROVE  /\ blocks'[h] = IF blockHolder[h] = t THEN newBlocks[h] ELSE blocks[h]
             /\ blockHolder'[h] = IF blockHolder[h] = t THEN NoTransaction ELSE blockHolder[h]
             /\ blockHolder'[h] # t /\ newBlocks'[h] = newBlocks[h]
  BY <1>1, <1>4
<1>7. tx'[t] = w /\ (\A u \in Transactions : u # t => tx'[u] = tx[u])
  BY <1>1, <1>4 DEF Types
<1>8. Types'
  BY <1>1, <1>3, <1>4 DEF Types
<1>9. ASSUME NEW id \in ObjectIds
      PROVE  /\ objectHolder[id] = t =>
                  /\ newObjects[id].state \in {"committed", "deleted"}
                  /\ newObjects[id].state = "committed" =>
                       newObjects[id].chunks \in Manifests /\ newObjects[id].key \in Keys
                  /\ newObjects[id].state = "deleted" => newObjects[id].chunks = <<>>
             /\ \A h \in Hashes : SeenBy(t, id, h) = Positions(objects'[id].chunks, h)
  BY <1>5, FinishedCounts DEF Commit
<1>10. RowsOK'
  <2>1. ASSUME NEW id \in ObjectIds
        PROVE  /\ objectHolder'[id] = NoTransaction => newObjects'[id] = objects'[id]
               /\ newObjects'[id].key = objects'[id].key
               /\ objects'[id].state # "committed" => objects'[id].chunks = <<>>
               /\ objects'[id].state = "committed" => objects'[id].chunks \in Manifests
               /\ objects'[id].state \in {"pending", "committed"} => objects'[id].key \in Keys
    BY <1>1, <1>5, <1>9 DEF RowsOK
  <2>2. \A h \in Hashes : blockHolder'[h] = NoTransaction => newBlocks'[h] = blocks'[h]
    BY <1>1, <1>6 DEF RowsOK
  <2> QED
    BY <2>1, <2>2 DEF RowsOK
<1>11. Unique'
  <2> SUFFICES ASSUME NEW x \in ObjectIds, NEW y \in ObjectIds, objects'[x].key = objects'[y].key, x # y
               PROVE  /\ ~(objects'[x].state = "committed" /\ objects'[y].state = "committed")
                      /\ ~(newObjects'[x].state = "committed" /\ newObjects'[y].state = "committed")
                      /\ objects'[x].state = "committed" /\ newObjects'[y].state = "committed"
                           => objectHolder'[x] = objectHolder'[y]
    BY DEF Unique
  <2>0. objects[x].key = objects[y].key
    BY <1>5
  <2>1. /\ ~(objects[x].state = "committed" /\ objects[y].state = "committed")
        /\ ~(newObjects[x].state = "committed" /\ newObjects[y].state = "committed")
        /\ objects[x].state = "committed" /\ newObjects[y].state = "committed"
             => objectHolder[x] = objectHolder[y]
        /\ objects[y].state = "committed" /\ newObjects[x].state = "committed"
             => objectHolder[x] = objectHolder[y]
    BY <1>1, <2>0 DEF Unique
  <2> QED
    BY <1>5, <2>1
<1>12. ASSUME NEW h \in Hashes PROVE Counts(blocks'[h], Referring(h)')
  <2>1. Counted(t, h) = Referring(h)'
    BY <1>9, PairsSame DEF Counted, Referring
  <2>2. CASE blockHolder[h] = t
    BY <1>1, <1>6, <2>1, <2>2 DEF TxOK, CountedOK
  <2>3. CASE blockHolder[h] # t
    <3>1. ASSUME NEW id \in ObjectIds PROVE SeenBy(t, id, h) = Positions(objects[id].chunks, h)
      BY <1>1, <2>3 DEF TxOK, CountedOK, SeenBy
    <3>2. Counted(t, h) = Referring(h)
      BY <3>1, PairsSame DEF Counted, Referring
    <3> QED
      BY <1>6, <2>1, <2>3, <3>2 DEF PInv
  <2> QED
    BY <2>2, <2>3
<1>13. Moves(t)
  <2>1. ASSUME NEW id \in ObjectIds, NEW h \in Hashes, blockHolder[h] # t
        PROVE  Positions(objects'[id].chunks, h) = Positions(objects[id].chunks, h)
    BY <1>1, <1>9, <2>1 DEF TxOK, CountedOK, SeenBy
  <2>2. ASSUME NEW id \in ObjectIds, objects[id].state \in {"committed", "deleted"}
        PROVE  objects'[id].key = objects[id].key /\ objects'[id].state \in {"committed", "deleted"}
    BY <1>5, <1>9, <2>2
  <2> QED
    BY <1>4, <1>5, <1>6, <1>7, <2>1, <2>2 DEF Moves
<1>14. TxOK(t)'
  <2>1. StepOK(t, w)'
    BY <1>3 DEF StepOK
  <2> QED
    BY <1>5, <1>6, <1>7, <2>1 DEF TxOK, CountedOK
<1> QED
  BY <1>8, <1>10, <1>11, <1>12, <1>13, <1>14, StepKeeps

-----------------------------------------------------------------------------
(* Statements write what only their transaction sees. *)

\* A statement locks rows nobody held, and writes rows its transaction holds.
Writes(t) ==
  /\ UNCHANGED <<objects, blocks>>
  /\ \A id \in ObjectIds :
       /\ \/ objectHolder'[id] = objectHolder[id]
          \/ objectHolder[id] = NoTransaction /\ objectHolder'[id] = t
       /\ \/ newObjects'[id] = newObjects[id]
          \/ objectHolder[id] = t /\ newObjects'[id].key = newObjects[id].key
  /\ \A h \in Hashes :
       /\ \/ blockHolder'[h] = blockHolder[h]
          \/ blockHolder[h] = NoTransaction /\ blockHolder'[h] = t
       /\ newBlocks'[h] = newBlocks[h] \/ blockHolder'[h] = t

\* A statement that writes only what its transaction has locked keeps the
\* invariant, if it does for the key and the transaction.
LEMMA WriteKeeps ==
  ASSUME PInv, NEW t \in Transactions, NEW w \in TxRecords, tx' = [tx EXCEPT ![t] = w],
         Writes(t), newObjects' \in [ObjectIds -> Rows], newBlocks' \in [Hashes -> Nat \cup {NoRow}],
         objectHolder' \in [ObjectIds -> Transactions \cup {NoTransaction}],
         blockHolder' \in [Hashes -> Transactions \cup {NoTransaction}],
         Unique', TxOK(t)'
  PROVE  PInv'
<1>1. Types /\ RowsOK /\ t # NoTransaction
  BY NobodyAssumption DEF PInv
<1>2. objects' = objects /\ blocks' = blocks
  BY DEF Writes
<1>3. tx' \in [Transactions -> TxRecords] /\ \A u \in Transactions : u # t => tx'[u] = tx[u]
  BY <1>1 DEF Types
<1>4. Types'
  BY <1>1, <1>2, <1>3 DEF Types
<1>5. Moves(t)
  <2>1. ASSUME NEW id \in ObjectIds
        PROVE  /\ \/ objectHolder'[id] = objectHolder[id]
                  \/ {objectHolder[id], objectHolder'[id]} \subseteq {t, NoTransaction}
               /\ objectHolder[id] \notin {t, NoTransaction} => newObjects'[id] = newObjects[id]
    BY DEF Writes
  <2>2. ASSUME NEW h \in Hashes
        PROVE  /\ \/ blockHolder'[h] = blockHolder[h]
                  \/ {blockHolder[h], blockHolder'[h]} \subseteq {t, NoTransaction}
               /\ blockHolder[h] \notin {t, NoTransaction} => newBlocks'[h] = newBlocks[h]
    BY DEF Writes
  <2> QED
    BY <1>2, <1>3, <2>1, <2>2 DEF Moves
<1>6. RowsOK'
  <2>1. ASSUME NEW id \in ObjectIds
        PROVE  /\ objectHolder'[id] = NoTransaction => newObjects'[id] = objects[id]
               /\ newObjects'[id].key = objects[id].key
    BY <1>1 DEF RowsOK, Writes
  <2>2. ASSUME NEW h \in Hashes
        PROVE  blockHolder'[h] = NoTransaction => newBlocks'[h] = blocks[h]
    BY <1>1 DEF RowsOK, Writes
  <2> QED
    BY <1>1, <1>2, <2>1, <2>2 DEF RowsOK
<1>7. \A h \in Hashes : Counts(blocks[h], Referring(h))'
  BY <1>2 DEF PInv, Referring
<1> QED
  BY <1>4, <1>5, <1>6, <1>7, StepKeeps

\* No row becomes committed: a lock on one changes nothing others count on.
LEMMA UniqueStays ==
  ASSUME PInv, NEW t \in Transactions, Writes(t),
         \A id \in ObjectIds : newObjects'[id].state = "committed" => newObjects[id].state = "committed"
  PROVE  Unique'
<1> SUFFICES ASSUME NEW x \in ObjectIds, NEW y \in ObjectIds, objects'[x].key = objects'[y].key, x # y
             PROVE  /\ ~(objects'[x].state = "committed" /\ objects'[y].state = "committed")
                    /\ ~(newObjects'[x].state = "committed" /\ newObjects'[y].state = "committed")
                    /\ objects'[x].state = "committed" /\ newObjects'[y].state = "committed"
                         => objectHolder'[x] = objectHolder'[y]
  BY DEF Unique
<1>1. objects' = objects /\ Unique /\ RowsOK
  BY DEF Writes, PInv
<1>2. /\ ~(objects[x].state = "committed" /\ objects[y].state = "committed")
      /\ ~(newObjects[x].state = "committed" /\ newObjects[y].state = "committed")
      /\ objects[x].state = "committed" /\ newObjects[y].state = "committed"
           => objectHolder[x] = objectHolder[y]
  BY <1>1 DEF Unique
<1>3. /\ objectHolder[x] = NoTransaction => newObjects[x] = objects[x]
      /\ objectHolder[y] = NoTransaction => newObjects[y] = objects[y]
  BY <1>1 DEF RowsOK
<1>4. \A id \in {x, y} : \/ objectHolder'[id] = objectHolder[id]
                         \/ objectHolder[id] = NoTransaction /\ objectHolder'[id] = t
  BY DEF Writes
<1> QED
  BY <1>1, <1>2, <1>3, <1>4

\* Going on to another statement.
LEMMA GotoTakes ==
  ASSUME Types, NEW t \in Transactions,
         NEW step \in {"select", "lock", "detach", "attach", "end", "forget"}, Goto(t, step)
  PROVE  \E w \in TxRecords :
           /\ tx' = [tx EXCEPT ![t] = w]
           /\ w.step = step /\ w.done = 0
           /\ w.op = tx[t].op /\ w.id = tx[t].id /\ w.key = tx[t].key /\ w.chunks = tx[t].chunks
           /\ w.previous = tx[t].previous
<1>1. PICK v : v = tx[t]
  OBVIOUS
<1>2. v \in TxRecords /\ tx \in [Transactions -> TxRecords]
  BY <1>1 DEF Types
<1>3. PICK w : w = [v EXCEPT !.step = step, !.done = 0]
  OBVIOUS
<1>4. /\ w \in TxRecords /\ w.step = step /\ w.done = 0
      /\ w.op = v.op /\ w.id = v.id /\ w.key = v.key /\ w.chunks = v.chunks /\ w.previous = v.previous
  BY <1>2, <1>3 DEF TxRecords
<1>5. tx' = [tx EXCEPT ![t] = w]
  BY <1>1, <1>2, <1>3 DEF Goto
<1> QED
  BY <1>1, <1>4, <1>5

\* The next chunk of a list.
LEMMA DoneTakes ==
  ASSUME Types, NEW t \in Transactions, tx' = [tx EXCEPT ![t].done = Next1(t)]
  PROVE  \E w \in TxRecords :
           /\ tx' = [tx EXCEPT ![t] = w]
           /\ w.step = tx[t].step /\ w.done = tx[t].done + 1
           /\ w.op = tx[t].op /\ w.id = tx[t].id /\ w.key = tx[t].key /\ w.chunks = tx[t].chunks
           /\ w.previous = tx[t].previous
<1>1. PICK v : v = tx[t]
  OBVIOUS
<1>2. v \in TxRecords /\ tx \in [Transactions -> TxRecords]
  BY <1>1 DEF Types
<1>3. PICK n : n = v.done + 1
  OBVIOUS
<1>4. n \in Nat
  <2>1. v.done \in Nat
    BY <1>2 DEF TxRecords
  <2> QED
    BY <1>3, <2>1
<1>5. PICK w : w = [v EXCEPT !.done = n]
  OBVIOUS
<1>6. /\ w \in TxRecords /\ w.step = v.step /\ w.done = n
      /\ w.op = v.op /\ w.id = v.id /\ w.key = v.key /\ w.chunks = v.chunks /\ w.previous = v.previous
  BY <1>2, <1>4, <1>5 DEF TxRecords
<1>7. tx' = [tx EXCEPT ![t] = w]
  BY <1>1, <1>2, <1>3, <1>5 DEF Next1
<1> QED
  BY <1>1, <1>3, <1>6, <1>7

\* The count of a block a transaction may write is that of what it sees.
LEMMA FreeCounts ==
  ASSUME PInv, NEW t \in Transactions, NEW h \in Hashes, Free(blockHolder[h], t)
  PROVE  Counts(newBlocks[h], Counted(t, h))
<1>1. TxOK(t) /\ RowsOK /\ t # NoTransaction
  BY NobodyAssumption DEF PInv
<1>2. CASE blockHolder[h] = t
  BY <1>1, <1>2 DEF TxOK, CountedOK
<1>3. CASE blockHolder[h] # t
  <2>1. newBlocks[h] = blocks[h]
    BY <1>1, <1>3 DEF RowsOK, Free
  <2>2. ASSUME NEW id \in ObjectIds PROVE SeenBy(t, id, h) = Positions(objects[id].chunks, h)
    BY <1>1, <1>3 DEF TxOK, CountedOK, SeenBy
  <2>3. Counted(t, h) = Referring(h)
    BY <2>2, PairsSame DEF Counted, Referring
  <2> QED
    BY <2>1, <2>3 DEF PInv
<1> QED
  BY <1>2, <1>3

\* CommitObject locks the pending row.
LEMMA BeginCommitKeeps ==
  ASSUME PInv, NEW t \in Transactions, NEW id \in ObjectIds, NEW chunks \in Manifests,
         BeginCommit(t, id, chunks)
  PROVE  PInv'
<1>1. Types /\ RowsOK /\ t # NoTransaction
  BY NobodyAssumption DEF PInv
<1>2. /\ tx[t].step = "idle" /\ objects[id].state = "pending" /\ objectHolder[id] = NoTransaction
      /\ objectHolder' = [objectHolder EXCEPT ![id] = t]
      /\ objects' = objects /\ newObjects' = newObjects /\ blocks' = blocks /\ newBlocks' = newBlocks
      /\ blockHolder' = blockHolder
  BY DEF BeginCommit, rowVars
<1>3. objects[id].key \in Keys /\ objects[id].chunks = <<>> /\ newObjects[id] = objects[id]
  BY <1>1, <1>2 DEF RowsOK
<1>4. \E w \in TxRecords :
        /\ tx' = [tx EXCEPT ![t] = w] /\ w.step = "select" /\ w.op = "commit" /\ w.id = id
        /\ w.key = objects[id].key /\ w.chunks = chunks
  <2>1. PICK k, i : k = objects[id].key /\ i = Idle
    OBVIOUS
  <2>2. k \in Keys /\ i \in TxRecords /\ chunks \in Seq(Hashes)
    BY <1>3, <2>1, IdleRecord, ManifestsAssumption
  <2>3. PICK w : w = [i EXCEPT !.step = "select", !.op = "commit", !.id = id, !.key = k, !.chunks = chunks]
    OBVIOUS
  <2>4. w \in TxRecords /\ w.step = "select" /\ w.op = "commit" /\ w.id = id /\ w.key = k /\ w.chunks = chunks
    BY <2>2, <2>3 DEF TxRecords
  <2>5. tx' = [tx EXCEPT ![t] = w]
    BY <2>1, <2>3 DEF BeginCommit
  <2> QED
    BY <2>1, <2>4, <2>5
<1>5. PICK w \in TxRecords :
        /\ tx' = [tx EXCEPT ![t] = w] /\ w.step = "select" /\ w.op = "commit" /\ w.id = id
        /\ w.key = objects[id].key /\ w.chunks = chunks
  BY <1>4
<1>6. tx'[t] = w
  BY <1>1, <1>5 DEF Types
<1>7. /\ objectHolder' \in [ObjectIds -> Transactions \cup {NoTransaction}]
      /\ objectHolder'[id] = t /\ \A x \in ObjectIds : x # id => objectHolder'[x] = objectHolder[x]
  BY <1>1, <1>2 DEF Types
<1>8. /\ \A x \in ObjectIds : objectHolder'[x] = t => x = id
      /\ \A h \in Hashes : blockHolder'[h] # t
  BY <1>2, <1>7, IdleHoldsNothing
<1>9. Writes(t)
  BY <1>2, <1>7 DEF Writes
<1>10. StepOK(t, w)'
  BY <1>2, <1>3, <1>5, <1>7 DEF StepOK
<1>11. IsCommitting(w, id, objects[id], newObjects[id])
  BY <1>2, <1>3, <1>5 DEF IsCommitting
<1>12. ASSUME NEW h \in Hashes PROVE SeenBy(t, id, h)' = Positions(objects'[id].chunks, h)
  BY <1>2, <1>3, <1>5, <1>6 DEF SeenBy, Reckoned
<1>13. TxOK(t)'
  BY <1>2, <1>5, <1>6, <1>8, <1>10, <1>11, <1>12 DEF TxOK, CountedOK
<1>14. Unique'
  BY <1>2, <1>9, UniqueStays
<1> QED
  BY <1>1, <1>2, <1>5, <1>7, <1>9, <1>13, <1>14, WriteKeeps DEF Types

\* SELECT ... FOR UPDATE of the previous object.
LEMMA LockKeeps ==
  ASSUME PInv, NEW t \in Transactions, tx[t].step = "lock",
         objectHolder[tx[t].previous] = NoTransaction,
         objects[tx[t].previous].state = "committed", Lock(t)
  PROVE  PInv'
<1>1. Types /\ RowsOK /\ TxOK(t) /\ t # NoTransaction
  BY NobodyAssumption DEF PInv
<1>2. PICK v, p : v = tx[t] /\ p = v.previous
  OBVIOUS
<1>3. StepOK(t, v) /\ v \in TxRecords
  BY <1>1, <1>2 DEF TxOK, Types
<1>4. /\ v.step = "lock" /\ p \in ObjectIds /\ objectHolder[p] = NoTransaction
      /\ objects[p].state = "committed" /\ objects[p].key = v.key /\ v.key \in Keys
      /\ v.op \in {"commit", "delete"} /\ newObjects[p] = objects[p]
      /\ objects[p].chunks \in Seq(Hashes)
  <2>1. v.step = "lock" /\ p \in ObjectIds /\ objectHolder[p] = NoTransaction
        /\ objects[p].state = "committed" /\ objects[p].key = v.key /\ v.key \in Keys
    BY <1>2, <1>3 DEF StepOK
  <2>2. v.op \in {"commit", "delete"}
    BY <1>3, <2>1 DEF StepOK, TxRecords
  <2>3. objects[p].chunks \in Manifests /\ newObjects[p] = objects[p]
    BY <1>1, <2>1 DEF RowsOK
  <2> QED
    BY <2>1, <2>2, <2>3, ManifestsAssumption
<1>5. /\ objects' = objects /\ newObjects' = newObjects /\ blocks' = blocks /\ newBlocks' = newBlocks
      /\ blockHolder' = blockHolder /\ objectHolder' = [objectHolder EXCEPT ![p] = t]
  BY <1>2 DEF Lock, rowVars
<1>6. /\ objectHolder' \in [ObjectIds -> Transactions \cup {NoTransaction}]
      /\ objectHolder'[p] = t /\ \A x \in ObjectIds : x # p => objectHolder'[x] = objectHolder[x]
  BY <1>1, <1>4, <1>5 DEF Types
<1>7. PICK w \in TxRecords :
        /\ tx' = [tx EXCEPT ![t] = w] /\ w.step = "detach" /\ w.done = 0
        /\ w.op = v.op /\ w.id = v.id /\ w.key = v.key /\ w.chunks = v.chunks /\ w.previous = p
  BY <1>1, <1>2, GotoTakes DEF Lock
<1>8. tx'[t] = w
  BY <1>1, <1>7 DEF Types
<1>9. Writes(t)
  BY <1>4, <1>5, <1>6 DEF Writes
<1>10. StepOK(t, w)'
  <2>1. w.done <= Len(objects[p].chunks)
    <3>1. Len(objects[p].chunks) \in Nat
      BY <1>4
    <3> QED
      BY <1>7, <3>1
  <2>2. w.op = "commit" => /\ w.id \in ObjectIds /\ objectHolder'[w.id] = t /\ w.chunks \in Manifests
                           /\ objects[w.id].state = "pending"
    <3>1. v.op = "commit" => /\ v.id \in ObjectIds /\ objectHolder[v.id] = t /\ v.chunks \in Manifests
                             /\ objects[v.id].state = "pending"
      BY <1>3, <1>4 DEF StepOK
    <3> QED
      BY <1>4, <1>6, <1>7, <3>1
  <2> QED
    BY <1>4, <1>5, <1>6, <1>7, <2>1, <2>2 DEF StepOK
<1>11. ASSUME NEW id \in ObjectIds, objectHolder'[id] = t
       PROVE  \/ IsCommitting(w, id, objects[id], newObjects[id])
              \/ IsReplacing(w, id, objects[id], newObjects[id])
  <2>1. CASE id = p
    BY <1>4, <1>7, <2>1 DEF IsReplacing
  <2>2. CASE id # p
    <3>1. IsCommitting(v, id, objects[id], newObjects[id])
      BY <1>1, <1>2, <1>4, <1>6, <1>11, <2>2 DEF TxOK, IsReplacing
    <3> QED
      BY <1>4, <1>7, <3>1 DEF IsCommitting
  <2> QED
    BY <2>1, <2>2
<1>12. ASSUME NEW id \in ObjectIds, NEW h \in Hashes PROVE SeenBy(t, id, h)' = SeenBy(t, id, h)
  <2>1. CASE id = p
    <3>1. SeenBy(t, id, h)' = {i \in Positions(objects[p].chunks, h) : i > 0}
      BY <1>5, <1>6, <1>7, <1>8, <2>1 DEF SeenBy, Reckoned
    <3>2. SeenBy(t, id, h) = Positions(objects[p].chunks, h)
      BY <1>1, <1>4, <2>1 DEF SeenBy
    <3> QED
      BY <1>4, <3>1, <3>2, PositionsOf
  <2>2. CASE id # p
    BY <1>2, <1>4, <1>5, <1>6, <1>7, <1>8, <2>2 DEF SeenBy, Reckoned
  <2> QED
    BY <2>1, <2>2
<1>13. CountedOK(t)'
  <2>1. ASSUME NEW h \in Hashes PROVE Counted(t, h)' = Counted(t, h)
    BY <1>12, PairsSame DEF Counted
  <2>2. ASSUME NEW h \in Hashes, blockHolder[h] # t, NEW id \in ObjectIds
        PROVE  SeenBy(t, id, h) = Positions(objects[id].chunks, h)
    BY <1>1, <2>2 DEF TxOK, CountedOK, SeenBy
  <2> QED
    BY <1>1, <1>5, <1>12, <2>1, <2>2 DEF TxOK, CountedOK
<1>14. TxOK(t)'
  BY <1>5, <1>7, <1>8, <1>10, <1>11, <1>13 DEF TxOK
<1>15. Unique'
  BY <1>5, <1>9, UniqueStays
<1> QED
  BY <1>1, <1>5, <1>6, <1>7, <1>9, <1>14, <1>15, WriteKeeps DEF Types

\* While a transaction detaches, the previous object is the row it replaces.
LEMMA Detaching ==
  ASSUME PInv, NEW t \in Transactions, tx[t].step = "detach"
  PROVE  /\ tx[t].previous \in ObjectIds /\ objectHolder[tx[t].previous] = t
         /\ tx[t].op \in {"commit", "delete"} /\ tx[t].done \in Nat
         /\ objects[tx[t].previous].chunks \in Seq(Hashes)
         /\ IsReplacing(tx[t], tx[t].previous, objects[tx[t].previous], newObjects[tx[t].previous])
<1>1. Types /\ RowsOK /\ TxOK(t)
  BY DEF PInv
<1>2. PICK v, p : v = tx[t] /\ p = v.previous
  OBVIOUS
<1>3. StepOK(t, v) /\ v \in TxRecords
  BY <1>1, <1>2 DEF TxOK, Types
<1>4. /\ p \in ObjectIds /\ objectHolder[p] = t /\ objects[p].state = "committed"
      /\ v.op \in {"commit", "delete"} /\ v.done \in Nat
  BY <1>2, <1>3 DEF StepOK, TxRecords
<1>5. objects[p].chunks \in Seq(Hashes)
  BY <1>1, <1>4, ManifestsAssumption DEF RowsOK
<1>6. IsReplacing(v, p, objects[p], newObjects[p])
  BY <1>1, <1>2, <1>4 DEF TxOK, IsCommitting
<1> QED
  BY <1>2, <1>4, <1>5, <1>6

\* One chunk of the previous object is detached.
LEMMA DetachChunkKeeps ==
  ASSUME PInv, NEW t \in Transactions, DetachChunk(t)
  PROVE  PInv'
<1>1. Types /\ RowsOK /\ TxOK(t) /\ t # NoTransaction
  BY NobodyAssumption DEF PInv
<1>2. PICK v, p, n, c : v = tx[t] /\ p = v.previous /\ n = v.done /\ c = objects[p].chunks
  OBVIOUS
<1>3. v.step = "detach" /\ n + 1 \in DOMAIN c
  BY <1>2 DEF DetachChunk, Next1
<1>4. /\ p \in ObjectIds /\ objectHolder[p] = t /\ n \in Nat /\ c \in Seq(Hashes)
      /\ v.op \in {"commit", "delete"} /\ StepOK(t, v)
  BY <1>1, <1>2, <1>3, Detaching DEF TxOK
<1>5. PICK g : g = c[n + 1]
  OBVIOUS
<1>6. g \in Hashes /\ n + 1 <= Len(c)
  BY <1>3, <1>4, <1>5
<1>7. PICK count : count = newBlocks[g]
  OBVIOUS
<1>8. /\ Free(blockHolder[g], t)
      /\ newBlocks' = [newBlocks EXCEPT ![g] = IF count = NoRow \/ count = 0 THEN count ELSE count - 1]
      /\ blockHolder' = [blockHolder EXCEPT ![g] = t]
      /\ tx' = [tx EXCEPT ![t].done = Next1(t)]
      /\ objects' = objects /\ newObjects' = newObjects /\ blocks' = blocks /\ objectHolder' = objectHolder
  BY <1>2, <1>5, <1>7 DEF DetachChunk, Next1
<1>9. PICK w \in TxRecords :
        /\ tx' = [tx EXCEPT ![t] = w] /\ w.step = "detach" /\ w.done = n + 1
        /\ w.op = v.op /\ w.id = v.id /\ w.key = v.key /\ w.chunks = v.chunks /\ w.previous = p
  <2>1. tx' = [tx EXCEPT ![t].done = Next1(t)]
    BY <1>8
  <2>2. PICK w \in TxRecords :
          /\ tx' = [tx EXCEPT ![t] = w] /\ w.step = tx[t].step /\ w.done = tx[t].done + 1
          /\ w.op = tx[t].op /\ w.id = tx[t].id /\ w.key = tx[t].key /\ w.chunks = tx[t].chunks
          /\ w.previous = tx[t].previous
    BY <1>1, <2>1, DoneTakes
  <2> QED
    BY <1>2, <1>3, <2>2
<1>10. tx'[t] = w
  BY <1>1, <1>9 DEF Types
<1>11. \A h : /\ h = g => n + 1 \in {i \in Positions(c, h) : i > n}
              /\ {i \in Positions(c, h) : i > n + 1} =
                    IF h = g THEN {i \in Positions(c, h) : i > n} \ {n + 1}
                    ELSE {i \in Positions(c, h) : i > n}
  BY <1>3, <1>4, <1>5, PositionsAfter
<1>12. \A h : SeenBy(t, p, h) = {i \in Positions(c, h) : i > n}
  BY <1>2, <1>3, <1>4 DEF SeenBy, Reckoned
<1>13. \A h : SeenBy(t, p, h)' = {i \in Positions(c, h) : i > n + 1}
  BY <1>2, <1>4, <1>8, <1>9, <1>10 DEF SeenBy, Reckoned
<1>14. \A id \in ObjectIds : \A h : id # p => SeenBy(t, id, h)' = SeenBy(t, id, h)
  BY <1>2, <1>8, <1>9, <1>10 DEF SeenBy, Reckoned
<1>15. count \in Nat \ {0} /\ Counts(count - 1, Counted(t, g)')
  <2>1. PICK S, T : S = [id \in ObjectIds |-> SeenBy(t, id, g)] /\ T = [id \in ObjectIds |-> SeenBy(t, id, g)']
    OBVIOUS
  <2>2. Counted(t, g) = Pairs(S) /\ Counted(t, g)' = Pairs(T)
    BY <2>1 DEF Counted, Pairs
  <2>3. Counts(count, Pairs(S)) /\ count \in Nat \cup {NoRow}
    BY <1>1, <1>6, <1>7, <1>8, <2>2, FreeCounts DEF Types
  <2>4. PICK i : i = n + 1
    OBVIOUS
  <2>5. i \in S[p] /\ T[p] = S[p] \ {i} /\ \A id \in ObjectIds : id # p => T[id] = S[id]
    BY <1>4, <1>11, <1>12, <1>13, <1>14, <2>1, <2>4
  <2>6. count \in Nat \ {0} /\ Counts(count - 1, Pairs(T))
    BY <1>4, <2>3, <2>5, PairsLess
  <2> QED
    BY <2>2, <2>6
<1>16. newBlocks' = [newBlocks EXCEPT ![g] = count - 1] /\ count - 1 \in Nat
  <2>1. count # NoRow /\ count # 0 /\ count - 1 \in Nat
    BY <1>15, NoRowAssumption
  <2>2. PICK less : less = IF count = NoRow \/ count = 0 THEN count ELSE count - 1
    OBVIOUS
  <2>3. less = count - 1
    BY <2>1, <2>2
  <2> QED
    BY <1>8, <2>1, <2>2, <2>3
<1>17. /\ newBlocks' \in [Hashes -> Nat \cup {NoRow}]
       /\ newBlocks'[g] = count - 1 /\ \A h \in Hashes : h # g => newBlocks'[h] = newBlocks[h]
  BY <1>1, <1>6, <1>16 DEF Types
<1>18. /\ blockHolder' \in [Hashes -> Transactions \cup {NoTransaction}]
       /\ blockHolder'[g] = t /\ \A h \in Hashes : h # g => blockHolder'[h] = blockHolder[h]
  BY <1>1, <1>6, <1>8 DEF Types
<1>19. Writes(t)
  BY <1>8, <1>17, <1>18 DEF Writes, Free
<1>20. StepOK(t, w)'
  <2>1. w.step = "detach" => w.done <= Len(objects'[w.previous].chunks)
    BY <1>2, <1>6, <1>8, <1>9
  <2> QED
    BY <1>2, <1>3, <1>4, <1>8, <1>9, <2>1 DEF StepOK
<1>21. ASSUME NEW id \in ObjectIds, objectHolder[id] = t
       PROVE  \/ IsCommitting(w, id, objects[id], newObjects[id])
              \/ IsReplacing(w, id, objects[id], newObjects[id])
  BY <1>1, <1>2, <1>3, <1>9, <1>21 DEF TxOK, IsCommitting, IsReplacing
<1>22. ASSUME NEW h \in Hashes, h # g, NEW id \in ObjectIds
       PROVE  SeenBy(t, id, h)' = SeenBy(t, id, h)
  BY <1>11, <1>12, <1>13, <1>14, <1>22
<1>23. CountedOK(t)'
  <2>1. ASSUME NEW h \in Hashes, blockHolder'[h] = t PROVE Counts(newBlocks'[h], Counted(t, h)')
    <3>1. CASE h = g
      BY <1>15, <1>17, <3>1
    <3>2. CASE h # g
      <4>1. Counted(t, h)' = Counted(t, h)
        BY <1>22, <3>2, PairsSame DEF Counted
      <4> QED
        BY <1>1, <1>17, <1>18, <2>1, <3>2, <4>1 DEF TxOK, CountedOK
    <3> QED
      BY <3>1, <3>2
  <2>2. ASSUME NEW h \in Hashes, blockHolder'[h] # t, NEW id \in ObjectIds, objectHolder'[id] = t
        PROVE  SeenBy(t, id, h)' = Positions(objects'[id].chunks, h)
    BY <1>1, <1>8, <1>18, <1>22, <2>2 DEF TxOK, CountedOK
  <2> QED
    BY <2>1, <2>2 DEF CountedOK
<1>24. TxOK(t)'
  BY <1>8, <1>9, <1>10, <1>20, <1>21, <1>23 DEF TxOK
<1>25. Unique'
  BY <1>8, <1>19, UniqueStays
<1> QED
  BY <1>1, <1>8, <1>9, <1>17, <1>18, <1>19, <1>24, <1>25, WriteKeeps DEF Types

\* The previous object is marked deleted.
LEMMA RetireKeeps ==
  ASSUME PInv, NEW t \in Transactions, Retire(t)
  PROVE  PInv'
<1>1. Types /\ RowsOK /\ TxOK(t) /\ t # NoTransaction
  BY NobodyAssumption DEF PInv
<1>2. PICK v, p, c : v = tx[t] /\ p = v.previous /\ c = objects[p].chunks
  OBVIOUS
<1>3. v.step = "detach" /\ v.done = Len(c)
  BY <1>2 DEF Retire
<1>4. /\ p \in ObjectIds /\ objectHolder[p] = t /\ c \in Seq(Hashes)
      /\ v.op \in {"commit", "delete"} /\ StepOK(t, v) /\ IsReplacing(v, p, objects[p], newObjects[p])
  BY <1>1, <1>2, <1>3, Detaching DEF TxOK
<1>5. PICK row : row = [newObjects[p] EXCEPT !.state = "deleted", !.chunks = <<>>]
  OBVIOUS
<1>6. /\ row \in Rows /\ row.state = "deleted" /\ row.chunks = <<>> /\ row.key = newObjects[p].key
      /\ newObjects' = [newObjects EXCEPT ![p] = row]
  <2>1. PICK r : r = newObjects[p]
    OBVIOUS
  <2>2. r \in Rows /\ newObjects \in [ObjectIds -> Rows]
    BY <1>1, <1>4, <2>1 DEF Types
  <2>3. PICK e : e = <<>>
    OBVIOUS
  <2>4. e \in Seq(Hashes)
    BY <2>3
  <2>5. row = [r EXCEPT !.state = "deleted", !.chunks = e]
    BY <1>5, <2>1, <2>3
  <2>6. row \in Rows /\ row.state = "deleted" /\ row.chunks = e /\ row.key = r.key
    BY <2>2, <2>4, <2>5 DEF Rows
  <2>7. newObjects' = [newObjects EXCEPT ![p] = row]
    BY <1>2, <1>5, <2>2 DEF Retire
  <2> QED
    BY <2>1, <2>3, <2>6, <2>7
<1>7. /\ newObjects' \in [ObjectIds -> Rows] /\ newObjects'[p] = row
      /\ \A id \in ObjectIds : id # p => newObjects'[id] = newObjects[id]
      /\ objects' = objects /\ blocks' = blocks /\ newBlocks' = newBlocks
      /\ objectHolder' = objectHolder /\ blockHolder' = blockHolder
  <2>1. /\ objects' = objects /\ blocks' = blocks /\ newBlocks' = newBlocks
        /\ objectHolder' = objectHolder /\ blockHolder' = blockHolder
    BY DEF Retire, lockVars
  <2>2. newObjects \in [ObjectIds -> Rows]
    BY <1>1 DEF Types
  <2> QED
    BY <1>4, <1>6, <2>1, <2>2
<1>8. PICK w \in TxRecords :
        /\ tx' = [tx EXCEPT ![t] = w] /\ w.done = 0
        /\ w.step = IF v.op = "commit" THEN "attach" ELSE "end"
        /\ w.op = v.op /\ w.id = v.id /\ w.key = v.key /\ w.chunks = v.chunks /\ w.previous = p
  <2>1. PICK s : s = IF v.op = "commit" THEN "attach" ELSE "end"
    OBVIOUS
  <2>2. s \in {"attach", "end"} /\ Goto(t, s)
    BY <1>2, <2>1 DEF Retire
  <2>3. s \in {"select", "lock", "detach", "attach", "end", "forget"}
    BY <2>2
  <2> QED
    BY <1>1, <1>2, <2>1, <2>2, <2>3, GotoTakes
<1>9. tx'[t] = w
  BY <1>1, <1>8 DEF Types
<1>10. Writes(t)
  BY <1>4, <1>6, <1>7 DEF Writes
<1>11. w.chunks \in Seq(Hashes) /\ 0 <= Len(w.chunks) /\ SubSeq(w.chunks, 1, 0) = <<>>
  <2>1. w.chunks \in Seq(Hashes)
    BY DEF TxRecords
  <2> QED
    BY <2>1
<1>12. StepOK(t, w)'
  BY <1>3, <1>4, <1>7, <1>8, <1>11 DEF StepOK
<1>13. ASSUME NEW id \in ObjectIds, objectHolder[id] = t
       PROVE  \/ IsCommitting(w, id, objects[id], newObjects'[id])
              \/ IsReplacing(w, id, objects[id], newObjects'[id])
  <2>1. CASE id = p
    BY <1>4, <1>6, <1>7, <1>8, <2>1 DEF IsReplacing
  <2>2. CASE id # p
    <3>1. IsCommitting(v, id, objects[id], newObjects[id])
      BY <1>1, <1>2, <1>13, <2>2 DEF TxOK, IsReplacing
    <3>2. w.step = "attach" /\ SubSeq(w.chunks, 1, w.done) = <<>>
      BY <1>8, <1>11, <3>1 DEF IsCommitting
    <3> QED
      BY <1>3, <1>7, <1>8, <2>2, <3>1, <3>2 DEF IsCommitting
  <2> QED
    BY <2>1, <2>2
<1>14. ASSUME NEW id \in ObjectIds, NEW h \in Hashes PROVE SeenBy(t, id, h)' = SeenBy(t, id, h)
  <2>1. CASE id = p
    <3>1. SeenBy(t, id, h) = {i \in Positions(c, h) : i > Len(c)}
      BY <1>2, <1>3, <1>4, <2>1 DEF SeenBy, Reckoned
    <3>2. SeenBy(t, id, h)' = Positions(<<>>, h)
      BY <1>4, <1>6, <1>7, <1>8, <1>9, <2>1 DEF SeenBy, Reckoned
    <3> QED
      BY <1>4, <3>1, <3>2, PositionsOf
  <2>2. CASE id # p
    BY <1>2, <1>7, <1>8, <1>9, <2>2 DEF SeenBy, Reckoned
  <2> QED
    BY <2>1, <2>2
<1>15. CountedOK(t)'
  <2>1. ASSUME NEW h \in Hashes PROVE Counted(t, h)' = Counted(t, h)
    BY <1>14, PairsSame DEF Counted
  <2> QED
    BY <1>1, <1>7, <1>14, <2>1 DEF TxOK, CountedOK
<1>16. TxOK(t)'
  BY <1>7, <1>8, <1>9, <1>12, <1>13, <1>15 DEF TxOK
<1>17. Unique'
  BY <1>6, <1>7, <1>10, UniqueStays
<1> QED
  BY <1>1, <1>7, <1>8, <1>10, <1>16, <1>17, WriteKeeps DEF Types

\* The first chunks of a list, one more.
LEMMA OneChunkMore ==
  ASSUME NEW c \in Seq(Hashes), NEW n \in Nat, n + 1 \in DOMAIN c
  PROVE  /\ SubSeq(c, 1, n) \in Seq(Hashes) /\ Len(SubSeq(c, 1, n)) = n
         /\ Append(SubSeq(c, 1, n), c[n + 1]) = SubSeq(c, 1, n + 1)
<1>1. Len(c) \in Nat /\ DOMAIN c = 1 .. Len(c) /\ n + 1 <= Len(c)
  OBVIOUS
<1>2. PICK s, u, a : s = SubSeq(c, 1, n) /\ u = SubSeq(c, 1, n + 1) /\ a = Append(s, c[n + 1])
  OBVIOUS
<1>3. s \in Seq(Hashes) /\ Len(s) = n /\ \A i \in 1 .. n : s[i] = c[i]
  BY <1>1, <1>2
<1>4. u \in Seq(Hashes) /\ Len(u) = n + 1 /\ \A i \in 1 .. n + 1 : u[i] = c[i]
  BY <1>1, <1>2
<1>5. a \in Seq(Hashes) /\ Len(a) = n + 1 /\ a[n + 1] = c[n + 1] /\ \A i \in 1 .. n : a[i] = s[i]
  BY <1>1, <1>2, <1>3
<1>6. \A i \in 1 .. n + 1 : a[i] = u[i]
  BY <1>3, <1>4, <1>5
<1>7. a = u
  BY <1>4, <1>5, <1>6
<1> QED
  BY <1>2, <1>3, <1>7

\* While a transaction attaches, its object has the chunks attached so far.
LEMMA Attaching ==
  ASSUME PInv, NEW t \in Transactions, tx[t].step = "attach"
  PROVE  /\ tx[t].id \in ObjectIds /\ objectHolder[tx[t].id] = t /\ tx[t].op = "commit"
         /\ tx[t].done \in Nat /\ tx[t].done <= Len(tx[t].chunks) /\ tx[t].chunks \in Seq(Hashes)
         /\ objects[tx[t].id].state = "pending" /\ objects[tx[t].id].key = tx[t].key
         /\ newObjects[tx[t].id].state = "pending" /\ newObjects[tx[t].id].key = tx[t].key
         /\ newObjects[tx[t].id].chunks = SubSeq(tx[t].chunks, 1, tx[t].done)
<1>1. Types /\ RowsOK /\ TxOK(t)
  BY DEF PInv
<1>2. PICK v, id : v = tx[t] /\ id = v.id
  OBVIOUS
<1>3. StepOK(t, v) /\ v \in TxRecords
  BY <1>1, <1>2 DEF TxOK, Types
<1>4. v.done \in Nat /\ v.chunks \in Seq(Hashes)
  BY <1>3 DEF TxRecords
<1>5. /\ v.step = "attach" /\ v.op = "commit" /\ v.done <= Len(v.chunks)
      /\ id \in ObjectIds /\ objectHolder[id] = t /\ objects[id].state = "pending"
  BY <1>2, <1>3 DEF StepOK
<1>6. IsCommitting(v, id, objects[id], newObjects[id])
  BY <1>1, <1>2, <1>5 DEF TxOK, IsReplacing
<1>7. newObjects[id].key = objects[id].key
  BY <1>1, <1>5 DEF RowsOK
<1>8. /\ objects[id].key = v.key /\ newObjects[id].state = "pending"
      /\ newObjects[id].chunks = SubSeq(v.chunks, 1, v.done)
  BY <1>5, <1>6 DEF IsCommitting
<1> QED
  BY <1>2, <1>4, <1>5, <1>7, <1>8

\* One chunk of the new object is attached.
LEMMA AttachChunkKeeps ==
  ASSUME PInv, NEW t \in Transactions, AttachChunk(t)
  PROVE  PInv'
<1>1. Types /\ RowsOK /\ TxOK(t) /\ t # NoTransaction
  BY NobodyAssumption DEF PInv
<1>2. PICK v, p, n, c : v = tx[t] /\ p = v.id /\ n = v.done /\ c = v.chunks
  OBVIOUS
<1>3. v.step = "attach" /\ n + 1 \in DOMAIN c
  BY <1>2 DEF AttachChunk, Next1
<1>4. /\ p \in ObjectIds /\ objectHolder[p] = t /\ v.op = "commit" /\ n \in Nat /\ c \in Seq(Hashes)
      /\ objects[p].state = "pending" /\ newObjects[p].state = "pending"
      /\ objects[p].key = v.key /\ newObjects[p].chunks = SubSeq(c, 1, n) /\ StepOK(t, v)
  BY <1>1, <1>2, <1>3, Attaching DEF TxOK
<1>5. PICK g : g = c[n + 1]
  OBVIOUS
<1>6. g \in Hashes /\ n + 1 <= Len(c)
  BY <1>3, <1>4, <1>5
<1>7. PICK count, more : count = newBlocks[g] /\ more = (IF count = NoRow THEN 0 ELSE count) + 1
  OBVIOUS
<1>8. /\ Free(blockHolder[g], t)
      /\ newBlocks' = [newBlocks EXCEPT ![g] = more]
      /\ blockHolder' = [blockHolder EXCEPT ![g] = t]
      /\ tx' = [tx EXCEPT ![t].done = Next1(t)]
      /\ newObjects' = [newObjects EXCEPT ![p].chunks = Append(@, g)]
      /\ objects' = objects /\ blocks' = blocks /\ objectHolder' = objectHolder
  BY <1>2, <1>5, <1>7 DEF AttachChunk, Next1
<1>9. PICK w \in TxRecords :
        /\ tx' = [tx EXCEPT ![t] = w] /\ w.step = "attach" /\ w.done = n + 1
        /\ w.op = v.op /\ w.id = p /\ w.key = v.key /\ w.chunks = c /\ w.previous = v.previous
  <2>1. tx' = [tx EXCEPT ![t].done = Next1(t)]
    BY <1>8
  <2>2. PICK w \in TxRecords :
          /\ tx' = [tx EXCEPT ![t] = w] /\ w.step = tx[t].step /\ w.done = tx[t].done + 1
          /\ w.op = tx[t].op /\ w.id = tx[t].id /\ w.key = tx[t].key /\ w.chunks = tx[t].chunks
          /\ w.previous = tx[t].previous
    BY <1>1, <2>1, DoneTakes
  <2> QED
    BY <1>2, <1>3, <2>2
<1>10. tx'[t] = w
  BY <1>1, <1>9 DEF Types
<1>11. PICK s, e : s = SubSeq(c, 1, n) /\ e = SubSeq(c, 1, n + 1)
  OBVIOUS
<1>12. s \in Seq(Hashes) /\ Len(s) = n /\ Append(s, g) = e
  BY <1>3, <1>4, <1>5, <1>11, OneChunkMore
<1>13. /\ newObjects' \in [ObjectIds -> Rows]
       /\ newObjects'[p].state = "pending" /\ newObjects'[p].key = newObjects[p].key
       /\ newObjects'[p].chunks = e
       /\ \A id \in ObjectIds : id # p => newObjects'[id] = newObjects[id]
  <2>1. PICK r : r = newObjects[p]
    OBVIOUS
  <2>2. r \in Rows /\ newObjects \in [ObjectIds -> Rows] /\ r.chunks = s /\ r.state = "pending"
    BY <1>1, <1>4, <1>11, <2>1 DEF Types
  <2>3. PICK q : q = [r EXCEPT !.chunks = e]
    OBVIOUS
  <2>4. e \in Seq(Hashes)
    BY <1>6, <1>12
  <2>5. q \in Rows /\ q.state = r.state /\ q.key = r.key /\ q.chunks = e
    BY <2>2, <2>3, <2>4 DEF Rows
  <2>6. newObjects' = [newObjects EXCEPT ![p] = q]
    BY <1>4, <1>8, <1>12, <2>1, <2>2, <2>3
  <2> QED
    BY <1>4, <2>1, <2>2, <2>5, <2>6
<1>14. \A h : /\ n + 1 \notin Positions(s, h)
              /\ Positions(e, h) = IF h = g THEN Positions(s, h) \cup {n + 1} ELSE Positions(s, h)
  <2>1. \A h : /\ Len(s) + 1 \notin Positions(s, h)
               /\ Positions(Append(s, g), h) =
                    IF h = g THEN Positions(s, h) \cup {Len(s) + 1} ELSE Positions(s, h)
    BY <1>6, <1>12, PositionsMore
  <2> QED
    BY <1>12, <2>1
<1>15. \A h : SeenBy(t, p, h) = Positions(s, h)
  BY <1>2, <1>3, <1>4, <1>11 DEF SeenBy, Reckoned
<1>16. \A h : SeenBy(t, p, h)' = Positions(e, h)
  BY <1>4, <1>8, <1>9, <1>10, <1>13 DEF SeenBy, Reckoned
<1>17. \A id \in ObjectIds : \A h : id # p => SeenBy(t, id, h)' = SeenBy(t, id, h)
  BY <1>2, <1>3, <1>8, <1>9, <1>10, <1>13 DEF SeenBy, Reckoned
<1>18. count \in Nat \cup {NoRow} /\ Counts(more, Counted(t, g)')
  <2>1. PICK S, T : S = [id \in ObjectIds |-> SeenBy(t, id, g)] /\ T = [id \in ObjectIds |-> SeenBy(t, id, g)']
    OBVIOUS
  <2>2. Counted(t, g) = Pairs(S) /\ Counted(t, g)' = Pairs(T)
    BY <2>1 DEF Counted, Pairs
  <2>3. Counts(count, Pairs(S)) /\ count \in Nat \cup {NoRow}
    BY <1>1, <1>6, <1>7, <1>8, <2>2, FreeCounts DEF Types
  <2>4. PICK i : i = n + 1
    OBVIOUS
  <2>5. i \notin S[p] /\ T[p] = S[p] \cup {i} /\ \A id \in ObjectIds : id # p => T[id] = S[id]
    BY <1>4, <1>14, <1>15, <1>16, <1>17, <2>1, <2>4
  <2>6. Counts((IF count = NoRow THEN 0 ELSE count) + 1, Pairs(T))
    BY <1>4, <2>3, <2>5, PairsMore
  <2> QED
    BY <1>7, <2>2, <2>3, <2>6
<1>19. more \in Nat
  BY <1>7, <1>18
<1>20. /\ newBlocks' \in [Hashes -> Nat \cup {NoRow}]
       /\ newBlocks'[g] = more /\ \A h \in Hashes : h # g => newBlocks'[h] = newBlocks[h]
  BY <1>1, <1>6, <1>8, <1>19 DEF Types
<1>21. /\ blockHolder' \in [Hashes -> Transactions \cup {NoTransaction}]
       /\ blockHolder'[g] = t /\ \A h \in Hashes : h # g => blockHolder'[h] = blockHolder[h]
  BY <1>1, <1>6, <1>8 DEF Types
<1>22. Writes(t)
  BY <1>4, <1>8, <1>13, <1>20, <1>21 DEF Writes, Free
<1>23. StepOK(t, w)'
  <2>1. w.done <= Len(w.chunks)
    BY <1>6, <1>9
  <2> QED
    BY <1>2, <1>3, <1>4, <1>8, <1>9, <2>1 DEF StepOK
<1>24. ASSUME NEW id \in ObjectIds, objectHolder[id] = t
       PROVE  \/ IsCommitting(w, id, objects[id], newObjects'[id])
              \/ IsReplacing(w, id, objects[id], newObjects'[id])
  <2>1. CASE id = p
    BY <1>4, <1>9, <1>11, <1>13, <2>1 DEF IsCommitting
  <2>2. CASE id # p
    BY <1>1, <1>2, <1>3, <1>9, <1>13, <1>24, <2>2 DEF TxOK, IsCommitting, IsReplacing
  <2> QED
    BY <2>1, <2>2
<1>25. ASSUME NEW h \in Hashes, h # g, NEW id \in ObjectIds
       PROVE  SeenBy(t, id, h)' = SeenBy(t, id, h)
  BY <1>14, <1>15, <1>16, <1>17, <1>25
<1>26. CountedOK(t)'
  <2>1. ASSUME NEW h \in Hashes, blockHolder'[h] = t PROVE Counts(newBlocks'[h], Counted(t, h)')
    <3>1. CASE h = g
      BY <1>18, <1>20, <3>1
    <3>2. CASE h # g
      <4>1. Counted(t, h)' = Counted(t, h)
        BY <1>25, <3>2, PairsSame DEF Counted
      <4> QED
        BY <1>1, <1>20, <1>21, <2>1, <3>2, <4>1 DEF TxOK, CountedOK
    <3> QED
      BY <3>1, <3>2
  <2>2. ASSUME NEW h \in Hashes, blockHolder'[h] # t, NEW id \in ObjectIds, objectHolder'[id] = t
        PROVE  SeenBy(t, id, h)' = Positions(objects'[id].chunks, h)
    BY <1>1, <1>8, <1>21, <1>25, <2>2 DEF TxOK, CountedOK
  <2> QED
    BY <2>1, <2>2 DEF CountedOK
<1>27. TxOK(t)'
  BY <1>8, <1>9, <1>10, <1>23, <1>24, <1>26 DEF TxOK
<1>28. Unique'
  BY <1>4, <1>8, <1>13, <1>22, UniqueStays
<1> QED
  BY <1>1, <1>8, <1>9, <1>13, <1>20, <1>21, <1>22, <1>27, <1>28, WriteKeeps DEF Types

\* The new object is marked committed.
LEMMA MakeCommittedKeeps ==
  ASSUME PInv, NEW t \in Transactions, AttachedAll(t), Unsettled(t) = {}, Taken(t) = {},
         MakeCommitted(t)
  PROVE  PInv'
<1>1. Types /\ RowsOK /\ Unique /\ TxOK(t) /\ t # NoTransaction
  BY NobodyAssumption DEF PInv
<1>2. PICK v, p, c : v = tx[t] /\ p = v.id /\ c = v.chunks
  OBVIOUS
<1>3. v.step = "attach" /\ v.done = Len(c)
  BY <1>2 DEF AttachedAll
<1>4. /\ p \in ObjectIds /\ objectHolder[p] = t /\ v.op = "commit" /\ c \in Seq(Hashes)
      /\ objects[p].state = "pending" /\ newObjects[p].state = "pending"
      /\ objects[p].key = v.key /\ newObjects[p].key = v.key
      /\ newObjects[p].chunks = SubSeq(c, 1, Len(c)) /\ StepOK(t, v)
  BY <1>1, <1>2, <1>3, Attaching DEF TxOK
<1>5. newObjects[p].chunks = c
  BY <1>4
<1>6. /\ objects' = objects /\ blocks' = blocks /\ newBlocks' = newBlocks
      /\ objectHolder' = objectHolder /\ blockHolder' = blockHolder
      /\ newObjects' = [newObjects EXCEPT ![p].state = "committed"]
  BY <1>2 DEF MakeCommitted, lockVars
<1>7. /\ newObjects' \in [ObjectIds -> Rows]
      /\ newObjects'[p].state = "committed" /\ newObjects'[p].key = v.key /\ newObjects'[p].chunks = c
      /\ \A id \in ObjectIds : id # p => newObjects'[id] = newObjects[id]
  <2>1. PICK r : r = newObjects[p]
    OBVIOUS
  <2>2. r \in Rows /\ newObjects \in [ObjectIds -> Rows]
    BY <1>1, <1>4, <2>1 DEF Types
  <2>3. PICK q : q = [r EXCEPT !.state = "committed"]
    OBVIOUS
  <2>4. q \in Rows /\ q.state = "committed" /\ q.key = r.key /\ q.chunks = r.chunks
    BY <2>2, <2>3 DEF Rows
  <2>5. newObjects' = [newObjects EXCEPT ![p] = q]
    BY <1>4, <1>6, <2>1, <2>2, <2>3
  <2> QED
    BY <1>4, <1>5, <2>1, <2>2, <2>4, <2>5
<1>8. PICK w \in TxRecords :
        /\ tx' = [tx EXCEPT ![t] = w] /\ w.step = "end" /\ w.done = 0
        /\ w.op = v.op /\ w.id = p /\ w.key = v.key /\ w.chunks = c /\ w.previous = v.previous
  BY <1>1, <1>2, GotoTakes DEF MakeCommitted
<1>9. tx'[t] = w
  BY <1>1, <1>8 DEF Types
<1>10. Writes(t)
  BY <1>4, <1>6, <1>7 DEF Writes
<1>11. StepOK(t, w)'
  BY <1>2, <1>3, <1>4, <1>6, <1>8 DEF StepOK
<1>12. ASSUME NEW id \in ObjectIds, objectHolder[id] = t
       PROVE  \/ IsCommitting(w, id, objects[id], newObjects'[id])
              \/ IsReplacing(w, id, objects[id], newObjects'[id])
  <2>1. CASE id = p
    BY <1>4, <1>7, <1>8, <2>1 DEF IsCommitting
  <2>2. CASE id # p
    BY <1>1, <1>2, <1>3, <1>7, <1>8, <1>12, <2>2 DEF TxOK, IsCommitting, IsReplacing
  <2> QED
    BY <2>1, <2>2
<1>13. ASSUME NEW id \in ObjectIds, NEW h \in Hashes PROVE SeenBy(t, id, h)' = SeenBy(t, id, h)
  BY <1>2, <1>3, <1>5, <1>6, <1>7, <1>8, <1>9 DEF SeenBy, Reckoned
<1>14. CountedOK(t)'
  <2>1. ASSUME NEW h \in Hashes PROVE Counted(t, h)' = Counted(t, h)
    BY <1>13, PairsSame DEF Counted
  <2> QED
    BY <1>1, <1>6, <1>13, <2>1 DEF TxOK, CountedOK
<1>15. TxOK(t)'
  BY <1>6, <1>8, <1>9, <1>11, <1>12, <1>14 DEF TxOK
<1>16. Unique'
  <2> SUFFICES ASSUME NEW x \in ObjectIds, NEW y \in ObjectIds, objects[x].key = objects[y].key, x # y
               PROVE  /\ ~(objects[x].state = "committed" /\ objects[y].state = "committed")
                      /\ ~(newObjects'[x].state = "committed" /\ newObjects'[y].state = "committed")
                      /\ objects[x].state = "committed" /\ newObjects'[y].state = "committed"
                           => objectHolder[x] = objectHolder[y]
    BY <1>6 DEF Unique
  <2>1. /\ ~(objects[x].state = "committed" /\ objects[y].state = "committed")
        /\ ~(newObjects[x].state = "committed" /\ newObjects[y].state = "committed")
        /\ objects[x].state = "committed" /\ newObjects[y].state = "committed"
             => objectHolder[x] = objectHolder[y]
    BY <1>1 DEF Unique
  <2>2. ASSUME NEW id \in ObjectIds, id # p, newObjects[id].key = v.key PROVE newObjects[id].state # "committed"
    BY <1>2, <2>2 DEF Taken, CommittedIn
  <2>3. newObjects[x].key = objects[x].key /\ newObjects[y].key = objects[y].key
    BY <1>1 DEF RowsOK
  <2>4. CASE x = p
    BY <1>4, <1>7, <2>1, <2>2, <2>3, <2>4
  <2>5. CASE y = p
    <3>1. newObjects[x].state # "committed" /\ objects[x].key = v.key /\ newObjects'[x] = newObjects[x]
      BY <1>4, <1>7, <2>2, <2>3, <2>5
    <3>2. ASSUME objects[x].state = "committed" PROVE objectHolder[x] = t
      <4>1. x \in CommittedIn(objects, tx[t].key)
        BY <1>2, <3>1, <3>2 DEF CommittedIn
      <4>2. Free(objectHolder[x], t)
        BY <3>1, <3>2, <4>1 DEF Unsettled
      <4>3. objectHolder[x] # NoTransaction
        BY <1>1, <3>1, <3>2 DEF RowsOK
      <4> QED
        BY <4>2, <4>3 DEF Free
    <3> QED
      BY <1>4, <2>1, <2>5, <3>1, <3>2
  <2>6. CASE x # p /\ y # p
    BY <1>7, <2>1, <2>6
  <2> QED
    BY <2>4, <2>5, <2>6
<1> QED
  BY <1>1, <1>6, <1>7, <1>8, <1>10, <1>15, <1>16, WriteKeeps DEF Types

\* ForgetBlocks deletes the row of one block.
LEMMA ForgetRowKeeps ==
  ASSUME PInv, NEW t \in Transactions, ForgetRow(t)
  PROVE  PInv'
<1>1. Types /\ RowsOK /\ TxOK(t) /\ t # NoTransaction
  BY NobodyAssumption DEF PInv
<1>2. PICK v, n, g : v = tx[t] /\ n = v.done /\ g = v.chunks[n + 1]
  OBVIOUS
<1>3. v \in TxRecords /\ v.step = "forget" /\ n + 1 \in DOMAIN v.chunks /\ StepOK(t, v)
  BY <1>1, <1>2 DEF ForgetRow, Next1, TxOK, Types
<1>4. g \in Hashes
  <2>1. v.chunks \in Seq(Hashes)
    BY <1>3 DEF TxRecords
  <2> QED
    BY <1>2, <1>3, <2>1
<1>5. /\ tx' = [tx EXCEPT ![t].done = Next1(t)]
      /\ objects' = objects /\ newObjects' = newObjects /\ blocks' = blocks /\ objectHolder' = objectHolder
      /\ \/ newBlocks' = newBlocks /\ blockHolder' = blockHolder
         \/ /\ SeenCount(t, g) = 0 /\ Free(blockHolder[g], t)
            /\ newBlocks' = [newBlocks EXCEPT ![g] = NoRow]
            /\ blockHolder' = [blockHolder EXCEPT ![g] = t]
  BY <1>2 DEF ForgetRow, Next1
<1>6. PICK w \in TxRecords :
        /\ tx' = [tx EXCEPT ![t] = w] /\ w.step = "forget" /\ w.done = n + 1
        /\ w.op = v.op /\ w.id = v.id /\ w.key = v.key /\ w.chunks = v.chunks /\ w.previous = v.previous
  <2>1. tx' = [tx EXCEPT ![t].done = Next1(t)]
    BY <1>5
  <2>2. PICK w \in TxRecords :
          /\ tx' = [tx EXCEPT ![t] = w] /\ w.step = tx[t].step /\ w.done = tx[t].done + 1
          /\ w.op = tx[t].op /\ w.id = tx[t].id /\ w.key = tx[t].key /\ w.chunks = tx[t].chunks
          /\ w.previous = tx[t].previous
    BY <1>1, <2>1, DoneTakes
  <2> QED
    BY <1>2, <1>3, <2>2
<1>7. tx'[t] = w
  BY <1>1, <1>6 DEF Types
<1>8. \A id \in ObjectIds : objectHolder[id] # t
  BY <1>1, <1>2, <1>3 DEF TxOK, IsCommitting, IsReplacing, StepOK
<1>9. /\ newBlocks' \in [Hashes -> Nat \cup {NoRow}]
      /\ blockHolder' \in [Hashes -> Transactions \cup {NoTransaction}]
      /\ \A h \in Hashes :
           \/ newBlocks'[h] = newBlocks[h] /\ blockHolder'[h] = blockHolder[h]
           \/ /\ h = g /\ SeenCount(t, g) = 0 /\ Free(blockHolder[g], t)
              /\ newBlocks'[h] = NoRow /\ blockHolder'[h] = t
  <2>1. newBlocks \in [Hashes -> Nat \cup {NoRow}] /\ blockHolder \in [Hashes -> Transactions \cup {NoTransaction}]
    BY <1>1 DEF Types
  <2>2. CASE newBlocks' = newBlocks /\ blockHolder' = blockHolder
    BY <2>1, <2>2
  <2>3. CASE /\ SeenCount(t, g) = 0 /\ Free(blockHolder[g], t)
             /\ newBlocks' = [newBlocks EXCEPT ![g] = NoRow]
             /\ blockHolder' = [blockHolder EXCEPT ![g] = t]
    BY <1>4, <2>1, <2>3
  <2> QED
    BY <1>5, <2>2, <2>3
<1>10. Writes(t)
  BY <1>5, <1>9 DEF Writes, Free
<1>11. ASSUME NEW id \in ObjectIds, NEW h \in Hashes PROVE SeenBy(t, id, h)' = SeenBy(t, id, h)
  BY <1>5, <1>8 DEF SeenBy
<1>12. ASSUME NEW h \in Hashes, blockHolder'[h] = t PROVE Counts(newBlocks'[h], Counted(t, h)')
  <2>1. Counted(t, h)' = Counted(t, h)
    BY <1>11, PairsSame DEF Counted
  <2>2. CASE newBlocks'[h] = newBlocks[h] /\ blockHolder'[h] = blockHolder[h]
    BY <1>1, <1>12, <2>1, <2>2 DEF TxOK, CountedOK
  <2>3. CASE /\ h = g /\ SeenCount(t, g) = 0 /\ Free(blockHolder[g], t)
             /\ newBlocks'[h] = NoRow /\ blockHolder'[h] = t
    <3>1. newBlocks[g] = 0
      BY <1>1, <1>4, <2>3 DEF SeenCount, Free, RowsOK
    <3>2. Counts(newBlocks[g], Counted(t, g))
      BY <1>4, <2>3, FreeCounts
    <3>3. Counts(NoRow, Counted(t, g))
      BY <3>1, <3>2 DEF Counts
    <3> QED
      BY <2>1, <2>3, <3>3
  <2> QED
    BY <1>9, <2>2, <2>3
<1>13. CountedOK(t)'
  BY <1>5, <1>8, <1>12 DEF CountedOK
<1>14. TxOK(t)'
  <2>1. StepOK(t, w)'
    BY <1>3, <1>6 DEF StepOK
  <2> QED
    BY <1>5, <1>6, <1>7, <1>8, <1>13, <2>1 DEF TxOK
<1>15. Unique'
  BY <1>5, <1>10, UniqueStays
<1> QED
  BY <1>1, <1>5, <1>6, <1>9, <1>10, <1>14, <1>15, WriteKeeps DEF Types

\* A new row is nobody's and names no block.
LEMMA CreateKeeps ==
  ASSUME PInv, NEW id \in ObjectIds, NEW k \in Keys, CreatePendingObject(id, k)
  PROVE  PInv'
<1>1. Types /\ RowsOK /\ Unique
  BY DEF PInv
<1>2. objects[id].state = "absent"
  BY DEF CreatePendingObject
<1>3. objectHolder[id] = NoTransaction
  <2>1. ASSUME NEW u \in Transactions, objectHolder[id] = u PROVE FALSE
    BY <1>2, <2>1 DEF PInv, TxOK, IsCommitting, IsReplacing
  <2> QED
    BY <1>1, <2>1 DEF Types
<1>4. PICK row : row = [objects[id] EXCEPT !.state = "pending", !.key = k]
  OBVIOUS
<1>5. /\ row \in Rows /\ row.state = "pending" /\ row.key = k /\ row.chunks = objects[id].chunks
      /\ objects' = [objects EXCEPT ![id] = row] /\ newObjects' = [newObjects EXCEPT ![id] = row]
  <2>1. PICK r : r = objects[id]
    OBVIOUS
  <2>2. r \in Rows /\ objects \in [ObjectIds -> Rows] /\ newObjects \in [ObjectIds -> Rows] /\ r = newObjects[id]
    BY <1>1, <1>3, <2>1 DEF Types, RowsOK
  <2>3. row \in Rows /\ row.state = "pending" /\ row.key = k /\ row.chunks = r.chunks
    BY <1>4, <2>1, <2>2 DEF Rows
  <2>4. objects' = [objects EXCEPT ![id] = row] /\ newObjects' = [newObjects EXCEPT ![id] = row]
    BY <1>4, <2>1, <2>2 DEF CreatePendingObject
  <2> QED
    BY <2>1, <2>3, <2>4
<1>6. /\ objects' \in [ObjectIds -> Rows] /\ newObjects' \in [ObjectIds -> Rows]
      /\ objects'[id] = row /\ newObjects'[id] = row
      /\ \A x \in ObjectIds : x # id => objects'[x] = objects[x] /\ newObjects'[x] = newObjects[x]
  <2>1. objects \in [ObjectIds -> Rows] /\ newObjects \in [ObjectIds -> Rows]
    BY <1>1 DEF Types
  <2> QED
    BY <1>5, <2>1
<1>7. /\ blocks' = blocks /\ newBlocks' = newBlocks /\ tx' = tx
      /\ objectHolder' = objectHolder /\ blockHolder' = blockHolder
  BY DEF CreatePendingObject, lockVars
<1>8. Types'
  BY <1>1, <1>6, <1>7 DEF Types
<1>9. \A x \in ObjectIds : objects'[x].chunks = objects[x].chunks
  BY <1>5, <1>6
<1>10. Moves(NoTransaction)
  BY <1>2, <1>3, <1>6, <1>7, <1>9 DEF Moves
<1>11. RowsOK'
  <2>1. ASSUME NEW x \in ObjectIds
        PROVE  /\ objectHolder'[x] = NoTransaction => newObjects'[x] = objects'[x]
               /\ newObjects'[x].key = objects'[x].key
               /\ objects'[x].state # "committed" => objects'[x].chunks = <<>>
               /\ objects'[x].state = "committed" => objects'[x].chunks \in Manifests
               /\ objects'[x].state \in {"pending", "committed"} => objects'[x].key \in Keys
    <3>1. CASE x = id
      <4>1. objects[id].chunks = <<>>
        BY <1>1, <1>2 DEF RowsOK
      <4> QED
        BY <1>5, <1>6, <3>1, <4>1
    <3>2. CASE x # id
      BY <1>1, <1>6, <1>7, <3>2 DEF RowsOK
    <3> QED
      BY <3>1, <3>2
  <2>2. \A h \in Hashes : blockHolder'[h] = NoTransaction => newBlocks'[h] = blocks'[h]
    BY <1>1, <1>7 DEF RowsOK
  <2> QED
    BY <2>1, <2>2 DEF RowsOK
<1>12. Unique'
  BY <1>1, <1>5, <1>6, <1>7 DEF Unique
<1>13. ASSUME NEW h \in Hashes PROVE Counts(blocks[h], Referring(h))'
  <2>1. Referring(h)' = Referring(h)
    BY <1>9, PairsSame DEF Referring
  <2> QED
    BY <1>7, <2>1 DEF PInv
<1> QED
  BY <1>8, <1>10, <1>11, <1>12, <1>13, NobodyAssumption, StepKeeps

-----------------------------------------------------------------------------
(* Every step of every transaction. *)

\* There is no object to replace or to delete.
LEMMA NoPreviousKeeps ==
  ASSUME PInv, NEW t \in Transactions, tx[t].step \in {"select", "lock"}, NoPrevious(t)
  PROVE  PInv'
<1>1. CASE tx[t].op = "commit" /\ Goto(t, "attach") /\ UNCHANGED <<rowVars, lockVars>>
  <2>1. Types
    BY DEF PInv
  <2>2. PICK w \in TxRecords :
          /\ tx' = [tx EXCEPT ![t] = w] /\ w.step = "attach" /\ w.done = 0
          /\ w.op = tx[t].op /\ w.id = tx[t].id /\ w.key = tx[t].key /\ w.chunks = tx[t].chunks
    BY <1>1, <2>1, GotoTakes
  <2> QED
    BY <1>1, <2>2, StatementKeeps
<1>2. CASE Rollback(t, "not found")
  BY <1>2, RollbackKeeps
<1> QED
  BY <1>1, <1>2 DEF NoPrevious

\* The previous object is looked up.
LEMMA SelectKeeps ==
  ASSUME PInv, NEW t \in Transactions, Select(t)
  PROVE  PInv'
<1>1. CASE NoPrevious(t)
  BY <1>1, NoPreviousKeeps DEF Select
<1>2. CASE \E id \in CommittedIn(objects, tx[t].key) :
             /\ tx' = [tx EXCEPT ![t].step = "lock", ![t].previous = id]
             /\ UNCHANGED <<rowVars, lockVars>>
  <2>1. PICK id \in CommittedIn(objects, tx[t].key) :
          /\ tx' = [tx EXCEPT ![t].step = "lock", ![t].previous = id]
          /\ UNCHANGED <<rowVars, lockVars>>
    BY <1>2
  <2>2. PICK v : v = tx[t]
    OBVIOUS
  <2>3. v \in TxRecords /\ tx \in [Transactions -> TxRecords]
    BY <2>2 DEF PInv, Types
  <2>4. id \in ObjectIds /\ objects[id].key = v.key /\ objects[id].state = "committed"
    BY <2>1, <2>2 DEF CommittedIn
  <2>5. PICK w : w = [v EXCEPT !.step = "lock", !.previous = id]
    OBVIOUS
  <2>6. /\ w \in TxRecords /\ w.step = "lock" /\ w.previous = id
        /\ w.op = v.op /\ w.id = v.id /\ w.key = v.key /\ w.chunks = v.chunks
    BY <2>3, <2>4, <2>5 DEF TxRecords
  <2>7. tx' = [tx EXCEPT ![t] = w]
    BY <2>1, <2>2, <2>3, <2>5
  <2>8. tx[t].step = "select"
    BY DEF Select
  <2>9. objects[w.previous].key = w.key /\ objects[w.previous].state \in {"committed", "deleted"}
    BY <2>4, <2>6
  <2> QED
    BY <2>1, <2>2, <2>4, <2>6, <2>7, <2>8, <2>9, StatementKeeps
<1> QED
  BY <1>1, <1>2 DEF Select

\* Every step keeps the invariant.
LEMMA NextKeeps ==
  ASSUME PInv, [Next]_vars
  PROVE  PInv'
<1>1. ASSUME NEW id \in ObjectIds, NEW k \in Keys, CreatePendingObject(id, k) PROVE PInv'
  BY <1>1, CreateKeeps
<1>2. ASSUME NEW t \in Transactions, Begin(t) PROVE PInv'
  BY <1>2, BeginKeeps, BeginCommitKeeps DEF Begin
<1>3. ASSUME NEW t \in Transactions, Statement(t) PROVE PInv'
  <2>1. CASE LockPrevious(t)
    <3>1. CASE objects[tx[t].previous].state = "committed"
      BY <2>1, <3>1, LockKeeps DEF LockPrevious
    <3>2. CASE objects[tx[t].previous].state # "committed"
      BY <2>1, <3>2, NoPreviousKeeps DEF LockPrevious
    <3> QED
      BY <3>1, <3>2
  <2>2. CASE Publish(t)
    <3>1. CASE Taken(t) = {}
      BY <2>2, <3>1, MakeCommittedKeeps DEF Publish
    <3>2. CASE Taken(t) # {}
      BY <2>2, <3>2, RollbackKeeps DEF Publish
    <3> QED
      BY <3>1, <3>2
  <2> QED
    BY <1>3, <2>1, <2>2, SelectKeeps, DetachChunkKeeps, RetireKeeps, AttachChunkKeeps,
       ForgetRowKeeps, CommitKeeps DEF Statement
<1>4. ASSUME NEW t \in Transactions, Fail(t) \/ DetectDeadlock(t) PROVE PInv'
  BY <1>4, RollbackKeeps DEF Fail, DetectDeadlock
<1>5. CASE UNCHANGED vars
  <2>1. /\ objects' = objects /\ newObjects' = newObjects /\ blocks' = blocks /\ newBlocks' = newBlocks
        /\ objectHolder' = objectHolder /\ blockHolder' = blockHolder /\ tx' = tx
    BY <1>5 DEF vars, rowVars, lockVars
  <2>2. Types' /\ RowsOK' /\ Unique' /\ \A h \in Hashes : Counts(blocks[h], Referring(h))'
    BY <2>1 DEF PInv, Types, RowsOK, Unique, Referring
  <2>3. Moves(NoTransaction)
    BY <2>1 DEF Moves
  <2> QED
    BY <2>2, <2>3, NobodyAssumption, StepKeeps
<1> QED
  BY <1>1, <1>2, <1>3, <1>4, <1>5 DEF Next

\* The empty store.
LEMMA InitHolds ==
  ASSUME Init
  PROVE  PInv
<1>1. PICK e, row : e = <<>> /\ row = [state |-> "absent", key |-> NoObject, chunks |-> e]
  OBVIOUS
<1>2. e \in Seq(Hashes)
  BY <1>1
<1>3. row \in Rows /\ row.state = "absent" /\ row.chunks = e
  BY <1>1, <1>2 DEF Rows
<1>4. /\ objects = [id \in ObjectIds |-> row] /\ newObjects = objects
      /\ blocks = [h \in Hashes |-> NoRow] /\ newBlocks = blocks
      /\ objectHolder = [id \in ObjectIds |-> NoTransaction]
      /\ blockHolder = [h \in Hashes |-> NoTransaction] /\ tx = [t \in Transactions |-> Idle]
  BY <1>1 DEF Init
<1>5. Types
  BY <1>3, <1>4, IdleRecord DEF Types
<1>6. \A id \in ObjectIds : objects[id] = row /\ newObjects[id] = row /\ objectHolder[id] = NoTransaction
  BY <1>4
<1>7. RowsOK /\ Unique
  BY <1>1, <1>3, <1>4, <1>6 DEF RowsOK, Unique
<1>8. ASSUME NEW h \in Hashes PROVE Counts(blocks[h], Referring(h))
  <2>1. \A id \in ObjectIds : Positions(objects[id].chunks, h) = {}
    <3>1. Positions(e, h) = {}
      BY <1>1 DEF Positions
    <3> QED
      BY <1>3, <1>6, <3>1
  <2>2. Referring(h) = {}
    BY <2>1 DEF Referring, Pairs
  <2> QED
    BY <1>4, <2>2, FS_EmptySet DEF Counts
<1>9. ASSUME NEW t \in Transactions PROVE TxOK(t)
  <2>1. tx[t] = Idle /\ t # NoTransaction
    BY <1>4, NobodyAssumption
  <2>2. StepOK(t, Idle)
    BY IdleRecord DEF StepOK
  <2>3. (\A id \in ObjectIds : objectHolder[id] # t) /\ \A h \in Hashes : blockHolder[h] # t
    BY <1>4, <2>1
  <2> QED
    BY <2>1, <2>2, <2>3 DEF TxOK, CountedOK
<1> QED
  BY <1>5, <1>7, <1>8, <1>9 DEF PInv

\* The rows and the transactions under way agree at every moment.
THEOREM RowsAndTransactionsAgree == Spec => []PInv
BY InitHolds, NextKeeps, PTL DEF Spec

\* Commits, deletes and sweeps of any number of gateways, statement by
\* statement and without SERIALIZABLE isolation, leave the committed count of
\* every block equal to the number of committed rows that name it.
THEOREM CountsStayExact == Spec => []CommittedCountsExact
<1>1. PInv => CommittedCountsExact
  <2> SUFFICES ASSUME PInv, NEW h \in Hashes
               PROVE  /\ Count(h) = Cardinality(References(h))
                      /\ References(h) # {} => blocks[h] # NoRow
    BY DEF CommittedCountsExact
  <2>1. References(h) = Referring(h)
    BY DEF References, Referring, Pairs, Positions
  <2>2. Counts(blocks[h], References(h))
    BY <2>1 DEF PInv
  <2>3. IsFiniteSet(References(h)) /\ Cardinality(References(h)) = IF blocks[h] = NoRow THEN 0 ELSE blocks[h]
    BY <2>2 DEF Counts
  <2>4. References(h) # {} => Cardinality(References(h)) # 0
    BY <2>3, FS_EmptySet
  <2> QED
    BY <2>3, <2>4 DEF Count
<1> QED
  BY <1>1, RowsAndTransactionsAgree, PTL

-----------------------------------------------------------------------------
(* What GetObject is answered from. *)

Live(rows, k) ==
  IF CommittedIn(rows, k) = {} THEN NoObject
  ELSE rows[CHOOSE id \in CommittedIn(rows, k) : TRUE].chunks

\* The map readers see, key by key.
LEMMA LiveOf ==
  /\ LiveManifests = [k \in Keys |-> Live(objects, k)]
  /\ LiveManifests' = [k \in Keys |-> Live(objects', k)]
BY DEF LiveManifests, Live, CommittedIn

OneOfAKey(rows) ==
  \A x, y \in ObjectIds : rows[x].key = rows[y].key /\ x # y =>
    ~(rows[x].state = "committed" /\ rows[y].state = "committed")

\* The live manifest of a key is that of its one committed object.
LEMMA LiveIs ==
  ASSUME NEW rows, OneOfAKey(rows), NEW k, NEW id \in CommittedIn(rows, k)
  PROVE  Live(rows, k) = rows[id].chunks
<1>1. PICK c : c = CHOOSE x \in CommittedIn(rows, k) : TRUE
  OBVIOUS
<1>2. c \in CommittedIn(rows, k) /\ Live(rows, k) = rows[c].chunks
  BY <1>1 DEF Live
<1>3. c = id
  BY <1>2 DEF CommittedIn, OneOfAKey
<1> QED
  BY <1>2, <1>3

\* The committed rows of a key decide what is live under it.
LEMMA LiveSame ==
  ASSUME NEW rows, NEW others, NEW k, CommittedIn(others, k) = CommittedIn(rows, k),
         \A x \in CommittedIn(rows, k) : others[x] = rows[x]
  PROVE  Live(others, k) = Live(rows, k)
BY DEF Live

\* What a transaction's end changes: the one key it names, all at once.
LEMMA CommitMaps ==
  ASSUME PInv, PInv', NEW t \in Transactions, Commit(t)
  PROVE  [Map!Next]_LiveManifests
<1>1. Types /\ RowsOK /\ Unique /\ TxOK(t)
  BY DEF PInv
<1>2. PICK w : w = tx[t]
  OBVIOUS
<1>3. w \in TxRecords /\ StepOK(t, w) /\ w.step \in {"end", "forget"}
  BY <1>1, <1>2 DEF Types, TxOK, Commit, Finished
<1>4. objects' = [id \in ObjectIds |-> IF objectHolder[id] = t THEN newObjects[id] ELSE objects[id]]
  BY DEF Commit
<1>5. ASSUME NEW id \in ObjectIds, objectHolder[id] = t
      PROVE  /\ objects'[id] = newObjects[id] /\ newObjects[id].key = w.key /\ objects[id].key = w.key
             /\ w.step = "end"
             /\ \/ IsCommitting(w, id, objects[id], newObjects[id])
                \/ IsReplacing(w, id, objects[id], newObjects[id])
  <2>1. \/ IsCommitting(w, id, objects[id], newObjects[id])
        \/ IsReplacing(w, id, objects[id], newObjects[id])
    BY <1>1, <1>2, <1>5 DEF TxOK
  <2>2. objects[id].key = w.key /\ w.step = "end"
    BY <1>3, <2>1 DEF IsCommitting, IsReplacing, StepOK
  <2> QED
    BY <1>1, <1>4, <1>5, <2>1, <2>2 DEF RowsOK
<1>6. \A id \in ObjectIds : objectHolder[id] # t => objects'[id] = objects[id]
  BY <1>4
<1>7. ASSUME NEW k \in Keys, k # w.key PROVE Live(objects', k) = Live(objects, k)
  <2>1. \A id \in ObjectIds :
          \/ objects'[id] = objects[id]
          \/ objects'[id].key # k /\ objects[id].key # k
    BY <1>5, <1>6, <1>7
  <2>2. CommittedIn(objects', k) = CommittedIn(objects, k)
    BY <2>1 DEF CommittedIn
  <2>3. \A id \in CommittedIn(objects, k) : objects'[id] = objects[id]
    BY <2>1 DEF CommittedIn
  <2> QED
    BY <2>2, <2>3, LiveSame
<1>8. OneOfAKey(objects) /\ OneOfAKey(objects')
  BY DEF PInv, Unique, OneOfAKey
<1>9. CASE w.step = "forget"
  <2>1. \A id \in ObjectIds : objects'[id] = objects[id]
    BY <1>5, <1>6, <1>9
  <2>2. objects \in [ObjectIds -> Rows]
    BY <1>1 DEF Types
  <2>3. objects' = objects
    BY <1>4, <2>1, <2>2
  <2> QED
    BY <2>3 DEF LiveManifests, CommittedIn
<1>10. CASE w.step = "end" /\ w.op = "commit"
  <2>1. w.id \in ObjectIds /\ objectHolder[w.id] = t /\ w.chunks \in Manifests /\ w.key \in Keys
        /\ objects[w.id].state = "pending"
    BY <1>3, <1>10 DEF StepOK
  <2>2. IsCommitting(w, w.id, objects[w.id], newObjects[w.id])
    BY <1>5, <2>1 DEF IsReplacing
  <2>3. objects'[w.id].state = "committed" /\ objects'[w.id].chunks = w.chunks /\ objects'[w.id].key = w.key
    BY <1>5, <1>10, <2>1, <2>2 DEF IsCommitting
  <2>4. w.id \in CommittedIn(objects', w.key)
    BY <2>1, <2>3 DEF CommittedIn
  <2>5. Live(objects', w.key) = w.chunks
    BY <1>8, <2>3, <2>4, LiveIs
  <2>6. Map!Publish(w.key, w.chunks)
    BY <1>7, <2>1, <2>5, LiveOf DEF Map!Publish
  <2> QED
    BY <2>1, <2>6 DEF Map!Next
<1>11. CASE w.step = "end" /\ w.op = "delete"
  <2>1. w.previous \in ObjectIds /\ objectHolder[w.previous] = t /\ w.key \in Keys
    BY <1>3, <1>11 DEF StepOK
  <2>2. \A id \in ObjectIds : objectHolder[id] = t =>
          IsReplacing(w, id, objects[id], newObjects[id])
    BY <1>5, <1>11 DEF IsCommitting
  <2>3. objects[w.previous].state = "committed" /\ objects[w.previous].key = w.key
    BY <2>1, <2>2 DEF IsReplacing
  <2>4. w.previous \in CommittedIn(objects, w.key)
    BY <2>1, <2>3 DEF CommittedIn
  <2>5. Live(objects, w.key) \in Manifests
    <3>1. objects[w.previous].chunks \in Manifests
      BY <1>1, <2>1, <2>3 DEF RowsOK
    <3> QED
      BY <1>8, <2>4, <3>1, LiveIs
  <2>6. CommittedIn(objects', w.key) = {}
    <3> SUFFICES ASSUME NEW x \in ObjectIds, objects'[x].state = "committed", objects'[x].key = w.key
                 PROVE  FALSE
      BY DEF CommittedIn
    <3>1. CASE objectHolder[x] = t
      BY <1>5, <1>11, <2>2, <3>1 DEF IsReplacing
    <3>2. CASE objectHolder[x] # t
      <4>1. objects[x].state = "committed" /\ objects[x].key = w.key /\ x # w.previous
        BY <1>6, <2>1, <3>2
      <4> QED
        BY <1>1, <2>1, <2>3, <4>1 DEF Unique
    <3> QED
      BY <3>1, <3>2
  <2>7. Live(objects', w.key) = NoObject
    BY <2>6 DEF Live
  <2>8. Map!Remove(w.key)
    BY <1>7, <2>1, <2>5, <2>7, LiveOf, NobodyAssumption DEF Map!Remove
  <2> QED
    BY <2>1, <2>8 DEF Map!Next
<1>12. w.step = "end" => w.op \in {"commit", "delete"}
  BY <1>3 DEF StepOK, TxRecords
<1> QED
  BY <1>3, <1>9, <1>10, <1>11, <1>12

\* However the statements of the gateways interleave, a reader sees a map that
\* changes by whole manifests, one key at a time.
THEOREM StoreImplementsObjectMap == Spec => PostgresImplementsObjectMap
<1>1. Init => Map!Init
  <2> SUFFICES ASSUME Init PROVE Map!Init
    OBVIOUS
  <2>1. \A id \in ObjectIds : objects[id].state = "absent"
    BY DEF Init
  <2>2. \A k \in Keys : CommittedIn(objects, k) = {}
    BY <2>1 DEF CommittedIn
  <2> QED
    BY <2>2 DEF LiveManifests, Map!Init
<1>2. PInv /\ PInv' /\ [Next]_vars => [Map!Next]_LiveManifests
  <2> SUFFICES ASSUME PInv, PInv', [Next]_vars
               PROVE  [Map!Next]_LiveManifests
    OBVIOUS
  <2>1. CASE \E id \in ObjectIds, k \in Keys : CreatePendingObject(id, k)
    <3>1. PICK id \in ObjectIds, k \in Keys : CreatePendingObject(id, k)
      BY <2>1
    <3>2. /\ objects[id].state = "absent" /\ objects'[id].state = "pending"
          /\ \A x \in ObjectIds : x # id => objects'[x] = objects[x]
      BY <3>1 DEF CreatePendingObject, PInv, Types, Rows
    <3>3. ASSUME NEW key \in Keys
          PROVE  /\ CommittedIn(objects', key) = CommittedIn(objects, key)
                 /\ \A x \in CommittedIn(objects, key) : objects'[x] = objects[x]
      BY <3>2 DEF CommittedIn
    <3>4. \A key \in Keys : Live(objects', key) = Live(objects, key)
      BY <3>3, LiveSame
    <3> QED
      BY <3>4, LiveOf
  <2>2. CASE \E t \in Transactions : Commit(t)
    BY <2>2, CommitMaps
  <2>3. CASE UNCHANGED objects
    BY <2>3 DEF LiveManifests, CommittedIn
  <2>4. \/ \E id \in ObjectIds, k \in Keys : CreatePendingObject(id, k)
        \/ \E t \in Transactions : Commit(t)
        \/ UNCHANGED objects
    <3>1. ASSUME NEW t \in Transactions, Begin(t) \/ Statement(t) \/ Fail(t) \/ DetectDeadlock(t), ~Commit(t)
          PROVE  UNCHANGED objects
      BY <3>1 DEF Begin, Statement, Fail, DetectDeadlock, BeginCommit, BeginDelete, BeginForget,
                  Select, LockPrevious, Lock, NoPrevious, DetachChunk, Retire, AttachChunk,
                  Publish, MakeCommitted, ForgetRow, Rollback, rowVars
    <3> QED
      BY <3>1 DEF Next, vars, rowVars
  <2> QED
    BY <2>1, <2>2, <2>3, <2>4
<1> QED
  BY <1>1, <1>2, RowsAndTransactionsAgree, PTL DEF Spec, PostgresImplementsObjectMap, Map!Spec

=============================================================================
