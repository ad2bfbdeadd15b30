---------------------------- MODULE ObjectService ----------------------------
(***************************************************************************)
(* Uploads, deletes and garbage collection of one tenant, composed over    *)
(* MetadataStore: the steps of object.Service.Put                          *)
(* (src/internal/object/service.go), the block backend it writes to and    *)
(* the steps of gc.Sweeper.Sweep (src/internal/gc/sweeper.go).  Uploads    *)
(* and sweeps run in goroutines of their own and share only the metadata   *)
(* store and the backend; nothing orders one against the other between two *)
(* of their calls.                                                         *)
(***************************************************************************)
EXTENDS MetadataStore

CONSTANTS
  Uploads,       \* concurrent Put calls
  Sweepers,      \* concurrent sweeps: one per gateway process on the store
  MinOrphanAge,  \* Sweeper.MinOrphanAge, in clock units
  BatchSize,     \* Sweeper.BatchSize
  MaxRetries,    \* Sweeper.MaxRetries
  MaxFaults,     \* bound on backend errors, metadata errors and crashes
  PromptCalls,   \* TRUE: no call lasts as long as one unit of the clock
  NoId           \* the pending id of a Put that has none

ServiceAssumption ==
  /\ MinOrphanAge \in Nat
  /\ BatchSize \in Nat \ {0}
  /\ MaxRetries \in Nat
  /\ MaxFaults \in Nat
  /\ PromptCalls \in BOOLEAN
  /\ NoId \notin ObjectIds

ASSUME ServiceAssumption

VARIABLES
  stored,    \* the blocks the backend holds
  put,       \* where each Put call is
  sweep,     \* where each sweep is
  faults,    \* injected failures so far
  collided   \* history: blocks an upload and a sweep had in hand together

serviceVars == <<storeVars, stored, put, sweep, faults, collided>>

(* seen is Put's seenBlocks, next the index of the chunk to process. *)
IdlePut == [pc |-> "idle", id |-> NoId, body |-> <<>>, next |-> 1, seen |-> {}]

(* batch is the answer of the last list call; left is what the current     *)
(* attempt of DeleteBlocks has still to remove.                            *)
IdleSweep == [pc |-> "idle", cutoff |-> 0, batch |-> {}, left |-> {}, attempt |-> 0]

Overlap(puts, sweeps) ==
  {h \in Hashes : \E u \in Uploads, w \in Sweepers :
                    h \in puts[u].seen /\ h \in sweeps[w].batch}

RecordOverlap == collided' = collided \cup Overlap(put', sweep')

Fault == faults < MaxFaults /\ faults' = faults + 1

ServiceInit ==
  /\ Init
  /\ stored = {}
  /\ put = [u \in Uploads |-> IdlePut]
  /\ sweep = [w \in Sweepers |-> IdleSweep]
  /\ faults = 0
  /\ collided = {}

-----------------------------------------------------------------------------
(* Service.Put. *)

PutBegin(u, id, k, body) ==
  /\ put[u].pc = "idle"
  /\ CreatePendingObject(id, k)
  /\ put' = [put EXCEPT ![u] =
               [pc |-> "chunk", id |-> id, body |-> body, next |-> 1, seen |-> {}]]
  /\ UNCHANGED <<stored, sweep, faults, collided>>

MoreChunks(u) == put[u].pc = "chunk" /\ put[u].next <= Len(put[u].body)

Chunk(u) == put[u].body[put[u].next]

(* The block is known to be stored: on to the next chunk. *)
Handled(p, h) ==
  [pc |-> "chunk", id |-> p.id, body |-> p.body, next |-> p.next + 1,
   seen |-> p.seen \cup {h}]

(* A block this Put has handled before is neither checked nor written. *)
PutRepeatedChunk(u) ==
  /\ MoreChunks(u)
  /\ Chunk(u) \in put[u].seen
  /\ put' = [put EXCEPT ![u] = Handled(@, Chunk(u))]
  /\ UNCHANGED <<storeVars, stored, sweep, faults, collided>>

(* HasBlock decides whether the chunk is uploaded at all. *)
PutHasBlock(u) ==
  /\ MoreChunks(u)
  /\ Chunk(u) \notin put[u].seen
  /\ put' = IF Chunk(u) \in stored
            THEN [put EXCEPT ![u] = Handled(@, Chunk(u))]
            ELSE [put EXCEPT ![u].pc = "upload"]
  /\ UNCHANGED <<storeVars, stored, sweep, faults>>
  /\ RecordOverlap

PutBlockNotStored(u) ==
  /\ put[u].pc = "upload"
  /\ put' = [put EXCEPT ![u] = Handled(@, Chunk(u))]
  /\ UNCHANGED <<storeVars, stored, sweep, faults>>
  /\ RecordOverlap

PutBlock(u) ==
  /\ put[u].pc = "upload"
  /\ stored' = stored \cup {Chunk(u)}
  /\ put' = [put EXCEPT ![u] = Handled(@, Chunk(u))]
  /\ UNCHANGED <<storeVars, sweep, faults>>
  /\ RecordOverlap

(* The whole body has been read: CommitObject, then the answer. *)
PutCommit(u) ==
  /\ put[u].pc = "chunk"
  /\ put[u].next > Len(put[u].body)
  /\ CommitObject(put[u].id, put[u].body)
  /\ put' = [put EXCEPT ![u] = IdlePut]
  /\ UNCHANGED <<stored, sweep, faults, collided>>

(* Any error, or a client that goes away, ends Put where it stands: the    *)
(* pending row and the blocks already written stay behind.                 *)
PutFail(u) ==
  /\ put[u].pc # "idle"
  /\ put' = [put EXCEPT ![u] = IdlePut]
  /\ UNCHANGED <<storeVars, stored, sweep, faults, collided>>

(* Service.Delete. *)
Delete(k) ==
  /\ DeleteObject(k)
  /\ UNCHANGED <<stored, put, sweep, faults, collided>>

-----------------------------------------------------------------------------
(* Sweeper.Sweep. *)

Listing(cutoff) ==
  [pc |-> "list", cutoff |-> cutoff, batch |-> {}, left |-> {}, attempt |-> 0]

Deleting(cutoff, batch, left, attempt) ==
  [pc |-> IF left = {} THEN "forget" ELSE "delete",
   cutoff |-> cutoff, batch |-> batch, left |-> left, attempt |-> attempt]

SweepStart(w) ==
  /\ sweep[w].pc = "idle"
  /\ sweep' = [sweep EXCEPT ![w] = Listing(clock - MinOrphanAge)]
  /\ UNCHANGED <<storeVars, stored, put, faults, collided>>

SweepListAnyAge(w) ==
  /\ sweep[w].pc = "list"
  /\ \E batch \in ListUnreferencedBlocksOlderThan(clock, BatchSize) :
       sweep' = [sweep EXCEPT ![w] =
                   IF batch = {} THEN IdleSweep
                   ELSE Deleting(sweep[w].cutoff, batch, batch, 0)]
  /\ UNCHANGED <<storeVars, stored, put, faults>>
  /\ RecordOverlap

SweepList(w) ==
  /\ sweep[w].pc = "list"
  /\ \E batch \in ListUnreferencedBlocksOlderThan(sweep[w].cutoff, BatchSize) :
       sweep' = [sweep EXCEPT ![w] =
                   IF batch = {} THEN IdleSweep
                   ELSE Deleting(sweep[w].cutoff, batch, batch, 0)]
  /\ UNCHANGED <<storeVars, stored, put, faults>>
  /\ RecordOverlap

(* DeleteBlocks removes the blocks one after another; a block that is not  *)
(* there counts as removed.                                                *)
SweepDelete(w) ==
  /\ sweep[w].pc = "delete"
  /\ \E h \in sweep[w].left :
       /\ stored' = stored \ {h}
       /\ sweep' = [sweep EXCEPT ![w] =
                       Deleting(@.cutoff, @.batch, @.left \ {h}, @.attempt)]
  /\ UNCHANGED <<storeVars, put, faults, collided>>

(* An error ends the attempt: the whole batch is tried again after a       *)
(* delay, up to MaxRetries times, and then the sweep fails.                *)
SweepDeleteFailsOver(w) ==
  /\ sweep[w].pc = "delete"
  /\ Fault
  /\ sweep' = [sweep EXCEPT ![w] =
                 IF sweep[w].attempt < MaxRetries
                 THEN Deleting(@.cutoff, @.batch, @.batch, @.attempt + 1)
                 ELSE Deleting(@.cutoff, @.batch, {}, @.attempt)]
  /\ UNCHANGED <<storeVars, stored, put, collided>>

SweepDeleteFails(w) ==
  /\ sweep[w].pc = "delete"
  /\ Fault
  /\ sweep' = [sweep EXCEPT ![w] =
                 IF sweep[w].attempt < MaxRetries
                 THEN Deleting(@.cutoff, @.batch, @.batch, @.attempt + 1)
                 ELSE IdleSweep]
  /\ UNCHANGED <<storeVars, stored, put, collided>>

(* A full batch is followed by another list call, a short one ends the     *)
(* tenant.                                                                 *)
AfterForget(w) ==
  IF Cardinality(sweep[w].batch) < BatchSize THEN IdleSweep
  ELSE Listing(sweep[w].cutoff)

SweepForgetSkipped(w) ==
  /\ sweep[w].pc = "forget"
  /\ sweep' = [sweep EXCEPT ![w] = AfterForget(w)]
  /\ UNCHANGED <<storeVars, stored, put, faults, collided>>

SweepForget(w) ==
  /\ sweep[w].pc = "forget"
  /\ ForgetBlocks(sweep[w].batch)
  /\ sweep' = [sweep EXCEPT ![w] = AfterForget(w)]
  /\ UNCHANGED <<stored, put, faults, collided>>

(* An error of the metadata store, or the context of the process ending,   *)
(* ends the sweep.                                                         *)
SweepFails(w) ==
  /\ sweep[w].pc \in {"list", "forget"}
  /\ Fault
  /\ sweep' = [sweep EXCEPT ![w] = IdleSweep]
  /\ UNCHANGED <<storeVars, stored, put, collided>>

(* The process dies: calls in flight are gone, the tables and the backend  *)
(* are not.                                                                *)
Crash ==
  /\ Fault
  /\ put' = [u \in Uploads |-> IdlePut]
  /\ sweep' = [w \in Sweepers |-> IdleSweep]
  /\ UNCHANGED <<storeVars, stored, collided>>

CallsInFlight ==
  (\E u \in Uploads : put[u].pc # "idle") \/ (\E w \in Sweepers : sweep[w].pc # "idle")

TimePasses ==
  /\ Tick
  /\ PromptCalls => ~CallsInFlight
  /\ UNCHANGED <<stored, put, sweep, faults, collided>>

-----------------------------------------------------------------------------
PutNext(u) ==
  \/ \E id \in ObjectIds, k \in Keys, body \in Manifests : PutBegin(u, id, k, body)
  \/ PutRepeatedChunk(u)
  \/ PutHasBlock(u)
  \/ PutBlock(u)
  \/ PutCommit(u)
  \/ PutFail(u)

SweepProgress(w) ==
  SweepStart(w) \/ SweepList(w) \/ SweepDelete(w) \/ SweepForget(w)

ServiceNext ==
  \/ \E u \in Uploads : PutNext(u)
  \/ \E k \in Keys : Delete(k)
  \/ \E w \in Sweepers : SweepProgress(w) \/ SweepDeleteFails(w) \/ SweepFails(w)
  \/ Crash
  \/ TimePasses

ServiceSpec == ServiceInit /\ [][ServiceNext]_serviceVars

(* Worker.Run sweeps at every tick of its interval for as long as the      *)
(* process runs, and time passes.  Nothing is assumed of clients.          *)
ServiceFairness ==
  /\ WF_serviceVars(TimePasses)
  /\ \A w \in Sweepers : WF_serviceVars(SweepProgress(w))

FairServiceSpec == ServiceSpec /\ ServiceFairness

-----------------------------------------------------------------------------
(* Properties. *)

\* The local state of every Put and every sweep is well formed.
ServiceTypeOK ==
  /\ stored \subseteq Hashes
  /\ put \in [Uploads -> [pc : {"idle", "chunk", "upload"}, id : ObjectIds \cup {NoId},
                          body : Seq(Hashes), next : Nat \ {0}, seen : SUBSET Hashes]]
  /\ sweep \in [Sweepers -> [pc : {"idle", "list", "delete", "forget"}, cutoff : Int,
                             batch : SUBSET Hashes, left : SUBSET Hashes, attempt : Nat]]
  /\ faults \in Nat
  /\ collided \subseteq Hashes

\* A block some object is made of is in the backend, unless an upload relied
\* on it while a sweep had it in its batch: whatever failures, retries,
\* crashes, overwrites and deletes happen, that overlap is the only way a
\* committed object can lose a block.  (Put skips the upload of a block
\* HasBlock reports, and Sweep deletes what it listed some calls ago.)
ReferencedBlocksStored ==
  \A h \in Hashes : References(h) # {} => h \in stored \cup collided

\* Outside such an overlap a sweep removes a block from the backend only if
\* no object uses it and the orphan age has passed since the last one did.
\* (docs/gc.md:21; minOrphanAge and the WHERE clause of the list call.)
OnlyOldOrphansRemoved ==
  [][\A h \in stored \ stored' :
       \/ h \in collided
       \/ refCount[h] = 0 /\ updatedAt[h] + MinOrphanAge <= clock]_serviceVars

\* Outside such an overlap the row of a block is forgotten only when the
\* backend no longer has the block, so a failed or interrupted delete is found
\* again by a later sweep.  (docs/gc.md:21 and 23; the order of
\* deleteWithRetry and ForgetBlocks in Sweep.)
ForgottenBlocksAreGone ==
  [][\A h \in blockRows \ blockRows' : h \notin stored \/ h \in collided]_serviceVars

\* A block with a row and no reference is eventually used again or forgotten,
\* whatever errors and crashes come between (as long as they stop coming and
\* the orphan age passes before the bound on the clock).
OrphansAreCollected ==
  \A h \in Hashes :
    (h \in blockRows /\ refCount[h] = 0 /\ updatedAt[h] + MinOrphanAge <= MaxClock)
      ~> (h \notin blockRows \/ refCount[h] > 0)

\* Stated by docs/gc.md:15 ("avoid deleting data during nearby upload"): every
\* block of a committed object is in the backend.
CommittedBlocksStored ==
  \A h \in Hashes : References(h) # {} => h \in stored

=============================================================================
