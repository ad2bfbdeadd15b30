# A verification development for ChunkGate

ChunkGate is a gateway between S3 clients and a block backend: it splits objects
into content-addressed blocks, stores each block once per tenant, keeps manifests
and reference counts in a metadata store, and collects blocks nothing refers to.
This directory models the parts of it that are hard to test, checks the models
with TLC on small instances, and proves with TLAPS what matters most for every
size. Paths below are relative to the root of the repository.

## The system

| Component | State | Operations | Talks to |
| --- | --- | --- | --- |
| Metadata store (`src/internal/metadata`: `sqlite.go`, `postgres.go`, `memory.go`) | `objects`, `blocks` with `ref_count` and `updated_at`, `object_chunks`, `multipart_sessions`, `multipart_parts`; one SQLite file per tenant, or one PostgreSQL database for all gateways | `CreatePendingObject`, `CommitObject`, `GetObject`, `DeleteObject`, `ListUnreferencedBlocksOlderThan`, `ForgetBlocks`, the multipart methods | - |
| Block backend (`src/internal/backend`) | blocks by tenant and hash | `PutBlock`, `GetBlock`, `HasBlock`, `DeleteBlocks`; `DoWithRetry` around each request | files, S3, GCS, Azure, Swift |
| Object service (`src/internal/object/service.go`) | none between calls; per Put a pending id, the blocks seen, the chunk list | `Put`, `Open`, `OpenRange`, `Stat`, `ReadChunks`, `Delete` | chunker, backend, metadata store, CPU limiter |
| Garbage collector (`src/internal/gc/sweeper.go`) | per sweep the cutoff and a batch | `Sweep`, `Worker.Run` | metadata store, backend |
| Multipart manager (`src/internal/multipart/manager.go`) | sessions in memory under `mu`, scratch files | `Create`, `PutPart`, `Open`, `Get`, `Abort`, `CompleteCleanup`, `LoadActive`, `CleanupStale` | metadata store, reservations, file system |
| Limits (`src/internal/limits`) | bytes reserved, CPU slots | `TryReserve`, `Release`, `Check`, `Acquire` | file system |
| Drain (`src/internal/ops/drain.go`) | a flag and a wait group | `Begin`, `Start`, `Wait` | HTTP server |
| Chunker (`src/internal/chunker`) | the buffer of one stream | `Stream` | - |
| API (`src/internal/api`, `src/internal/s3auth`) | none between requests | CORS, authentication, routing and validation; one handler per S3 call, the delta protocol | object service, multipart manager, drain |
| Delta client (`src/internal/deltaclient`) | a cache directory | `Download` | API |

Goroutines: one per HTTP request, one for the GC worker, and on PostgreSQL the same
again in every other gateway. Requests and sweeps share no lock. They meet only in
the metadata store (whose transactions are atomic), in the backend (whose calls are
not part of any transaction), in `Manager.mu`, and in the reservation counter.

What makes each part correct:

- *Metadata store*: a key has one live manifest, replaced or removed as a whole;
  reference counts, kept by hand in Go transactions, equal the rows they count;
  the timestamp of an orphan is the time it became one.
- *Object service, backend and GC together*: a committed object keeps all of its
  blocks; GC removes only orphans of the configured age; whatever fails half way is
  found again.
- *Multipart*: bytes reserved are bytes in use; memory and metadata agree; listed
  parts are on disk with the content of their ETags; a complete assembles what it
  validated; a restart comes up with the same sessions.
- *Cloud backends*: an answer is true of some moment of the call, whatever became of
  its attempts; nothing a call started outlives it unnoticed; every call ends.
- *API*: a request touches the object it names, of the tenant it is signed for, and its
  answer says what it did.
- *Limits, drain*: slots and bytes are neither lost nor given twice; shutdown waits
  for every upload it admitted.
- *Chunker, ranges, delta client*: chunks are contiguous and complete; a range
  delivers its bytes; a download is the object of one manifest.

## Modules

| Module | Models | Extends / uses |
| --- | --- | --- |
| `ObjectMap` | what a metadata store promises: a map from keys to manifests | - |
| `MetadataStore` | the object and block transactions of `sqlite.go` | instantiates `ObjectMap` |
| `MemoryStore` | `memory.go`, given the same calls as the SQLite store | extends `MetadataStore` |
| `PostgresStore` | the same transactions in `postgres.go`, statement by statement | instantiates `ObjectMap` |
| `ObjectService` | `Service.Put`, `Service.Delete`, the backend, `Sweeper.Sweep`, crashes | extends `MetadataStore` |
| `ObjectReads` | GET, ranged GET and the read at the end of Put, against writers | extends `MetadataStore`, `Ranges` |
| `Ranges` | `parseSingleRange` and `openChunks` as operators | - |
| `MultipartManager` | `manager.go`, the handlers that call it, scratch files, restarts, other gateways | - |
| `ReservationCounter`, `Reservations` | what `DiskReservations` promises; its compare-and-swap loops under `DiskGuard` | the second instantiates the first |
| `CPUSemaphore`, `AdaptiveCPUSemaphore` | the channel semaphore; the polling limiter that stands in for it | likewise |
| `Drain`, `Shutdown` | `ops.Drain`; main from the signal to the exit | the second extends the first |
| `FileStore` | `fs.go`, one file operation at a time | - |
| `BlockBackends` | `s3.go`, `s3_path_client.go`, `azure.go`, `gcs.go`, `swift.go` under `DoWithRetry`, with the service they call | - |
| `Shards` | `dbFor`, `runMigrations` and `Close` of the SQLite store | - |
| `Tenants` | the names a tenant has in the metadata store, in the backend and in a sweep | - |
| `StoredTimes` | times as text, the orphan age from the environment, the list of orphans by age | - |
| `Gateway` | the HTTP server: routing, authentication order, handlers that run together, the drain | - |
| `Chunker` | `New` and `Stream` with both engines | - |
| `DeltaDownload` | the companion client and the two endpoints it calls | - |
| `MetadataStoreProofs` | theorems about `MetadataStore` | extends it and TLAPS |
| `ObjectServiceProofs` | theorems about `ObjectService` and `MemoryStore` | extends them and `MetadataStoreProofs` |
| `PostgresProofs` | theorems about `PostgresStore` | extends it and TLAPS |
| `FiniteSums` | lemmas about sums over finite sets | extends TLAPS |
| `StorageProofs` | theorems about `Reservations`, `FileStore`, `Shards`, `Tenants`, `StoredTimes` and `DeltaDownload` | extends them and `FiniteSums` |
| `ProcessProofs` | theorems about `AdaptiveCPUSemaphore`, `Drain`, `Shutdown` and `BlockBackends` | extends them and TLAPS |
| `DataProofs` | theorems about `ObjectReads`, `Gateway` and `Chunker` | extends them and `MetadataStoreProofs` |
| `MultipartProofs` | theorems about `MultipartManager` | extends it and `FiniteSums` |
| `MC*` | instances for TLC | |

Modules meet in three ways. `ObjectService`, `ObjectReads` and `MemoryStore` extend
`MetadataStore` and use its transactions as their steps. Where one module takes
another as atomic, a refinement or a property of the other says that it may:
`MultipartManager` uses reservations as the steps of `ReservationCounter`, which
`Reservations` implements; `ObjectService` uses block calls as single steps, which
`CallsActAtOnce` of `FileStore` and, with the exceptions its text names, `AnswersAreTrue`
of `BlockBackends` are about; `Gateway` commits and looks up in one step; every store is
the one `ObjectMap`. And four instances put independent modules side by side
(`MCTables` with `MCMultipart`, `MCProcess`, `MCStorage` with `MCDeltaDownload`, and `MCData`,
which takes its parts from `MCGateway`, `MCObjectReads` and `MCChunker`): a variable says which
of them moves in a behaviour, and the others wait. A run of such an instance asks of each
module what a run of its own would.

### MetadataStore

`dbFor` opens a shard with `SetMaxOpenConns(1)`, so transactions on it do not
interleave: each method that runs in one is one action, and an error rolls it back,
which is a stuttering step. A `blocks` row is a member of `blockRows` with
`refCount` and `updatedAt`; the `object_chunks` rows of an object are the sequence
`objectChunks[id]`. `CommitObject` is `CommitFirst` or `CommitOver` (with the
detach of the previous object), `DeleteObject`, `ForgetBlocks` and
`CreatePendingObject` are named after their methods. `time.Now` is `clock`; the
several calls of one transaction fall into one tick. `ObjectMap` is the
abstraction; the refinement mapping `LiveManifests` reads the committed row of a
key and its chunk rows.

### MemoryStore

Each method holds `s.mu` throughout and is one action, taken together with the action
of `MetadataStore` for the same call. What differs is how the state is kept: an index
from keys to ids that commits and deletes update by hand, maps with absent entries,
counts that increment once per occurrence, chunk lists that deleted objects keep.
`StoresAgree` relates the two.

### PostgresStore

`tx[t]` is what a connection is doing. A row has its committed version and the one its
lock's holder has written; `objectHolder` and `blockHolder` are the row locks. A
statement that needs a lock another transaction holds is not enabled, and reads what is
committed when it goes on, which is READ COMMITTED. The unique index refuses a second
committed row of a key when the first is committed; `DetectDeadlock` ends one
transaction of a cycle. Commits and deletes lock `blocks` rows in the order of their
manifests, so cycles do happen, and the code does not try again: a commit may be
refused by the index or the detector, and its client gets an error.

### ObjectService

Each Put is a record in `put` (its `pc`, pending id, body and `seen` set) and each
sweep a record in `sweep`; the metadata tables are the variables of
`MetadataStore`, and `stored` is what the backend holds. A step is one call to the
store or the backend: `PutBegin`, `PutHasBlock`, `PutBlock`, `PutCommit`,
`SweepStart`, `SweepList`, `SweepDelete` (one block of a batch), `SweepForget`, each
with the step on which it fails. `PutFail` is every early return of Put, `Crash` the
end of the process. The body of an upload is the list of its chunks.

`collided` is a history variable: the blocks some upload had relied on (they are in
its `seen`) while some sweep had them in its batch. It is what separates the
guarantee of the code from the race below.

Blocks are written before they have rows, so the blocks of an upload that fails are in
no table and nothing in the code finds them: `OrphansAreCollected` speaks of blocks
that have a row.

### ObjectReads and Ranges

`GetObject` is two statements outside a transaction: `ReadRow` and `ReadChunks`. A
ranged GET runs it in `Stat`, computes the range, and runs it again in `OpenRange`; a
Put runs it for its answer. `content` (history) is the manifest each id was committed
with, and `disturbed` marks a request during which the object under its key changed: a
ranged GET may then deliver the range of another object, or less of it than it promised
(the run `shrunk`), and a Put may answer with an upload that came after it, or find none. `Ranges` translates the parser and the cutting
of chunks; `asked` (history) is the set of positions a header asks for, computed from
RFC 7233's meaning of the header and not from the code.

### MultipartManager

`req[r]` is where a request is: in the lookup of its session, in one of the steps of
`PutPart`, of an abort, of a complete or of a create. `loaded` is `Manager.sessions`,
`rows` the durable sessions, `used` the counter of `DiskReservations`; `file` and
`spool` hold the content of `part-<n>` and `part-<n>.tmp`. A file is followed
through renames: `at` says where the file a request is writing is linked now, so two
requests for one part that share a spool file are modelled with what they do to each
other. `phase` follows main: `CleanupStale`, `LoadActive`, then requests.

Abstractions, all of which lose only steps nothing else can see:

- A body is named by its size; two bodies of one size are the same body.
- The lookup that misses the map and the read of the row are one step, since
  nothing is kept between them. `SessionInsert` reserves and inserts in one step.
- An unload releases in the step in which it removes the session; a discarded or
  failed part removes its file in the step in which it undoes its reservation; the
  save of a row and `finishReservation` are one step.
- `CheckPart` reads the session, which is a lookup followed by a failure, and
  otherwise only refuses.
- A file is read as it is when it is opened.
- `CleanupStale` may remove any session, as ages are not modelled.
- Errors are possible wherever the code handles one; what they answer is left out.

The uploads in `Foreign` belong to other gateways on one PostgreSQL store
(`docs/postgres.md`), which create, change and delete their rows at any time.
`overlapped` and `contended` are history variables: the uploads on which two
requests were inside a reservation at a time, and the parts that were sent twice or
during a complete. They stand for what the code does not guarantee, as runs without
the exceptions show:

- When two parts of one upload are inside `PutPart` and the first one fails,
  `rollbackReservation` sets the session back to a size that does not count the
  second, whose bytes stay reserved until the process restarts.
- The rows of two parts saved in the other order leave the smaller total as the durable
  reservation.
- A part sent again replaces the file before its row is saved; if the save fails the
  file is removed while the earlier row, which a client had an answer for, remains.

`AssembledAsValidated` leaves uploads of other gateways out. Rows are shared but scratch
directories are not: a part sent here, sent again through another gateway and completed here
after a restart is validated by the row and assembled from the file this gateway kept.

### Reservations, the limiter, drain and shutdown

A step is one access to a shared variable, so the compare-and-swap loops, the second
look of `Begin` at the flag and the polls of `Acquire` interleave as they do in Go.
Integers wrap at `MaxInt`. `available` is what the system call answers; it stays the
same in a behaviour, so `GrantsLeaveMinFree` is about what the guard itself grants.
GOMAXPROCS may change between any two steps of the limiter; a caller that has its slot
leaves the gauge of waiting callers in a step of its own, the deferred one. A `Done` that
finds the wait group at zero would panic; that the count never becomes negative is part of
`DrainTypeOK`, which is proved with `CountExact`. In `Shutdown`, `main` follows the
function of that name and `cut` (history) is what the end of the process cut off. A
server alone (`Drain` under handlers that know nothing else) may panic in
`WaitGroup.Add`; in a server that was told to stop it cannot, because
`http.Server.Shutdown` has seen the last request (`ShutdownIsClean`).

### FileStore, Shards, Tenants

`FileStore` has the steps of `PutBlock` (stat, write to a temporary file, stat, rename),
`GetBlock` and `DeleteBlocks`, and failures of each; `was` and `wasnt` (history) note
what was on disk during a call. The blocks are those of one tenant: a tenant has a directory of its
own, of which `Tenants` says when that is so. A crash or a failed write leaves a temporary
file that nothing removes, and nothing removes a directory.

`Shards` opens a file outside the mutex of the store: `LookUp`, `ListApplied`, one
`ApplyMigration` per missing version, `Register` with its second look at the map. Two
first requests of a tenant may both find a version missing; the primary key of
`schema_migrations` refuses the second (`MigrationRefused`), whose request fails.

`Tenants` follows one name through `SafeTenantID` (letters of the safe alphabet, or a
digest), `sanitizePathPart` (other letters become `_`), and `ListTenants`, which gives a
sweep the name of the shard. `SafeTenantID` passes a safe name through as it is, so a tenant
may have for its name the digest that stands for another one, and then both share a shard:
`Distinguished` names the tenants to which this does not happen, and `Plain` those of them for
which moreover the three mappings agree and whose directory is theirs alone. For another name,
such as one with a dot, a sweep looks for its blocks in the directory of the digest, does not
find them, takes that for done and forgets their rows; and its directory may be that of a plain
tenant, whose sweep goes by its own rows only. `TenantsKeepTheirData` says of distinguished
names that their shard is their own, and of plain ones that their blocks stay.

### BlockBackends

A call (`calls[c]`) makes requests (`task[c]`), one for a put, a get or a lookup and one
per batch or per block for a delete; each request goes through the attempts of
`DoWithRetry`. The service is external: it may carry a request out, refuse it, or carry out
some items of a batch, and its answer may not arrive. `TimesOut` is the deadline of an
attempt, `CutOff` the caller's context. A request that was given up before it was carried
out may go to `late` and be carried out at any later time, which is what a client that
closes a connection can say of it. `provider` is one of the five clients: they differ in
what they take for "not found", for "try again" and for "unavailable", in whether a delete
has batches, falls back to single deletes and waits for its workers. Every attempt has a
deadline, because the constructors put 30 seconds in the place of a timeout that is not
positive (`s3.go:77`, `azure.go:64`, `gcs.go:61`, `swift.go:76`). The answer to a batch may report
failed items, which Azure does not look at, or, from Swift, say in its `ResponseStatus` alone
that the request failed, which is not looked at either (`BatchErrors`).

`was`, `wasnt`, `undeleted` and `acked` are history: what the service held during a call,
and the blocks whose put was answered and no delete of which has begun since.
`AcknowledgedBlocksStay` speaks of puts beside which neither a delete ran nor anything an
earlier one had left behind: a request that was given up, or one that Azure left to its
goroutines (`azure.go:289`), may still take a block that is stored again. That this happens,
even to a put that no delete is in progress beside, is what the run `late` shows of
`UnopposedPutsAreStored`; it is the cloud's share of the race of `ObjectService`.

Two things the code does that no document speaks of: the client for endpoints with a path
tries again after every error, 403 and 404 included, because its errors carry no response
that `minio.ToErrorResponse` knows; and Azure counts a failed authentication among the
errors that may pass.

### StoredTimes

`formatTime` cuts trailing zeros, so `12:00:00Z` sorts after `12:00:00.5Z`: text sorts as
time except within a second. `SelectedByAge` therefore allows one second in either
direction, and no more. `envDurationSeconds` multiplies in 64 bits; ages beyond 292
years wrap around and may pass `Validate` as short ones, by which a sweep then selects.
`SelectedByAge` speaks of the `Duration` that is in effect, whatever it came from, and so
includes those ages; that a configured age is the one in effect is not claimed, as nothing in
the code sees to it.

### Gateway

A message is a host, a path in its escaped form, a method, a query, a signer and a few
bits about its body; `Route` is `serveHTTP` up to the handler, in its order, and each
handler is one action per call it makes. Names are sequences of letters over a small
alphabet with an encoded slash and an encoded control character; the service below
commits, looks up and deletes in one step. A complete looks up its upload (`completeMultipart`)
and commits later (`PutAssembled`), even if another request has removed the upload in between;
`uploads` keeps those that are over as well (`active`), since ids are not used twice. Refusals
that depend on a part of the message which is not modelled (a part number, a list of hashes, a
list of parts) are choices. `Spelled` and `Asked` say which object a message names in the
addressing of its host, from the documentation of that addressing and not from the parser.
`saw` and `touched` (history) are what that object held during the request and what the request
read or changed, the look-ups of refused ranges included.

`TouchesWhatItAsks` leaves nothing out: a request touches the object it spells; a complete, which
goes by the id of its upload and by its tenant, the object that the message which began the
upload spelled, even if its own path says otherwise; a request of the delta protocol the one its
query or body names; each of a tenant its signature is good for.

What `RequestsDoWhatTheyAsk` says of answers excepts what the code answers in another way:

- `/healthz`, `/readyz`, `/metrics`, `/debug/pprof*` and `/_chunkgate/v1/*` are taken before
  the host is looked at. Under a virtual host they are keys, which a PUT is answered 200
  for without storing anything.
- A message about an upload is answered for the upload, whose bucket and key are not compared
  with those in its path.
- Under two virtual hosts of which one ends in the other, the first listed wins.
- After its commit a complete removes its upload, and is answered 500 if that fails.
- `DELETE /bucket` is answered 204 and removes nothing, as buckets have no state.

### Chunker

`Stream` reads a prefix to find a small body, puts it back and hands the reader to one
engine. A read returns any part of what is asked for. The built-in engine is followed
byte by byte with its gear hash (mod `HashSize`); the FastCDC library is external and
cuts where it likes within its sizes. `emit` may fail at any chunk.

### DeltaDownload

A run of `Download` goes through manifest, cache, one request for the missing chunks,
caching (remove, then rename), assembly, check and rename. The object may be
overwritten or deleted and its blocks collected, and cached files damaged, at any step.
A chunk is its hash and has size 1. `disturbed` (history) marks a run under which
something it relies on changed: among these is another run that removes a good cached
chunk to rename its own copy into place.

## Runs

| Run | Instance and bounds | Question it answers |
| --- | --- | --- |
| `tables` | `MCTables`: 3 objects, 2 keys, 2 blocks, manifests of up to 2 chunks with a repeated and an empty one, 2 ticks; or 2 requests about uploads in the four scopes of `MCMultipart` (one part with two bodies and a crash; two parts of which one is disputed, that is sent again or assembled while it is sent; two uploads with room for one; one own and one foreign upload) | do both stores keep counts, constraints and orphan timestamps, agree with one another, and implement the map; are reservations exact, do memory, rows and files agree, does a complete assemble what it validated, does a restart come up? |
| `storage` | `MCStorage`: 3 callers on a counter of capacity 5 in integers up to 7; 2 calls on 2 files, 2 faults; 2 openers, 2 shards, 2 migrations, 2 faults; 4 names, 2 blocks; 2 rows, seconds of 4 ticks, ages of 0, 1, 2 and 17 seconds, of which the last wraps around to one; 2 downloads, 2 objects of 3 chunks between them | do the loops implement the counter, do block calls act at once, are shards opened once and migrated in order, do tenants stay apart, is a list of orphans right about ages, is a downloaded file always one object? |
| `postgres` | `MCPostgresStore`: 2 transactions, 3 objects, 2 blocks named in both orders, fairness | is what is committed always consistent and the map, and does every transaction end? |
| `process` | `MCProcess`: 3 uploads and 2 other requests under a stopping server; 3 handlers around the drain; 3 callers for 2 slots or 1, one change of GOMAXPROCS; 1 caller of each cloud store, 2 blocks; 2 uploads of one key, 1 sweep, 2 blocks, batches of 1, 1 retry, 2 faults; fairness | does a clean exit cut nothing, does a shutdown end, are slots exact and taken, does every call to the cloud end; do committed objects keep their blocks and sweeps remove only old orphans outside `collided`; are orphans with rows collected in the end? |
| `data` | `MCData`: 3 messages of 2 senders about the objects of 2 tenants, or one message with any path of up to 5 letters on 3 hosts; 3 configurations of hosts, keys and CORS; 2 reads, 3 objects of one key, every header with numbers from -1 to 5; every body of up to 8 bytes of 2 kinds, reads of up to 3 bytes, sizes in and out of order, both engines | does a request do what it asks for; is a manifest ever mixed, is an undisturbed read exact; is anything lost or repeated in chunks, do cuts depend on content alone? |
| `backends` | `MCBackends`: for each of 5 stores, 2 callers on 1 block and up to 2 late requests; a put against a delete of 2 blocks and deletes of 3 blocks in batches of 2, with 1; 1 retry, 1 fault | is an answer true of some moment of the call, does a stored block stay, are only passing errors tried again? |
| `race`, `torn`, `shrunk`, `deltabatch`, `azure`, `late` | the smallest instances that show it; see the findings | what a document states and the code does not do |

Why the bounds are enough for what they are meant to show: an overwrite needs two
objects of one key and a third to share a block with; two blocks and a batch of one
give a sweep two batches and two orphans of different age; the races of multipart,
reads, transactions, openers and downloads are between two actors, and a third
repeats what one of them does; a lost update needs two callers and a third makes the value
come back; one crash is enough because a restart forgets what came before it. A body
of eight bytes is longer than twice the largest maximum, so a chunk follows one that
was cut by content and one that was cut by size. Two blocks in a batch and
a third make a batch that is half done and one that has not begun; one retry gives a first,
a last and a late attempt. A path of five letters has a bucket and
a key with a slash of each kind, encoded or not. What depends on a count is also
proved, for every bound, where a theorem is listed.

Deadlock is checked in `storage` and `postgres`: elsewhere upload ids, object ids and
clock ticks run out, a stream comes to its end, and a server without
requests may stop where it is.

### Fairness

- `process`, the service: time passes, and a sweep that can go on does (`Worker.Run` sweeps at each
  tick, and a sweep is a loop without locks). Nothing is assumed of clients: an upload may
  stop anywhere. Faults are bounded, so they stop.
- `postgres`: strong fairness of each transaction's statements, because the lock queues
  of the database are served in order; weak fairness of the deadlock detector, which
  runs after `deadlock_timeout`.
- `process`, the rest: every caller of a cloud store goes on (`Proceed`: goroutines are scheduled and
  timers fire, those of the deadlines included); nothing is assumed of the service, which may
  answer nothing at all. An attempt has a deadline whatever the configuration says, as a timeout
  of 0 (`CHUNKGATE_S3_TIMEOUT_SECONDS=0` and its like) becomes 30 seconds. Main goes on where it
  can (goroutines are scheduled, and the timer of the timeout fires); a caller of the limiter polls on, and Put releases its slot in a
  `defer`. Nothing is assumed of the requests a shutdown waits for.

### Findings

- `race`: Put trusts `HasBlock`, and a sweep deletes what it listed earlier without
  a second look at the reference count. A committed object can lose a block even if
  the block had been an orphan for longer than the minimum age and every call is
  prompt, because the age is that of the block and not of the upload that reuses it.
- `torn`: a GET that reads the row of an object, and its chunk rows after an overwrite or
  a delete, answers with the size and the ETag of the object and no bytes.
- `shrunk`: a ranged GET takes its range and its `Content-Length` from one manifest and its
  bytes from the next; if a shorter object was committed in between, the body ends early.
- `deltabatch`: a client asks for all the chunks it misses in one request, and the server
  refuses more than its maximum: an object with more distinct chunks cannot be downloaded
  into an empty cache.
- `azure`: `SubmitBatch` answers one status for the batch and one for each item, and
  `deleteBatch` reads the first only. Blobs whose deletion failed count as deleted, their
  rows are forgotten, and nothing finds them again. A bulk delete of Swift does the same (the model
  has it, the run is of Azure): it answers 200 before it begins and reports a failure of the whole
  in `ResponseStatus`, and `deleteBatch` looks at the list of errors only.
- `late`: a delete that was given up, or left to goroutines, removes a block that was stored
  after it: a put that no delete was in progress beside is answered, and its block is gone.

## Proofs

All theorems hold for every value of the constants that satisfies the named
assumptions of the modules (`ManifestsAssumption`, `NoKeyAssumption`,
`ServiceAssumption`, `ReservationsAssumption`, `LimiterAssumption` and so on; TLC
evaluates them on every run). Sets of ids, keys, blocks and callers may be infinite:
only finitely many rows name a block and only finitely many callers hold a slot, which
is part of the invariants.

`MetadataStoreProofs`. The inductive invariant `IInv` joins the types, the exactness
of `refCount`, the uniqueness of committed objects, the rows of referenced blocks and
the absence of chunk rows outside committed objects. The parts need each other:
`Detach` stops at zero, and only because the counts are exact (and a previous object
is unique) is it a subtraction; `ForgetBlocks` keeps referenced rows only because a
count of zero means that no row names the block. Lemmas about `RowsNaming` say how
the set of references changes when one object takes or gives up its chunks; each
action then follows by counting. `OrphanTimestamps` and `StoreImplementsMap` use the
invariant on the step: a commit over an object changes `LiveManifests` at one key
because it is the only committed object of that key.

`ObjectServiceProofs`. First, every step of the service is a step of the store or
leaves the tables alone (`ServiceRunsAreStoreRuns`, a lemma that holds by the shape of the
actions and is there for what follows), so the store's invariant carries over. Then `ServiceInv` adds what the two sides know of the backend: a block in the
`seen` set of an upload is stored or collided (`SeenSafe`), an overlap is always
recorded (`OverlapRecorded`), and the batch of a sweep, outside of overlaps, consists
of orphans older than its cutoff, of which those it no longer has to delete are gone
(`GoodBatch`). A step of an upload can break `GoodBatch` only for a block that
becomes referenced, which was in the upload's `seen` and so is collided; a step of a
sweep can break `SeenSafe` only for a block in its batch, likewise. From the
invariant follow `CommittedObjectsKeepTheirBlocks`, `SweepsRemoveOldOrphans` and
`RowsOutliveBlocks`.

Of `MemoryStore` (in the same module): `MInv` says that the memory store holds what the tables hold. It is
inductive only together with `IInv`: `decrementLocked` stops at zero like `Detach`, and
a delete finds the same object through the index only because the committed object is
unique. Chunk lists agree for committed objects alone, since a deleted object of the
memory store keeps its list.

`PostgresProofs`. Between the statements of a transaction the counts it has written agree
with nothing that is committed, so the invariant `PInv` states what each transaction counts:
of a block it has locked, the number of rows that name it as the transaction sees them
(`CountedOK`), where a previous object is seen from the last chunk detached
(`Reckoned`). It holds because a transaction that has not locked a block has changed no row
that names it. `TxOK` says which two rows a transaction may hold, the one it commits and the
one it replaces, and what it has written in them; `Unique` that a key has one committed row in
the committed versions, one in those being written, and that where the two differ one
transaction makes the difference, which is what `Unsettled` waits for. A step of one
transaction leaves what the others count alone (`Moves`, `OthersKeep`); a statement writes only
what its transaction has locked (`Writes`). `CountsStayExact` follows when the transaction
commits, since everything it wrote becomes visible at once; the implementation of `ObjectMap`
because the rows it holds are all of one key.

`StorageProofs`. For `Reservations`, the invariant adds to the bounds of the counter that
a swap about to be made was computed from a value it does not exceed them with
(`Accepted`); the swap succeeds only if that is still the value. An addition that is not
refused does not wrap (`NotRefused`). Every step then is one of `ReservationCounter` or
leaves the counter alone. `CounterInv` adds that the counter is the sum of the bytes of the
callers between their two swaps, so that `Release` never has to stop at zero and each check
counts at least what has been granted; `GrantsLeaveRoom` follows. For `FileStore`, that a call acts at one moment follows from
what each call knows of the path between its file operations. For `Shards` the invariant
says which shards are open and migrated at each step of an open, and for `Tenants` that
a distinguished tenant shares its shard with nobody, and a plain one its directory, so that what
it stores another neither reads nor sweeps. Of digests only their letters are assumed.

Of `DeltaDownload`: a download writes only chunks of the manifest it was answered with
(`WritesManifest`), asks for each distinct chunk once (`AsksOnce`) and relies on the
chunks it asked for being served or the object having changed (`Relies`). That the output
is an object follows for every value of the constants; that an undisturbed download
succeeds follows under `ManifestsFit`, which says that no manifest has more distinct
chunks than a request may name: the run `deltabatch` shows what happens without it.

`ProcessProofs`. In the limiter `active` is the cardinality of the holders and `waiting`
that of the queued callers; a caller that is about to swap has seen a value below the
limit. Lemmas say what one caller's step does to the two sets, and the steps follow by
adding or removing one element. The implementation of `CPUSemaphore` follows from the
bounds. `DrainInv` says that the wait group counts the handlers between `Add` and `Done`
and that after the wait no handler runs, for which it must know that the flag is up from
`Start` on: a handler that was counted late finds it. `ShutdownInv` relates main to the
requests: after `Shutdown` has returned without an error no handler is active, so that the
wait finds nothing and nothing is cut. `ShutdownStaysClean` joins the three into
`ShutdownIsClean`.

Of `BlockBackends`: an answer that a call gives is justified by what the tasks under it were
told by the service (`Told`), so the invariant `CloudInv` follows each kind of call: a call
on one block (`SingleOK`), a batched delete, in which the blocks dealt with are those of
the request without those still to do (`DeleteOK`, `BatchDone`), and the requests that
go on after their call is over (`OverOK`). A block that was acknowledged and not deleted
since is one that nothing in flight may still remove. `AcknowledgedBlocksRemain`,
`AnswersStayTrue` and `AttemptsAreSpent` follow from it.

`DataProofs`. What a read knows (`ReadsInv`) is stated per request: the row it has read is one
its id was committed with, the chunks it has read are those of that row or, if the object has
changed under it, nothing, and a range was parsed from the size of the first row. It stays
true while the tables move because `content` only grows and a change of a key disturbs the
requests on it; `ReadersNeverMix` and `RangesAreWhatIsAsked` follow. That the pieces a range
is read in are the range (`OpenChunksIsExact`) is an induction over the chunks of the
recipe: the pieces so far are the range as far as the chunks so far reach.

`GatewayInv` follows each handler: it has the target its message was routed to, has touched
no other object, and `saw` has what it was answered with; and of each upload begun, that its
object is the one its message spelled, for the tenant that message was signed for.
`RequestsTouchWhatTheyAsk` needs no hypothesis. `RequestsAreAnswered` has one, `HostsApart`: no host of a message is under two
different configured hosts, since the server takes the first that fits, and for the others
the documentation does not say which object is meant.

`StreamInv` cuts the body of a stream into what was emitted, the chunk under construction, the
buffer, the prefix and what is left in the reader, each following the one before it
(`Follows`), so that a byte is never lost between two of them; for the built-in engine it
adds that `hash` is the hash of the current chunk and that the chunk was not to be cut
earlier (`Uncut`). `ChunksAreWholeBodies` and `CutsAreByContent` follow. That chunks laid end
to end are the body (`FlatChunks`), that every chunk has a hash and that equal beginnings have equal
hashes are inductions over recursive functions.

Of `StoredTimes`: a formatted time begins with its seconds (`TimeIs`), so texts of two
different seconds sort as the seconds do whatever the fractions are (`NotAfterIs`); a list can
then be wrong about the age by less than one second (`SecondsAre`), and an age that fits a
`Duration` does not wrap (`DurationIs`). `OrphansAreListedByAge` holds for any number of digits
and any width of integers. The provers know nothing of `^`, so that a second has a positive
number of ticks is one of the assumptions.

`MultipartProofs`. `LifeInv` follows an upload from the create that draws its id to the
delete of its row: a request has the fields its next step reads (`StepOK`), a create has its
upload to itself (`LifeOK`), and a row of this gateway that is not in memory is one a create
is about to publish or a restart about to load (`UploadOK`). Every step of a request is one
in the life of one upload (`LifeStep`), so that the others are left alone, which is proved once.
`MemoryInv` adds, for uploads on which no two reservations have overlapped, what the request
between memory and row holds: `total`, `previous` and `before` are what the session became and
what the row still says, so that both the save and its undo lead back to agreement
(`CountingOK`, `MemoryOK`); `MemoryIsDurable` is the case that nobody is in between. `PartsInv`
adds, for parts that are not contended, where the content of a part is at each step from the
spool file to its row (`SendingOK`), that a listed part is in scratch (`PartOK`), and what a
complete may still find of it (`CompletingOK`): a file may be gone, with the directory, but is
not another one. `PartsAreIntact` and `CompletesAssembleWhatTheyValidated` follow.

`BytesInv` says that only finitely many sessions are in memory or durable, that `used` is what
the sessions in memory and the requests have reserved, and that it is within the capacity. A
step of a request moves bytes of one session and one request (`StepBytes`), so both sums move
by one summand and `NothingLeaks` follows; that undoing a reservation gives back what it took
is `CountingOK`. `RestartsFit` compares two sums that are never equal while requests run: what
the row of a session has beyond the session in memory, a request has in hand, and no two
sessions share that request (`RowsCovered`), so the rows fit because `used` does. `FitsInv`
carries this over a crash and through the removals of `CleanupStale`, when memory is gone and
only the rows are left.

The theorem of natural induction takes an operator and cannot be instantiated here; these
inductions instead take the statement as a set of numbers (`SetInduction`), which holds
because `<` is well-founded on them (`WFMin` and `NatLessThanWellFounded`). `FiniteSums`
does the same for the subsets of a finite set (`SubsetInduction`) and proves with it that
`MapThenSumSet` may take its elements in any order (`SumTakes`), what it becomes when
one of them changes (`SumMoves`), that what adds nothing can be left out (`SumSupport`), and
when one sum is within two others (`SumCovered`).

The proofs made explicit what some modules assume of their constants: tenant names are
sequences and no opener of a shard is called "none"; sizes of blocks and limits are numbers;
a Range header is a pair of integers or one that `ParseInt` refuses; virtual hosts are
listed by numbers and a message has one of three kinds of range; the sizes a caller gives to
`New` are integers, and the defaults are positive; no transaction of PostgreSQL is the holder of
unlocked rows, and no id or manifest is "no object"; part numbers are finitely many (1 to
10000, `multipart_handlers.go`), as are the requests of a gateway at a time, and no session is
"no session".

Only model-checked: liveness (`OrphansAreCollected`, `TransactionsEnd`, `ShutdownEnds`,
`SomeoneGetsASlot`, `CallsEnd`), which the prover does not reach. Every invariant and every
action property that a passing run checks is also a theorem. The type
invariant of `MetadataStore` is proved (`TypeCorrect`) and no longer checked by a run.

## Not modelled, and the plan

`PROJECT.json` lists every component with its status, and every hazard with the
properties that cover it or the reason why none does.

Done: the metadata stores (SQLite, memory, PostgreSQL), uploads against garbage
collection, reads and ranges, multipart, reservations, limiter, drain and shutdown,
chunker, downloads, block files, shards and tenant names, the cloud stores with their
retries, times as text, the HTTP server; the proofs above.

Next: the scratch directories of a crashed create and ages in `CleanupStale`; the multipart
maps of the memory store.

Out of reach or out of interest: cryptography (signatures, block encryption, hashes
are names), the wire formats of the cloud stores and what their SDKs repeat inside of one
attempt, the parsing of the configuration beyond the orphan age, the headers of CORS, XML,
logs and metrics.
