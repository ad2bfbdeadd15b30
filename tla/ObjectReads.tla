------------------------------ MODULE ObjectReads ------------------------------
(***************************************************************************)
(* Reads of objects against uploads and deletes of the same key: GetObject *)
(* of sqlite.go is two statements outside a transaction, a ranged GET      *)
(* calls it twice (Stat and OpenRange), and Put calls it for its answer    *)
(* (src/internal/object/service.go, src/internal/api/object_handlers.go).  *)
(* The blocks of a manifest are taken to be stored; ObjectService is about *)
(* that.                                                                   *)
(***************************************************************************)
EXTENDS MetadataStore, Ranges

CONSTANTS
  Requests,
  Headers,    \* Range headers: pairs of numbers or Nothing, and Malformed
  SizeOf      \* the size of each block

ASSUME ReadsAssumption ==
  /\ SizeOf \in [Hashes -> Nat]
  /\ Headers \subseteq [first : Int \cup {Nothing}, last : Int \cup {Nothing}] \cup {Malformed}

VARIABLES
  request,    \* where each request is and what it has read
  content     \* the manifest each object was committed with (history)

vars == <<storeVars, request, content>>

(* objects.size, which stays in the row, and the manifest with offsets. *)
Recipe(chunks) == Contiguous([i \in DOMAIN chunks |-> SizeOf[chunks[i]]])
SizeOfChunks(chunks) == Size(Recipe(chunks))

NoRequest ==
  [op |-> "none", pc |-> "idle", key |-> NoKey, own |-> NoObject, id |-> NoObject,
   size |-> 0, chunks |-> <<>>, range |-> Nothing, asked |-> {}, disturbed |-> FALSE]

ReadsInit ==
  /\ Init
  /\ request = [r \in Requests |-> NoRequest]
  /\ content = [id \in ObjectIds |-> <<>>]

InProgress(r) == request[r].pc \in {"row", "chunks", "parse"}

(* A change of the object under a key disturbs the requests that read it. *)
Disturbed(k) ==
  [r \in Requests |-> IF InProgress(r) /\ request[r].key = k
                      THEN [request[r] EXCEPT !.disturbed = TRUE] ELSE request[r]]

-----------------------------------------------------------------------------
(* Clients that only write. *)

Create(id, k) ==
  /\ CreatePendingObject(id, k)
  /\ UNCHANGED <<request, content>>

Commit(id, chunks) ==
  /\ CommitObject(id, chunks)
  /\ content' = [content EXCEPT ![id] = chunks]
  /\ request' = Disturbed(objectKey[id])

Delete(k) ==
  /\ DeleteObject(k)
  /\ request' = Disturbed(k)
  /\ UNCHANGED content

-----------------------------------------------------------------------------
(* Requests that read. *)

BeginGet(r, k) ==
  /\ request[r].pc = "idle"
  /\ request' = [request EXCEPT ![r] = [NoRequest EXCEPT !.op = "get", !.pc = "row", !.key = k]]
  /\ UNCHANGED <<storeVars, content>>

BeginRange(r, k) ==
  /\ request[r].pc = "idle"
  /\ request' = [request EXCEPT ![r] = [NoRequest EXCEPT !.op = "range", !.pc = "row", !.key = k]]
  /\ UNCHANGED <<storeVars, content>>

(* Put has committed and reads its answer. *)
PutCommits(r, id, chunks) ==
  /\ request[r].pc = "idle"
  /\ CommitObject(id, chunks)
  /\ content' = [content EXCEPT ![id] = chunks]
  /\ request' = [Disturbed(objectKey[id]) EXCEPT ![r] =
       [NoRequest EXCEPT !.op = "put", !.pc = "row", !.key = objectKey[id], !.own = id]]

(* loadCommittedObject: the row of the object ... *)
RowMissing(r) ==
  /\ request[r].pc = "row" /\ Committed(request[r].key) = {}
  /\ request' = [request EXCEPT ![r].pc = "missing"]
  /\ UNCHANGED <<storeVars, content>>

ReadRow(r) ==
  /\ request[r].pc = "row"
  /\ \E id \in Committed(request[r].key) :
       request' = [request EXCEPT ![r].pc = "chunks", ![r].id = id,
                                  ![r].size = SizeOfChunks(objectChunks[id])]
  /\ UNCHANGED <<storeVars, content>>

(* ... and, in a second statement, its chunks. *)
AfterChunks(r) ==
  IF request[r].op = "range" /\ request[r].range = Nothing THEN "parse" ELSE "done"

ReadChunksOfKey(r) ==
  /\ request[r].pc = "chunks"
  /\ \E id \in Committed(request[r].key) :
       request' = [request EXCEPT ![r].pc = AfterChunks(r), ![r].chunks = objectChunks[id]]
  /\ UNCHANGED <<storeVars, content>>

ReadChunks(r) ==
  /\ request[r].pc = "chunks"
  /\ request' = [request EXCEPT ![r].pc = AfterChunks(r), ![r].chunks = objectChunks[request[r].id]]
  /\ UNCHANGED <<storeVars, content>>

(* The bytes of an object of this size a header asks for: from the first   *)
(* to the last position, or as many as there are of the last bytes.        *)
AskedFor(header, size) ==
  {p \in 0 .. size - 1 :
     /\ header # Malformed
     /\ IF header.first # Nothing
        THEN p >= header.first /\ header.first >= 0 /\ (header.last = Nothing \/ p <= header.last)
        ELSE header.last # Nothing /\ p >= size - header.last}

(* getObjectRange parses the header with the size Stat has read, and reads *)
(* the object again to open it.  Nothing looks at the header before.       *)
ParseRange(r, header) ==
  /\ request[r].pc = "parse"
  /\ LET range == ParseSingleRange(header, request[r].size)
     IN  request' = [request EXCEPT ![r].range = range,
                                    ![r].asked = AskedFor(header, request[r].size),
                                    ![r].pc = IF range = Refused THEN "refused" ELSE "row"]
  /\ UNCHANGED <<storeVars, content>>

ReadsNext ==
  \/ \E id \in ObjectIds, k \in Keys : Create(id, k)
  \/ \E id \in ObjectIds, chunks \in Manifests : Commit(id, chunks)
  \/ \E k \in Keys : Delete(k)
  \/ \E r \in Requests :
       \/ \E k \in Keys : BeginGet(r, k)
       \/ \E k \in Keys : BeginRange(r, k)
       \/ \E id \in ObjectIds, chunks \in Manifests : PutCommits(r, id, chunks)
       \/ RowMissing(r) \/ ReadRow(r) \/ ReadChunks(r)
       \/ \E header \in Headers : ParseRange(r, header)

ReadsSpec == ReadsInit /\ [][ReadsNext]_vars

-----------------------------------------------------------------------------
(* Properties. *)

Done(r, op) == request[r].op = op /\ request[r].pc = "done"

Whole(r) == request[r].chunks = content[request[r].id]

(* The bytes a ranged answer consists of. *)
Body(r) == OpenChunks(Recipe(request[r].chunks), request[r].range)

(* A body that is a range: without a gap or an overlap from start to end.  *)
IsExactly(pieces, range) ==
  /\ pieces # <<>>
  /\ pieces[1][1] = range.start /\ pieces[Len(pieces)][2] = range.end
  /\ \A i \in DOMAIN pieces : pieces[i][1] <= pieces[i][2]
  /\ \A i \in 1 .. Len(pieces) - 1 : pieces[i + 1][1] = pieces[i][2] + 1

\* A reader never sees the chunks of one object under the size and the ETag of
\* another: a manifest it gets has all of the chunks of its row, or, if the
\* object went away between the two statements, none.
NeverMixed ==
  \A r \in Requests : request[r].pc \in {"parse", "done"} =>
    /\ request[r].size = SizeOfChunks(content[request[r].id])
    /\ Whole(r) \/ request[r].chunks = <<>>

\* As long as nobody changes the object under the key, what is answered is
\* exact: a GET returns a whole object, a Put answers with its own and never
\* finds its key missing, and the body of a ranged GET is the promised range
\* byte by byte, whatever the chunk boundaries.  (openChunks.)
UndisturbedReadsExact ==
  \A r \in Requests : ~request[r].disturbed =>
    /\ request[r].pc = "done" => Whole(r)
    /\ Done(r, "put") => request[r].id = request[r].own
    /\ request[r].op = "put" => request[r].pc # "missing"
    /\ Done(r, "range") => IsExactly(Body(r), request[r].range)

\* The parser answers exactly the bytes asked for of an object of the size it
\* was given, and refuses only a header that asks for none.  (parseSingleRange:
\* suffixes longer than the object, ends past it, one byte, empty objects.)
ParsedIsAsked ==
  \A r \in Requests :
    /\ request[r].pc = "refused" => request[r].asked = {}
    /\ request[r].range \notin {Nothing, Refused} =>
         /\ request[r].asked = request[r].range.start .. request[r].range.end
         /\ request[r].asked # {}

\* What docs/delta-protocol.md:101 says: "Standard S3 GET and HEAD return
\* complete objects".
GetsAreComplete == \A r \in Requests : Done(r, "get") => Whole(r)

\* What docs/delta-protocol.md:3 says of range requests, that their clients are
\* served exactly as before: a ranged GET that has read a whole manifest
\* answers every byte of the range its Content-Length and Content-Range
\* promise, whatever object the range was computed for.
RangesAreComplete ==
  \A r \in Requests : Done(r, "range") /\ Whole(r) => IsExactly(Body(r), request[r].range)

=============================================================================
