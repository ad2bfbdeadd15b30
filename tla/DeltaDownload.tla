---------------------------- MODULE DeltaDownload ----------------------------
(***************************************************************************)
(* Downloads by the companion client (src/internal/deltaclient/client.go)  *)
(* from the two endpoints of src/internal/api/delta_handlers.go: fetch the *)
(* manifest, look for its chunks in the cache directory, ask for the ones  *)
(* that are missing, cache them, put the object together, check it and     *)
(* rename it into place.  Meanwhile the object may be overwritten or       *)
(* deleted and its blocks collected, cached files may be damaged, and      *)
(* clients that use one cache directory work side by side.                 *)
(*                                                                         *)
(* A chunk's bytes are its hash: SHA-256 is taken to tell all chunks       *)
(* apart.  Every chunk is of size 1, so the size of an object is its       *)
(* number of chunks.                                                       *)
(***************************************************************************)
EXTENDS Integers, Sequences, FiniteSets

CONSTANTS
  Clients,    \* runs of Download, all on one object and one cache directory
  ChunkHashes,     \* chunks
  Objects,    \* the objects that may come under the key
  ChunksOf,   \* their chunk lists
  WithMD5,    \* the objects whose ETag is an MD5: single uploads
  Absent,
  MaxHashes   \* maxDeltaChunkRequestHashes

ASSUME ChunksOfAssumption == ChunksOf \in [Objects -> Seq(ChunkHashes)]
ASSUME AbsentAssumption == Absent \notin Objects

VARIABLES
  live,    \* the object under the key
  past,    \* the objects that have been there
  cache,   \* [ChunkHashes -> "none", "good" or "damaged"]
  client,  \* what each run of Download is doing
  output   \* its output file: what was there before, an object's chunks, or gone

downloadVars == <<live, past, cache, client, output>>

Untouched == <<"before">>
Gone   == <<"gone">>

Start == [step |-> "manifest", object |-> Absent, chunks |-> <<>>, listed |-> <<>>,
          missing |-> <<>>, fetched |-> {}, at |-> 1, written |-> <<>>, disturbed |-> FALSE]

Listed(chunks) == {chunks[i] : i \in DOMAIN chunks}

Downloading(c) == client[c].step \notin {"done", "failed"}

(* GetObject: the row, and then the chunks if their rows are still there. *)
RowsNow(object) == IF object = live /\ object # Absent THEN ChunksOf[object] ELSE <<>>

Become(c, changes) == client' = [client EXCEPT ![c] = changes]

Failed(c) == [client[c] EXCEPT !.step = "failed"]

DownloadInit ==
  /\ live \in Objects /\ past = {live}
  /\ cache = [h \in ChunkHashes |-> "none"]
  /\ client = [c \in Clients |-> Start]
  /\ output = [c \in Clients |-> Untouched]

-----------------------------------------------------------------------------
(* FetchManifest: Stat reads the row, 404 without one ... *)
FetchRow(c) ==
  /\ client[c].step = "manifest"
  /\ IF live = Absent THEN Become(c, Failed(c))
     ELSE Become(c, [client[c] EXCEPT !.step = "chunks", !.object = live])
  /\ UNCHANGED <<live, past, cache, output>>

(* ... and the chunks. *)
FetchManifest(c) ==
  /\ client[c].step = "chunks"
  /\ Become(c, [client[c] EXCEPT !.step = "look", !.chunks = RowsNow(client[c].object)])
  /\ UNCHANGED <<live, past, cache, output>>

(* Download: cache.Has for each hash once, in order. *)
LookFor(c) ==
  LET me == client[c]
      h == me.chunks[me.at]
      absent == h \notin Listed(SubSeq(me.chunks, 1, me.at - 1)) /\ cache[h] # "good"
  IN  /\ me.step = "look" /\ me.at \in DOMAIN me.chunks
      /\ Become(c, [me EXCEPT !.at = me.at + 1,
                              !.missing = IF absent THEN Append(@, h) ELSE @])
      /\ UNCHANGED <<live, past, cache, output>>

Looked(c) ==
  LET me == client[c]
  IN  /\ me.step = "look" /\ me.at > Len(me.chunks)
      /\ Become(c, [me EXCEPT !.step = IF me.missing = <<>> THEN "reconstruct" ELSE "request",
                              !.at = 1])
      /\ UNCHANGED <<live, past, cache, output>>

(* getDeltaChunks: a long list is refused; ReadChunks begins with a        *)
(* GetObject of its own.                                                   *)
Request(c) ==
  LET me == client[c]
  IN  /\ me.step = "request"
      /\ \/ /\ Len(me.missing) > MaxHashes \/ live = Absent
            /\ Become(c, Failed(c))
         \/ /\ Len(me.missing) <= MaxHashes
            /\ \/ live # Absent /\ Become(c, [me EXCEPT !.step = "serve", !.listed = ChunksOf[live]])
               \/ \E object \in past \ {live} : \* replaced between row and chunks
                    /\ me.disturbed
                    /\ Become(c, [me EXCEPT !.step = "serve", !.listed = <<>>])
      /\ UNCHANGED <<live, past, cache, output>>

(* ReadChunks, one hash: ErrChunkNotInManifest, a block that a sweep has   *)
(* removed since, or the block.                                            *)
ServeBlock(c) ==
  LET me == client[c]
      h == me.missing[me.at]
  IN  /\ me.step = "serve" /\ me.at \in DOMAIN me.missing
      /\ \/ /\ h \notin Listed(me.listed) \/ h \notin Listed(RowsNow(live))
            /\ Become(c, Failed(c))
         \/ /\ h \in Listed(me.listed)
            /\ Become(c, [me EXCEPT !.at = me.at + 1, !.fetched = @ \cup {h}])
      /\ UNCHANGED <<live, past, cache, output>>

Served(c) ==
  LET me == client[c]
  IN  /\ me.step = "serve" /\ me.at > Len(me.missing)
      /\ Become(c, [me EXCEPT !.step = "put", !.at = 1])
      /\ UNCHANGED <<live, past, cache, output>>

(* Cache.Put: nothing to do if the chunk is there by now ... *)
PutChunk(c) ==
  LET me == client[c]
      h == me.missing[me.at]
  IN  /\ me.step = "put"
      /\ \/ me.at > Len(me.missing) /\ Become(c, [me EXCEPT !.step = "reconstruct", !.at = 1])
         \/ /\ me.at \in DOMAIN me.missing
            /\ IF cache[h] = "good"
               THEN Become(c, [me EXCEPT !.at = me.at + 1])
               ELSE Become(c, [me EXCEPT !.step = "remove"])
      /\ UNCHANGED <<live, past, cache, output>>

(* The runs after something they rely on has changed (history). *)
AllDisturbed == [c \in Clients |-> [client[c] EXCEPT !.disturbed = @ \/ Downloading(c)]]

(* ... else a temporary file is written, the old one removed, which may be *)
(* a good one that another client has put there since and relies on ...    *)
RemoveOld(c) ==
  LET h == client[c].missing[client[c].at]
  IN  /\ client[c].step = "remove"
      /\ cache' = [cache EXCEPT ![h] = "none"]
      /\ client' = [(IF cache[h] = "good" THEN AllDisturbed ELSE client) EXCEPT
                      ![c] = [client[c] EXCEPT !.step = "rename"]]
      /\ UNCHANGED <<live, past, output>>

(* ... and the new one renamed into its place. *)
RenameNothing(c) ==
  LET me == client[c]
  IN  /\ me.step = "rename"
      /\ Become(c, [me EXCEPT !.step = "put", !.at = me.at + 1])
      /\ UNCHANGED <<live, past, cache, output>>

RenameChunk(c) ==
  LET me == client[c]
  IN  /\ me.step = "rename"
      /\ cache' = [cache EXCEPT ![me.missing[me.at]] = "good"]
      /\ Become(c, [me EXCEPT !.step = "put", !.at = me.at + 1])
      /\ UNCHANGED <<live, past, output>>

(* reconstruct: Cache.Read checks the size and the hash of each chunk. *)
WriteChunkUnchecked(c) ==
  LET me == client[c]
      h == me.chunks[me.at]
  IN  /\ me.step = "reconstruct" /\ me.at \in DOMAIN me.chunks
      /\ IF cache[h] = "none" THEN Become(c, Failed(c))
         ELSE Become(c, [me EXCEPT !.at = me.at + 1,
                                   !.written = Append(@, IF cache[h] = "good" THEN h ELSE "damaged")])
      /\ UNCHANGED <<live, past, cache, output>>

WriteChunk(c) ==
  LET me == client[c]
      h == me.chunks[me.at]
  IN  /\ me.step = "reconstruct" /\ me.at \in DOMAIN me.chunks
      /\ IF cache[h] # "good" THEN Become(c, Failed(c))
         ELSE Become(c, [me EXCEPT !.at = me.at + 1, !.written = Append(@, h)])
      /\ UNCHANGED <<live, past, cache, output>>

(* The size of the manifest, its MD5 if it has one, and the rename of the  *)
(* temporary file; should that fail, the output file is removed and the    *)
(* rename tried again.                                                     *)
Check(c) ==
  /\ Len(client[c].written) = Len(ChunksOf[client[c].object])
  /\ client[c].object \in WithMD5 => client[c].written = ChunksOf[client[c].object]

Install(c) ==
  LET me == client[c]
  IN  /\ me.step = "reconstruct" /\ me.at > Len(me.chunks)
      /\ \/ /\ Check(c)
            /\ output' = [output EXCEPT ![c] = me.written]
            /\ Become(c, [me EXCEPT !.step = "done"])
         \/ /\ Check(c) \* os.Rename fails both times
            /\ output' = [output EXCEPT ![c] = Gone]
            /\ Become(c, [Failed(c) EXCEPT !.disturbed = TRUE])
         \/ /\ ~Check(c)
            /\ Become(c, Failed(c))
            /\ UNCHANGED output
      /\ UNCHANGED <<live, past, cache>>

-----------------------------------------------------------------------------
(* The others. *)

Replace(object) ==
  /\ object \notin past
  /\ live' = object /\ past' = past \cup {object}
  /\ client' = AllDisturbed
  /\ UNCHANGED <<cache, output>>

DeleteFromServer ==
  /\ live # Absent
  /\ live' = Absent
  /\ client' = AllDisturbed
  /\ UNCHANGED <<past, cache, output>>

(* A cached file is truncated or lost. *)
Damage(h) ==
  /\ cache[h] = "good"
  /\ cache' = [cache EXCEPT ![h] = "damaged"]
  /\ client' = AllDisturbed
  /\ UNCHANGED <<live, past, output>>

DownloadStep(c) ==
  \/ FetchRow(c) \/ FetchManifest(c) \/ LookFor(c) \/ Looked(c) \/ Request(c)
  \/ ServeBlock(c) \/ Served(c) \/ PutChunk(c) \/ RemoveOld(c) \/ RenameChunk(c)
  \/ WriteChunk(c) \/ Install(c)

DownloadNext ==
  \/ \E c \in Clients : DownloadStep(c)
  \/ \E object \in Objects : Replace(object)
  \/ DeleteFromServer
  \/ \E h \in ChunkHashes : Damage(h)

DownloadSpec == DownloadInit /\ [][DownloadNext]_downloadVars

-----------------------------------------------------------------------------
(* Properties. *)

\* The output file is what was there before, gone after two renames failed,
\* or all of one object that was under the key, however the object, its
\* blocks and the cache changed under the download; it is never a part of an
\* object or a mixture of two.
OutputIsAnObject ==
  \A c \in Clients :
    /\ output[c] \in {Untouched, Gone} \/ \E object \in past : output[c] = ChunksOf[object]
    /\ client[c].step = "done" => output[c] = ChunksOf[client[c].object]

\* A download that nothing disturbed, neither a change of the object, nor a
\* lost or damaged file, nor another download that put its own copy of a chunk
\* in the place of one that was there, succeeds.  (docs/delta-protocol.md:86:
\* "The proof-of-concept CLI implements this flow".)
UndisturbedDownloadsSucceed ==
  \A c \in Clients : client[c].step = "failed" => client[c].disturbed

=============================================================================
