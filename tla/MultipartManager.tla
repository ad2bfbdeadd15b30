-------------------------- MODULE MultipartManager --------------------------
(***************************************************************************)
(* The multipart uploads of one tenant on one gateway                      *)
(* (src/internal/multipart/manager.go, with the handlers of                *)
(* src/internal/api/multipart_handlers.go that call it): the sessions in   *)
(* memory under Manager.mu, their durable rows, the scratch files and the  *)
(* reservation counter of src/internal/limits/reservations.go.  Each       *)
(* request runs in a goroutine; a step is what a request does between two  *)
(* points where another one can get in: a section under mu, a statement of *)
(* the metadata store, a file operation.                                   *)
(*                                                                         *)
(* A body is named by its size: two parts of one size have one content and *)
(* one ETag.                                                               *)
(***************************************************************************)
EXTENDS Integers, FiniteSets, FiniteSetsExt

CONSTANTS
  Uploads,        \* upload ids; an id is drawn once
  Foreign,        \* those drawn by another gateway on the same store
  Numbers,        \* part numbers
  Bodies,         \* part bodies, by size
  Sent,           \* the <<number, body>> pairs clients send
  ExpectedSizes,  \* X-ChunkGate-Expected-Size of new uploads
  Requests,       \* handlers that run at a time
  Capacity,       \* DiskReservations.capacity; 0 is no limit
  MaxUploadSize,  \* Manager.maxUploadSize; 0 is no limit
  MaxCrashes,     \* bound on crashes
  NoSession, NoPart, NoFile,
  Torn            \* the content of a file that is partly written or mixed

ASSUME MultipartAssumption ==
  /\ Foreign \subseteq Uploads
  /\ Numbers \subseteq Nat \ {0}
  /\ Bodies \subseteq Nat /\ ExpectedSizes \subseteq Nat
  /\ Sent \subseteq Numbers \X Bodies
  /\ Capacity \in Nat /\ MaxUploadSize \in Nat /\ MaxCrashes \in Nat
  /\ NoPart \notin Bodies /\ NoFile \notin Bodies \cup {Torn} /\ Torn \notin Bodies
  /\ NoSession \notin Uploads \cup [reserved : Nat, parts : [Numbers -> Bodies \cup {NoPart}]]
  /\ IsFiniteSet(Numbers) /\ IsFiniteSet(Requests)

VARIABLES
  phase,       \* "serve", or where a restart is: "clean" or "load"
  issued,      \* upload ids: "new", "drawn", or "answered" to a client
  used,        \* DiskReservations.used
  loaded,      \* Manager.sessions
  rows,        \* multipart_sessions with their multipart_parts
  dirs,        \* uploads that have a scratch directory
  file,        \* the content of part-<n>
  spool,       \* the content of part-<n>.tmp
  req,         \* where each request is
  crashes,
  overlapped,  \* history: uploads with two requests inside a reservation
  contended    \* history: parts sent again, twice at a time or in a complete

tables == <<issued, rows>>
disk == <<dirs, file, spool>>
history == <<overlapped, contended>>
multipartVars == <<phase, used, loaded, req, crashes, tables, disk, history>>

NoParts == [n \in Numbers |-> NoPart]
NoFiles == [n \in Numbers |-> NoFile]

Session(reserved, parts) == [reserved |-> reserved, parts |-> parts]

(* then is the step after m.session has answered; session what it answered *)
(* where a later step reads it; at tells where the file a PutPart writes   *)
(* to is linked now; delta, total, previous and before are its             *)
(* partReservation; want and got what a complete was asked to assemble and *)
(* what it opened.                                                         *)
Idle ==
  [pc |-> "idle", then |-> "none", upload |-> NoSession, number |-> 0, body |-> NoPart,
   session |-> NoSession, at |-> "none", torn |-> FALSE,
   delta |-> 0, total |-> 0, previous |-> NoPart, before |-> 0,
   want |-> NoParts, got |-> NoFiles]

MultipartInit ==
  /\ phase = "serve"
  /\ issued = [u \in Uploads |-> "new"]
  /\ used = 0
  /\ loaded = [u \in Uploads |-> NoSession]
  /\ rows = [u \in Uploads |-> NoSession]
  /\ dirs = {}
  /\ file = [u \in Uploads |-> NoFiles]
  /\ spool = [u \in Uploads |-> NoFiles]
  /\ req = [r \in Requests |-> Idle]
  /\ crashes = 0
  /\ overlapped = {}
  /\ contended = {}

-----------------------------------------------------------------------------
(* Reservations. *)

Positive(bytes) == IF bytes > 0 THEN bytes ELSE 0

FitsOnItsOwn(bytes) == Capacity = 0 \/ bytes <= Capacity

(* TryReserve accepts; the free-space check of DiskGuard may still refuse, *)
(* which is one of the errors a request may end with at any time.          *)
Fits(bytes) == bytes <= 0 \/ Capacity = 0 \/ used + bytes <= Capacity

Reserved(bytes) == used + Positive(bytes)

(* Release stops at zero. *)
Released(bytes) == Positive(used - Positive(bytes))

Total(parts) ==
  MapThenSumSet(LAMBDA n : parts[n], {n \in Numbers : parts[n] # NoPart})

-----------------------------------------------------------------------------
(* Requests. *)

Upload(r) == req[r].upload
Number(r) == req[r].number

Begin(r, then, u, n, body) ==
  /\ phase = "serve" /\ req[r].pc = "idle" /\ issued[u] = "answered"
  /\ req' = [req EXCEPT ![r] = [Idle EXCEPT !.pc = "lookup", !.then = then, !.upload = u,
                                            !.number = n, !.body = body]]
  /\ UNCHANGED <<phase, used, loaded, crashes, tables, disk, overlapped>>

PutPart(r, u, n, body) == Begin(r, "create", u, n, body) /\ UNCHANGED contended

Putting(q) == req[q].pc \in {"spool", "reserve", "rename", "save"}

Complete(r, u) ==
  /\ Begin(r, "validate", u, 0, NoPart)
  /\ contended' = contended \cup
       {<<u, Number(q)>> : q \in {p \in Requests : Upload(p) = u /\ Putting(p)}}

Abort(r, u) == Begin(r, "deleterow", u, 0, NoPart) /\ UNCHANGED contended

(* Manager.session: on to the next step with a copy of the session, which  *)
(* only completes read again.                                              *)
Answer(request, session) ==
  [request EXCEPT !.pc = request.then,
                  !.session = IF request.then \in {"validate", "open"} THEN session
                              ELSE NoSession]

SessionFound(r) ==
  /\ req[r].pc = "lookup"
  /\ loaded[Upload(r)] # NoSession
  /\ req' = [req EXCEPT ![r] = Answer(@, loaded[Upload(r)])]
  /\ UNCHANGED <<phase, used, loaded, crashes, tables, disk, history>>

SessionRead(r) ==
  /\ req[r].pc = "lookup"
  /\ loaded[Upload(r)] = NoSession /\ rows[Upload(r)] # NoSession
  /\ req' = [req EXCEPT ![r].pc = "insert", ![r].session = rows[Upload(r)]]
  /\ UNCHANGED <<phase, used, loaded, crashes, tables, disk, history>>

(* The row read before is reserved for and put under mu, unless another    *)
(* request has loaded the session in between.                              *)
SessionInsert(r) ==
  /\ req[r].pc = "insert"
  /\ Fits(req[r].session.reserved)
  /\ LET existing == loaded[Upload(r)]
         session == IF existing # NoSession THEN existing ELSE req[r].session
     IN  /\ used' = IF existing # NoSession THEN used ELSE Reserved(session.reserved)
         /\ loaded' = [loaded EXCEPT ![Upload(r)] = session]
         /\ req' = [req EXCEPT ![r] = Answer(@, session)]
  /\ UNCHANGED <<phase, crashes, tables, disk, history>>

(* NoSuchUpload, a capacity or free-space refusal, a store or file error,  *)
(* a client that went away: where nothing has to be undone.                *)
Fail(r) ==
  /\ req[r].pc \in {"lookup", "insert", "create", "validate", "open", "assembled",
                    "deleterow", "removeall"}
  /\ req' = [req EXCEPT ![r] = Idle]
  /\ UNCHANGED <<phase, used, loaded, crashes, tables, disk, history>>

-----------------------------------------------------------------------------
(* Create. *)

CreateBegin(r, u, expected) ==
  /\ phase = "serve" /\ req[r].pc = "idle"
  /\ issued[u] = "new" /\ u \notin Foreign
  /\ MaxUploadSize = 0 \/ expected <= MaxUploadSize
  /\ Fits(expected)
  /\ used' = Reserved(expected)
  /\ issued' = [issued EXCEPT ![u] = "drawn"]
  /\ dirs' = dirs \cup {u}
  /\ req' = [req EXCEPT ![r] = [Idle EXCEPT !.pc = "insertrow", !.upload = u,
                                            !.total = expected]]
  /\ UNCHANGED <<phase, loaded, rows, file, spool, crashes, history>>

CreateRow(r) ==
  /\ req[r].pc = "insertrow"
  /\ rows' = [rows EXCEPT ![Upload(r)] = Session(req[r].total, NoParts)]
  /\ req' = [req EXCEPT ![r].pc = "publish"]
  /\ UNCHANGED <<phase, used, loaded, crashes, issued, disk, history>>

CreateRowFails(r) ==
  /\ req[r].pc = "insertrow"
  /\ used' = Released(req[r].total)
  /\ dirs' = dirs \ {Upload(r)}
  /\ req' = [req EXCEPT ![r] = Idle]
  /\ UNCHANGED <<phase, loaded, crashes, tables, file, spool, history>>

CreatePublish(r) ==
  /\ req[r].pc = "publish"
  /\ loaded' = [loaded EXCEPT ![Upload(r)] = Session(req[r].total, NoParts)]
  /\ issued' = [issued EXCEPT ![Upload(r)] = "answered"]
  /\ req' = [req EXCEPT ![r] = Idle]
  /\ UNCHANGED <<phase, used, rows, crashes, disk, history>>

-----------------------------------------------------------------------------
(* PutPart: spool to part-<n>.tmp, reserve, rename, save the row. *)

SamePart(r, q) == q # r /\ Upload(q) = Upload(r) /\ Number(q) = Number(r)

(* Requests that are writing the file that is linked as part-<n>.tmp. *)
Writers(r) == {q \in Requests : SamePart(r, q) /\ req[q].at = "tmp"}

Resent(r) ==
  \/ loaded[Upload(r)] # NoSession /\ loaded[Upload(r)].parts[Number(r)] # NoPart
  \/ \E q \in Requests : SamePart(r, q) /\ Putting(q)
  \/ \E q \in Requests : Upload(q) = Upload(r) /\ req[q].then \in {"validate", "open"}

(* os.Create truncates a file that is there, and then shares it with the   *)
(* request that is still writing it.                                       *)
PutCreate(r) ==
  /\ req[r].pc = "create"
  /\ Upload(r) \in dirs
  /\ spool' = [spool EXCEPT ![Upload(r)][Number(r)] = Torn]
  /\ req' = [q \in Requests |->
               IF q = r THEN [req[r] EXCEPT !.pc = "spool", !.at = "tmp",
                                            !.torn = Writers(r) # {}]
               ELSE [req[q] EXCEPT !.torn = @ \/ q \in Writers(r)]]
  /\ contended' = contended \cup
                     (IF Resent(r) THEN {<<Upload(r), Number(r)>>} ELSE {})
  /\ UNCHANGED <<phase, used, loaded, crashes, tables, dirs, file, overlapped>>

(* The body is written and the file closed, wherever it is linked by now. *)
PutSpool(r) ==
  /\ req[r].pc = "spool"
  /\ LET content == IF req[r].torn THEN Torn ELSE req[r].body
         written(files, link) ==
           IF req[r].at = link THEN [files EXCEPT ![Upload(r)][Number(r)] = content]
           ELSE files
     IN  spool' = written(spool, "tmp") /\ file' = written(file, "path")
  /\ req' = [req EXCEPT ![r].pc = "reserve", ![r].at = "none", ![r].torn = FALSE]
  /\ UNCHANGED <<phase, used, loaded, crashes, tables, dirs, history>>

(* The requests after the file of r's part at one link has gone to another. *)
Relinked(r, from, to) ==
  [q \in Requests |-> IF SamePart(r, q) /\ req[q].at = from
                      THEN [req[q] EXCEPT !.at = to] ELSE req[q]]

SpoolRemoved(r) ==
  /\ spool' = [spool EXCEPT ![Upload(r)][Number(r)] = NoFile]
  /\ req' = [Relinked(r, "tmp", "gone") EXCEPT ![r] = Idle]

(* A body that breaks off or is too large, a session that is gone, a total *)
(* over the limit, a refused reservation: the spool file is removed.       *)
PutDiscard(r) ==
  /\ req[r].pc \in {"spool", "reserve"}
  /\ SpoolRemoved(r)
  /\ UNCHANGED <<phase, used, loaded, crashes, tables, dirs, file, history>>

Reserving(q) == req[q].pc \in {"rename", "save"}

RecordOverlap(r) ==
  overlapped' = overlapped \cup
    (IF \E q \in Requests \ {r} : Upload(q) = Upload(r) /\ Reserving(q)
     THEN {Upload(r)} ELSE {})

(* reserveForPart, under mu: the whole upload's size becomes its           *)
(* reservation, the size expected at its creation is given back.           *)
PutReserve(r) ==
  /\ req[r].pc = "reserve"
  /\ loaded[Upload(r)] # NoSession
  /\ LET session == loaded[Upload(r)]
         parts == [session.parts EXCEPT ![Number(r)] = req[r].body]
         total == Total(parts)
         delta == total - session.reserved
     IN  /\ MaxUploadSize = 0 \/ total <= MaxUploadSize
         /\ Fits(delta)
         /\ used' = Reserved(delta)
         /\ loaded' = [loaded EXCEPT ![Upload(r)] = Session(total, parts)]
         /\ req' = [req EXCEPT ![r].pc = "rename", ![r].delta = delta, ![r].total = total,
                               ![r].previous = session.parts[Number(r)],
                               ![r].before = session.reserved]
  /\ RecordOverlap(r)
  /\ UNCHANGED <<phase, crashes, tables, disk, contended>>

(* rollbackReservation. *)
Rollback(r) ==
  /\ loaded' = IF loaded[Upload(r)] = NoSession THEN loaded
               ELSE [loaded EXCEPT
                       ![Upload(r)] = Session(req[r].before,
                                              [@.parts EXCEPT ![Number(r)] = req[r].previous])]
  /\ used' = Released(req[r].delta)

PutRename(r) ==
  /\ req[r].pc = "rename"
  /\ spool[Upload(r)][Number(r)] # NoFile
  /\ file' = [file EXCEPT ![Upload(r)][Number(r)] = spool[Upload(r)][Number(r)]]
  /\ spool' = [spool EXCEPT ![Upload(r)][Number(r)] = NoFile]
  /\ req' = [q \in Requests |->
               IF q = r THEN [req[r] EXCEPT !.pc = "save"]
               ELSE IF ~SamePart(r, q) THEN req[q]
               ELSE [req[q] EXCEPT !.at = CASE @ = "tmp" -> "path" [] @ = "path" -> "gone"
                                            [] OTHER -> @]]
  /\ UNCHANGED <<phase, used, loaded, crashes, tables, dirs, history>>

PutRenameFails(r) ==
  /\ req[r].pc = "rename"
  /\ SpoolRemoved(r)
  /\ Rollback(r)
  /\ UNCHANGED <<phase, crashes, tables, dirs, file, history>>

(* SaveMultipartPart stores what this request computed as the reservation  *)
(* of the upload; finishReservation gives back what a smaller part freed.  *)
PutSaveLeavingReserved(r) ==
  /\ req[r].pc = "save"
  /\ rows[Upload(r)] # NoSession
  /\ rows' = [rows EXCEPT ![Upload(r)].parts[Number(r)] = req[r].body]
  /\ used' = Released(-req[r].delta)
  /\ req' = [req EXCEPT ![r] = Idle]
  /\ UNCHANGED <<phase, loaded, crashes, issued, disk, history>>

PutSave(r) ==
  /\ req[r].pc = "save"
  /\ rows[Upload(r)] # NoSession
  /\ rows' = [rows EXCEPT
                ![Upload(r)] = Session(req[r].total,
                                       [@.parts EXCEPT ![Number(r)] = req[r].body])]
  /\ used' = Released(-req[r].delta)
  /\ req' = [req EXCEPT ![r] = Idle]
  /\ UNCHANGED <<phase, loaded, crashes, issued, disk, history>>

(* The row of the session is gone, or the store failed. *)
PutSaveFails(r) ==
  /\ req[r].pc = "save"
  /\ file' = [file EXCEPT ![Upload(r)][Number(r)] = NoFile]
  /\ req' = [Relinked(r, "path", "gone") EXCEPT ![r] = Idle]
  /\ Rollback(r)
  /\ UNCHANGED <<phase, crashes, tables, dirs, spool, history>>

-----------------------------------------------------------------------------
(* Abort, and CompleteCleanup, which is the same. *)

DeleteRowIgnoringErrors(r) ==
  /\ req[r].pc = "deleterow"
  /\ rows' \in {rows, [rows EXCEPT ![Upload(r)] = NoSession]}
  /\ req' = [req EXCEPT ![r].pc = "unload"]
  /\ UNCHANGED <<phase, used, loaded, crashes, issued, disk, history>>

DeleteRow(r) ==
  /\ req[r].pc = "deleterow"
  /\ rows' = [rows EXCEPT ![Upload(r)] = NoSession]
  /\ req' = [req EXCEPT ![r].pc = "unload"]
  /\ UNCHANGED <<phase, used, loaded, crashes, issued, disk, history>>

UnloadKeepingReservation(r) ==
  /\ req[r].pc = "unload"
  /\ loaded' = [loaded EXCEPT ![Upload(r)] = NoSession]
  /\ used' = used
  /\ req' = [req EXCEPT ![r].pc = "removeall"]
  /\ RecordOverlap(r)
  /\ UNCHANGED <<phase, crashes, tables, disk, contended>>

Unload(r) ==
  /\ req[r].pc = "unload"
  /\ loaded' = [loaded EXCEPT ![Upload(r)] = NoSession]
  /\ used' = IF loaded[Upload(r)] = NoSession THEN used
             ELSE Released(loaded[Upload(r)].reserved)
  /\ req' = [req EXCEPT ![r].pc = "removeall"]
  /\ RecordOverlap(r)
  /\ UNCHANGED <<phase, crashes, tables, disk, contended>>

ScratchRemoved(u) ==
  /\ dirs' = dirs \ {u}
  /\ file' = [file EXCEPT ![u] = NoFiles]
  /\ spool' = [spool EXCEPT ![u] = NoFiles]

RemoveScratch(r) ==
  /\ req[r].pc = "removeall"
  /\ ScratchRemoved(Upload(r))
  /\ req' = [q \in Requests |->
               IF q = r THEN Idle
               ELSE IF Upload(q) = Upload(r) /\ req[q].at # "none"
                    THEN [req[q] EXCEPT !.at = "gone"] ELSE req[q]]
  /\ UNCHANGED <<phase, used, loaded, crashes, tables, history>>

-----------------------------------------------------------------------------
(* completeMultipart: validate the client's list, open its parts, put the  *)
(* object, clean up. *)

ValidateNumbersOnly(r) ==
  /\ req[r].pc = "validate"
  /\ \E want \in [Numbers -> Bodies \cup {NoPart}] \ {NoParts} :
       /\ \A n \in Numbers : want[n] # NoPart => req[r].session.parts[n] # NoPart
       /\ req' = [req EXCEPT ![r].pc = "lookup", ![r].then = "open",
                             ![r].session = NoSession, ![r].want = want]
  /\ UNCHANGED <<phase, used, loaded, crashes, tables, disk, history>>

(* The client names parts by number and ETag; the ETags must be those of   *)
(* the session as validateCompletedParts sees it.                          *)
Validate(r) ==
  /\ req[r].pc = "validate"
  /\ \E chosen \in (SUBSET Numbers) \ {{}} :
       /\ \A n \in chosen : req[r].session.parts[n] # NoPart
       /\ req' = [req EXCEPT
                    ![r].pc = "lookup", ![r].then = "open", ![r].session = NoSession,
                    ![r].want = [n \in Numbers |-> IF n \in chosen
                                                   THEN req[r].session.parts[n] ELSE NoPart]]
  /\ UNCHANGED <<phase, used, loaded, crashes, tables, disk, history>>

Unopened(r) == {n \in Numbers : req[r].want[n] # NoPart /\ req[r].got[n] = NoFile}

(* Open takes the parts in order from the session it looked up again. *)
OpenPart(r) ==
  /\ req[r].pc = "open"
  /\ LET n == Min(Unopened(r))
     IN  /\ req[r].session.parts[n] # NoPart
         /\ file[Upload(r)][n] # NoFile
         /\ req' = [req EXCEPT
                      ![r].got[n] = file[Upload(r)][n],
                      ![r].pc = IF Unopened(r) = {n} THEN "assembled" ELSE "open",
                      ![r].session = IF Unopened(r) = {n} THEN NoSession ELSE @]
  /\ UNCHANGED <<phase, used, loaded, crashes, tables, disk, history>>

(* object.Service.Put commits what was opened; then the upload is aborted. *)
PutObject(r) ==
  /\ req[r].pc = "assembled"
  /\ req' = [req EXCEPT ![r] = [Idle EXCEPT !.pc = "lookup", !.then = "deleterow",
                                            !.upload = Upload(r)]]
  /\ UNCHANGED <<phase, used, loaded, crashes, tables, disk, history>>

-----------------------------------------------------------------------------
(* Crash and restart; other gateways. *)

Crash ==
  /\ crashes < MaxCrashes
  /\ crashes' = crashes + 1
  /\ phase' = "clean"
  /\ used' = 0
  /\ loaded' = [u \in Uploads |-> NoSession]
  /\ req' = [r \in Requests |-> Idle]
  /\ UNCHANGED <<tables, disk, history>>

(* CleanupStale removes sessions older than its limit; any may be. *)
CleanupStale(u) ==
  /\ phase = "clean"
  /\ rows[u] # NoSession
  /\ rows' = [rows EXCEPT ![u] = NoSession]
  /\ ScratchRemoved(u)
  /\ UNCHANGED <<phase, issued, used, loaded, req, crashes, history>>

StartLoading ==
  /\ phase = "clean"
  /\ phase' = "load"
  /\ UNCHANGED <<used, loaded, req, crashes, tables, disk, history>>

Unloaded == {u \in Uploads : rows[u] # NoSession /\ loaded[u] = NoSession}

(* A reservation that is refused here ends the process: the gateway does   *)
(* not come up.                                                            *)
LoadActive(u) ==
  /\ phase = "load" /\ u \in Unloaded
  /\ Fits(rows[u].reserved)
  /\ dirs' = dirs \cup {u}
  /\ used' = Reserved(rows[u].reserved)
  /\ loaded' = [loaded EXCEPT ![u] = rows[u]]
  /\ UNCHANGED <<phase, req, crashes, tables, file, spool, history>>

StartServing ==
  /\ phase = "load" /\ Unloaded = {}
  /\ phase' = "serve"
  /\ UNCHANGED <<used, loaded, req, crashes, tables, disk, history>>

CreateElsewhere(u, expected) ==
  /\ u \in Foreign /\ issued[u] = "new"
  /\ issued' = [issued EXCEPT ![u] = "answered"]
  /\ rows' = [rows EXCEPT ![u] = Session(expected, NoParts)]
  /\ UNCHANGED <<phase, used, loaded, req, crashes, disk, history>>

SaveElsewhere(u, n, body) ==
  /\ u \in Foreign /\ rows[u] # NoSession
  /\ LET parts == [rows[u].parts EXCEPT ![n] = body]
     IN  rows' = [rows EXCEPT ![u] = Session(Total(parts), parts)]
  /\ UNCHANGED <<phase, issued, used, loaded, req, crashes, disk, history>>

EndElsewhere(u) ==
  /\ u \in Foreign /\ rows[u] # NoSession
  /\ rows' = [rows EXCEPT ![u] = NoSession]
  /\ UNCHANGED <<phase, issued, used, loaded, req, crashes, disk, history>>

-----------------------------------------------------------------------------
CreateStep(r) ==
  \/ \E u \in Uploads, expected \in ExpectedSizes : CreateBegin(r, u, expected)
  \/ CreateRow(r) \/ CreateRowFails(r) \/ CreatePublish(r)

SessionStep(r) == SessionFound(r) \/ SessionRead(r) \/ SessionInsert(r)

PutPartStep(r) ==
  \/ \E u \in Uploads, part \in Sent : PutPart(r, u, part[1], part[2])
  \/ PutCreate(r) \/ PutSpool(r) \/ PutDiscard(r) \/ PutReserve(r)
  \/ PutRename(r) \/ PutRenameFails(r) \/ PutSave(r) \/ PutSaveFails(r)

CompleteStep(r) ==
  \/ \E u \in Uploads : Complete(r, u)
  \/ Validate(r) \/ OpenPart(r) \/ PutObject(r)

AbortStep(r) ==
  \/ \E u \in Uploads : Abort(r, u)
  \/ DeleteRow(r) \/ Unload(r) \/ RemoveScratch(r)

Restart ==
  \/ \E u \in Uploads : CleanupStale(u) \/ LoadActive(u)
  \/ StartLoading
  \/ StartServing

Elsewhere ==
  \E u \in Uploads :
    \/ \E expected \in ExpectedSizes : CreateElsewhere(u, expected)
    \/ \E part \in Sent : SaveElsewhere(u, part[1], part[2])
    \/ EndElsewhere(u)

MultipartNext ==
  \/ \E r \in Requests :
       \/ CreateStep(r) \/ SessionStep(r) \/ PutPartStep(r)
       \/ CompleteStep(r) \/ AbortStep(r) \/ Fail(r)
  \/ Crash
  \/ Restart
  \/ Elsewhere

MultipartSpec == MultipartInit /\ [][MultipartNext]_multipartVars

-----------------------------------------------------------------------------
(* Properties. *)

ReservedBy(sessions) ==
  MapThenSumSet(LAMBDA u : sessions[u].reserved,
                {u \in Uploads : sessions[u] # NoSession})

(* Bytes a request has reserved for a session that is not loaded yet, or   *)
(* will give back when its row is saved.                                   *)
InHand(r) ==
  IF req[r].pc \in {"insertrow", "publish"} THEN req[r].total
  ELSE IF Reserving(r) THEN Positive(-req[r].delta) ELSE 0

\* Unless two requests were inside the reservation of one upload at a time,
\* the bytes counted as reserved are exactly those of the sessions in memory
\* and of the requests in progress: through retries, failures, aborts, lazy
\* loads and restarts nothing leaks and nothing is given back twice.
\* (TryReserve, Release and their callers in manager.go.)
ReservationsExact ==
  overlapped = {} => used = ReservedBy(loaded) + MapThenSumSet(InHand, Requests)

\* The reservations of durable sessions never exceed the capacity, so the
\* LoadActive of the next start is not refused and the gateway comes up.
\* (Bytes are reserved before a row says so and released after.)
RestartFits ==
  (overlapped = {} /\ (\A u \in Foreign : issued[u] = "new") /\ Capacity > 0)
    => ReservedBy(rows) <= Capacity

Settled(u) ==
  /\ phase = "serve"
  /\ \A r \in Requests : Upload(r) = u => req[r].pc \notin {"rename", "save", "unload", "publish"}

\* While no request is between memory and the metadata store, the session in
\* memory is the durable one: what a restart would load.
MemoryMatchesRows ==
  \A u \in Uploads \ (Foreign \cup overlapped) : Settled(u) => loaded[u] = rows[u]

\* A part the metadata lists is in scratch, whole and with the content its
\* ETag was computed from, across crashes and failed requests, if it was sent
\* only once.
PartsIntact ==
  \A u \in Uploads \ Foreign, n \in Numbers :
    (rows[u] # NoSession /\ rows[u].parts[n] # NoPart /\ <<u, n>> \notin contended)
      => file[u][n] = rows[u].parts[n]

\* A completed object is assembled from the parts the client listed, with the
\* ETags that were validated, unless one of them was sent at the same time or
\* again, if no other gateway takes parts of the upload.  (The session is looked
\* up twice and the files are opened one by one.)
AssembledAsValidated ==
  \A r \in Requests : (req[r].pc = "assembled" /\ Upload(r) \notin Foreign) =>
    \A n \in Numbers : \/ req[r].want[n] \in {NoPart, req[r].got[n]}
                       \/ <<Upload(r), n>> \in contended

=============================================================================
