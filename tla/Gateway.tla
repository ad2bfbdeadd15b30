------------------------------- MODULE Gateway -------------------------------
(***************************************************************************)
(* The HTTP server (src/internal/api): which handler a request reaches,    *)
(* for which tenant and on which object, and what it is answered while     *)
(* other requests change the same objects.  The service below it commits,  *)
(* looks up and deletes in one step here (ObjectService and ObjectReads    *)
(* have the steps).                                                        *)
(*                                                                         *)
(* Hosts and paths are sequences of letters; a path may spell a letter in  *)
(* a percent-encoded form.  Left out: ports, brackets and capitals in      *)
(* hosts, bucket names that look like addresses, signatures beyond whether *)
(* they verify, and everything in a response but its status and object.    *)
(***************************************************************************)
EXTENDS Naturals, Sequences, SequencesExt

CONSTANTS
  Senders,        \* connections, each with one request at a time
  Messages,       \* the requests they send
  Settings,       \* configurations of the server
  InitialStores,  \* functions from objects to contents
  UploadIds,      \* ids of multipart uploads
  Decode,         \* percent-encoded forms, and the letters they stand for
  LowerLetters,   \* letters and digits a bucket may begin and end with
  ControlLetters,
  MinBucket, MaxBucket, MaxKey,   \* 3, 63 and 1024
  MaxMessages,    \* bound on what they send
  NoContent         \* the content of an object that is absent

(* Paths begin with a slash; a body is a content; about is a bucket and a  *)
(* key.  A server without credentials serves one tenant, or none.          *)
ASSUME MessagesAssumption == \A m \in Messages :
  /\ m.path \in Seq(ToSet(m.path)) /\ m.path # <<>> /\ m.path[1] = "/"
  /\ m.body # NoContent /\ m.range \in {"none", "good", "bad"}
  /\ m.about = <<m.about[1], m.about[2]>>
ASSUME SettingsAssumption == \A s \in Settings :
  DOMAIN s.virtualHosts \subseteq Nat /\ \A t, u \in s.anonymous : t = u
ASSUME LimitsAssumption == MinBucket \in Nat \ {0} /\ MaxBucket \in Nat /\ MaxKey \in Nat

VARIABLES
  settings,
  draining,
  stored,     \* the committed objects
  uploads,    \* the multipart uploads begun so far
  flight,     \* per sender, its request
  sends       \* how many requests have been sent

gatewayVars == <<settings, draining, stored, uploads, flight, sends>>

Object(tenant, bucket, key) == [tenant |-> tenant, bucket |-> bucket, key |-> key]

(* saw and touched are history: what the object the message asks for held  *)
(* at each moment of the request, and the objects it has read or changed.  *)
Quiet == [pc |-> "idle", message |-> NoContent, object |-> NoContent,
          content |-> NoContent, answer |-> "none", saw |-> {}, touched |-> {}]

(* Of an upload, its object, whether it is in progress and, as history,    *)
(* the message that began it.                                              *)
Upload(o, m) == [object |-> o, active |-> TRUE, message |-> m]

ContentOf(o) == IF o \in DOMAIN stored THEN stored[o] ELSE NoContent

-----------------------------------------------------------------------------
(* What a message is.                                                      *)

Unescape(path) == [i \in DOMAIN path |-> IF path[i] \in DOMAIN Decode THEN Decode[path[i]] ELSE path[i]]

pprofPrefix    == <<"/", "debug", "/", "pprof">>
deltaAPIPrefix == <<"/", "_chunkgate", "/", "v1", "/">>
readyz         == <<"/", "readyz">>
Probes         == {<<"/", "healthz">>, readyz, <<"/", "metrics">>}

After(s, n) == SubSeq(s, n + 1, Len(s))

TrimSlash(path) == IF path # <<>> /\ path[1] = "/" THEN Tail(path) ELSE path

Invalid == [kind |-> "invalid", bucket |-> <<>>, key |-> <<>>]

Parsed(bucket, key) ==
  [kind |-> IF bucket = <<>> THEN "service" ELSE IF key = <<>> THEN "bucket" ELSE "object",
   bucket |-> bucket, key |-> key]

(* The bucket ends at the first slash that is not encoded.                 *)
Segments(trimmed) ==
  LET slashes == {i \in DOMAIN trimmed : trimmed[i] = "/"}
      cut     == IF slashes = {} THEN Len(trimmed) + 1
                 ELSE CHOOSE i \in slashes : \A j \in slashes : i <= j
  IN  IF cut = 1 /\ trimmed # <<>> THEN Invalid
      ELSE Parsed(Unescape(SubSeq(trimmed, 1, cut - 1)), Unescape(After(trimmed, cut)))

SegmentsOfUnescaped(path) == Segments(TrimSlash(Unescape(path)))

parseS3Path(path) == Segments(TrimSlash(path))

VirtualHosted(host, base) ==
  Len(host) > Len(base) + 1 /\ IsSuffix(<<".">> \o base, host)

(* The first of the configured hosts the host of the message is under.     *)
parseS3Target(m) ==
  LET bases   == settings.virtualHosts
      matches == {i \in DOMAIN bases : VirtualHosted(m.host, bases[i])}
  IN  IF matches = {} THEN parseS3Path(m.path)
      ELSE LET base == bases[CHOOSE i \in matches : \A j \in matches : i <= j]
           IN  Parsed(SubSeq(m.host, 1, Len(m.host) - Len(base) - 1), Unescape(TrimSlash(m.path)))

validateBucketName(b) ==
  /\ Len(b) \in MinBucket .. MaxBucket
  /\ \A i \in DOMAIN b : b[i] \in LowerLetters \cup {".", "-"}
  /\ b[1] \in LowerLetters /\ b[Len(b)] \in LowerLetters
  /\ \A i \in 1 .. Len(b) - 1 : {b[i], b[i + 1]} \subseteq {".", "-"} => b[i] = "-" /\ b[i + 1] = "-"

validateObjectKey(k) == Len(k) \in 1 .. MaxKey /\ \A i \in DOMAIN k : k[i] \notin ControlLetters

(* handleCORS answers an OPTIONS that has an origin.                       *)
handleCORS(m) == settings.cors /\ m.method = "OPTIONS" /\ m.origin # "none"

(* The tenant of the key a message is signed with, if the signature is of  *)
(* this message and its time is near.                                      *)
Verify(m) ==
  {settings.credentials[k] : k \in {l \in DOMAIN settings.credentials : m.verifies /\ l = m.signer}}

authenticate(m) == IF DOMAIN settings.credentials = {} THEN settings.anonymous ELSE Verify(m)

HasUploadId(m) == m.query \in UploadIds

(* The handler of a message about an object.  An empty uploadId is none.   *)
Handler(m) ==
  CASE m.method = "POST" /\ m.query = "uploads" -> "initiate"
    [] m.method = "PUT" /\ HasUploadId(m)       -> "part"
    [] m.method = "POST" /\ HasUploadId(m)      -> "complete"
    [] m.method = "DELETE" /\ HasUploadId(m)    -> "abort"
    [] m.method = "PUT" /\ ~HasUploadId(m)      -> "put"
    [] m.method \in {"GET", "HEAD"}             -> IF m.range = "none" THEN "get" ELSE "range"
    [] m.method = "DELETE" /\ ~HasUploadId(m)   -> "delete"
    [] OTHER                                    -> "refused"

(* What becomes of a message that is about target t: its handler, or the   *)
(* class of its answer.  Buckets are neither made nor removed.             *)
Dispatch(m, t) ==
  CASE t.kind = "service" -> IF m.method = "GET" THEN "ok" ELSE "refused"
    [] t.kind = "bucket"  -> IF validateBucketName(t.bucket) /\ m.method \in {"HEAD", "PUT", "DELETE", "GET"}
                               THEN "ok" ELSE "refused"
    [] t.kind = "object"  -> IF validateBucketName(t.bucket) /\ validateObjectKey(t.key)
                               THEN Handler(m) ELSE "refused"
    [] OTHER              -> "refused"

(* serveHTTP, in its order.                                                *)
Route(m) ==
  LET path == Unescape(m.path) IN
  IF IsPrefix(pprofPrefix, path) THEN IF settings.pprof THEN "ok" ELSE "notfound"
  ELSE IF path = readyz THEN "ready"
  ELSE IF path \in Probes THEN "ok"
  ELSE IF handleCORS(m) THEN "preflight"
  ELSE IF authenticate(m) = {} THEN "refused"
  ELSE IF IsPrefix(deltaAPIPrefix, path) THEN "delta"
  ELSE Dispatch(m, parseS3Target(m))

-----------------------------------------------------------------------------
(* Requests.                                                               *)

Underway(c) == flight[c].pc \notin {"idle", "answered"}

(* The names a message spells, in the addressing its host asks for: the    *)
(* key is all of the path, or what follows its first segment.              *)
Spelled(m) ==
  LET bases == {settings.virtualHosts[i] : i \in DOMAIN settings.virtualHosts}
      names == IF \E base \in bases : VirtualHosted(m.host, base)
                 THEN {<<SubSeq(m.host, 1, Len(m.host) - Len(base) - 1), Unescape(Tail(m.path))>> :
                         base \in {x \in bases : VirtualHosted(m.host, x)}}
                 ELSE {<<Unescape(SubSeq(m.path, 2, i - 1)), Unescape(After(m.path, i))>> :
                         i \in {j \in 3 .. Len(m.path) : m.path[j] = "/"
                                                        /\ \A k \in 2 .. j - 1 : m.path[k] # "/"}}
  IN  {n \in names : validateBucketName(n[1]) /\ validateObjectKey(n[2])}

Asked(m) == {Object(t, n[1], n[2]) : t \in authenticate(m), n \in Spelled(m)}

Contents(store, m) == {IF o \in DOMAIN store THEN store[o] ELSE NoContent : o \in Asked(m)}

Arrived(m) == [Quiet EXCEPT !.pc = "arrived", !.message = m, !.saw = Contents(stored, m)]

(* The server starts with no upload in progress and these connections.     *)
Starts(connections, before) ==
  /\ settings \in Settings
  /\ draining = FALSE
  /\ stored \in InitialStores
  /\ uploads = [id \in {} |-> NoContent]
  /\ flight \in connections /\ sends = before

GatewayInit == Starts({[c \in Senders |-> Quiet]}, 0)

Send(c, m) ==
  /\ ~Underway(c) /\ sends < MaxMessages
  /\ sends' = sends + 1
  /\ flight' = [flight EXCEPT ![c] = Arrived(m)]
  /\ UNCHANGED <<settings, draining, stored, uploads>>

Answered(f, answer) == [f EXCEPT !.pc = "answered", !.answer = answer]

Touching(f, o) == [f EXCEPT !.object = o, !.touched = f.touched \cup {o}]

Reply(c, answer) ==
  /\ flight' = [flight EXCEPT ![c] = Answered(flight[c], answer)]
  /\ UNCHANGED <<settings, draining, stored, uploads, sends>>

(* The object of the upload a message is about, to the tenant who began it *)
(* and while it is in progress.                                            *)
UploadOf(f) ==
  {o \in {uploads[id].object : id \in {u \in {f.message.query} \cap DOMAIN uploads : uploads[u].active}} :
     o.tenant \in authenticate(f.message)}

(* Settings do not change, so the tenant and the target may be computed    *)
(* whenever they are needed.                                               *)
Target(m) ==
  LET t == parseS3Target(m) IN CHOOSE o \in {Object(i, t.bucket, t.key) : i \in authenticate(m)} : TRUE

serveHTTP(c) ==
  LET m == flight[c].message
      r == Route(m)
  IN  /\ flight[c].pc = "arrived"
      /\ CASE r \in {"ok", "refused", "notfound"} -> Reply(c, r)
           [] r = "ready" -> \E a \in {"ok", "unavailable"} : (draining => a # "ok") /\ Reply(c, a)
           [] r = "preflight" -> \E a \in {"ok", "refused"} : Reply(c, a)
           [] OTHER -> /\ flight' = [flight EXCEPT ![c].pc = r]
                       /\ UNCHANGED <<settings, draining, stored, uploads, sends>>

(* beginUpload refuses while the server drains, limitedBody and uploadPart *)
(* a body that says it is too long; an initiate has none.                  *)
Begun == [put |-> "storing", initiate |-> "creating", part |-> "receiving", complete |-> "assembling"]

beginUpload(c) ==
  LET f == flight[c] IN
  /\ f.pc \in DOMAIN Begun
  /\ IF draining THEN Reply(c, "unavailable")
     ELSE IF f.message.length = "declared" /\ f.pc # "initiate" THEN Reply(c, "refused")
     ELSE /\ flight' = [flight EXCEPT ![c].pc = Begun[f.pc]]
          /\ UNCHANGED <<settings, draining, stored, uploads, sends>>

(* The store of objects changes under the requests in progress.            *)
Change(c, o, store, f) ==
  /\ stored' = store
  /\ flight' = [d \in Senders |->
                  LET g == IF d = c THEN Touching(f, o) ELSE flight[d]
                  IN  IF Underway(d) THEN [g EXCEPT !.saw = g.saw \cup Contents(store, g.message)] ELSE g]
  /\ UNCHANGED <<settings, draining, sends>>

CommitBody(c, o) ==
  Change(c, o, [x \in DOMAIN stored \cup {o} |-> IF x = o THEN flight[c].message.body ELSE stored[x]],
         [flight[c] EXCEPT !.pc = "committed"])

(* putObject: the body ends in time, or is found to be longer than it may. *)
putObject(c) ==
  /\ flight[c].pc = "storing"
  /\ IF flight[c].message.length = "longer"
       THEN Reply(c, "refused")
       ELSE CommitBody(c, Target(flight[c].message)) /\ UNCHANGED uploads

(* completeMultipart: the session is that of the tenant and the id; the    *)
(* body may be malformed, or name other parts.  The bucket and the key of  *)
(* the message are not looked at.                                          *)
completeMultipart(c) ==
  /\ flight[c].pc = "assembling"
  /\ \/ Reply(c, "refused")
     \/ UploadOf(flight[c]) = {} /\ Reply(c, "notfound")
     \/ \E o \in UploadOf(flight[c]) :
          /\ flight' = [flight EXCEPT ![c] = [flight[c] EXCEPT !.pc = "publishing", !.object = o]]
          /\ UNCHANGED <<settings, draining, stored, uploads, sends>>

(* Its parts are open: Put does not ask whether the upload is still there. *)
PutAssembled(c) ==
  flight[c].pc = "publishing" /\ CommitBody(c, flight[c].object) /\ UNCHANGED uploads

(* After the commit Put looks the object up again.                         *)
Reread(c) ==
  LET f == flight[c] IN
  /\ f.pc = "committed"
  /\ IF ContentOf(f.object) = NoContent THEN Reply(c, "failed")
     ELSE IF ~HasUploadId(f.message) THEN Reply(c, "ok")
     ELSE /\ flight' = [flight EXCEPT ![c].pc = "cleaning"]
          /\ UNCHANGED <<settings, draining, stored, uploads, sends>>

(* abortMultipart, and the cleanup of a complete, for which an upload that *)
(* is gone is an error.                                                    *)
RemoveUpload(c) ==
  LET f == flight[c] IN
  /\ f.pc \in {"abort", "cleaning"}
  /\ IF UploadOf(f) = {} THEN Reply(c, IF f.pc = "abort" THEN "notfound" ELSE "failed")
     ELSE /\ uploads' = [uploads EXCEPT ![f.message.query].active = FALSE]
          /\ flight' = [flight EXCEPT ![c] = Answered(f, "ok")]
          /\ UNCHANGED <<settings, draining, stored, sends>>

(* The upload gets an id of its own, or is said to become too long.        *)
initiateMultipart(c) ==
  LET f == flight[c]
      o == Target(f.message)
  IN  /\ f.pc = "creating"
      /\ \/ Reply(c, "refused")
         \/ /\ \E id \in UploadIds \ DOMAIN uploads :
                 uploads' = [u \in DOMAIN uploads \cup {id} |->
                               IF u = id THEN Upload(o, f.message) ELSE uploads[u]]
            /\ flight' = [flight EXCEPT ![c] = Answered(Touching(f, o), "ok")]
            /\ UNCHANGED <<settings, draining, stored, sends>>

(* A part may be longer than it may be, or its number that of no part.     *)
uploadPart(c) ==
  /\ flight[c].pc = "receiving"
  /\ \/ Reply(c, "refused")
     \/ UploadOf(flight[c]) = {} /\ Reply(c, "notfound")
     \/ UploadOf(flight[c]) # {} /\ flight[c].message.length = "fits" /\ Reply(c, "ok")

(* A lookup answers whether something is stored, and reads it.             *)
Lookup(c, o, absent, found) ==
  LET f == [Touching(flight[c], o) EXCEPT !.content = ContentOf(o)] IN
  /\ flight' = [flight EXCEPT ![c] = Answered(f, IF f.content = NoContent THEN absent ELSE found)]
  /\ UNCHANGED <<settings, draining, stored, uploads, sends>>

getObject(c) == flight[c].pc = "get" /\ Lookup(c, Target(flight[c].message), "notfound", "ok")

(* getObjectRange looks twice: for the size the range is of, and again for *)
(* the bytes; an object that has gone in between is an internal error.     *)
StatForRange(c) ==
  LET f == flight[c]
      o == Target(f.message)
  IN  /\ f.pc = "range"
      /\ IF f.message.range = "bad" THEN Lookup(c, o, "notfound", "refused")
         ELSE IF f.message.method = "HEAD" \/ ContentOf(o) = NoContent THEN Lookup(c, o, "notfound", "ok")
         ELSE /\ flight' = [flight EXCEPT ![c] = [Touching(f, o) EXCEPT !.pc = "sized"]]
              /\ UNCHANGED <<settings, draining, stored, uploads, sends>>

OpenRange(c) == flight[c].pc = "sized" /\ Lookup(c, Target(flight[c].message), "failed", "ok")

(* A manifest or chunks of the object the query or the body names.  A body *)
(* may be malformed, name too many chunks or something that is no chunk's  *)
(* name; or chunks that are not in the manifest.                           *)
deltaRoute(c) ==
  LET m == flight[c].message
      operation == After(Unescape(m.path), Len(deltaAPIPrefix))
      valid == validateBucketName(m.about[1]) /\ validateObjectKey(m.about[2])
  IN  /\ flight[c].pc = "delta"
      /\ IF <<m.method, operation>> \notin {<<"GET", <<"manifest">>>>, <<"POST", <<"chunks">>>>}
           THEN Reply(c, "notfound")
           ELSE \/ (~valid \/ m.method = "POST") /\ Reply(c, "refused")
                \/ /\ valid
                   /\ \E t \in authenticate(m), found \in {"ok", "refused"} :
                        /\ found = "refused" => m.method = "POST"
                        /\ Lookup(c, Object(t, m.about[1], m.about[2]), "notfound", found)

deleteObject(c) ==
  LET f == flight[c]
      o == Target(f.message)
  IN  /\ f.pc = "delete"
      /\ Change(c, o, [x \in DOMAIN stored \ {o} |-> stored[x]], Answered(f, "ok"))
      /\ UNCHANGED uploads

(* The store, the backend or the disk fails, or there is no room: after a  *)
(* commit that is answered as before it.                                   *)
HandlerFails(c) ==
  /\ flight[c].pc \notin {"idle", "arrived", "answered"} \cup DOMAIN Begun
  /\ Reply(c, "failed")

StartDrain == ~draining /\ draining' = TRUE /\ UNCHANGED <<settings, stored, uploads, flight, sends>>

GatewayNext ==
  \/ StartDrain
  \/ \E c \in Senders :
       \/ \E m \in Messages : Send(c, m)
       \/ serveHTTP(c) \/ beginUpload(c)
       \/ putObject(c) \/ completeMultipart(c) \/ PutAssembled(c) \/ Reread(c)
       \/ initiateMultipart(c) \/ uploadPart(c) \/ RemoveUpload(c)
       \/ getObject(c) \/ StatForRange(c) \/ OpenRange(c) \/ deltaRoute(c)
       \/ deleteObject(c)
       \/ HandlerFails(c)

GatewaySpec == GatewayInit /\ [][GatewayNext]_gatewayVars

-----------------------------------------------------------------------------
(* Paths the server keeps for itself, in every bucket.                     *)
Reserved(path) == path \in Probes \/ IsPrefix(pprofPrefix, path) \/ IsPrefix(deltaAPIPrefix, path)

(* What the message that began an upload asked for.                        *)
BegunFor(id) == UNION {Asked(uploads[u].message) : u \in {id} \cap DOMAIN uploads}

(* A request reads and changes no object but the one it spells, in the     *)
(* addressing of its host, of the tenant its signature verifies for.  One  *)
(* that completes an upload changes the object that the message that began *)
(* the upload spelled, if that was of the same tenant; on a reserved path, *)
(* it is the object the query or the body names.                           *)
TouchesWhatItAsks(f) ==
  \A o \in f.touched :
    /\ o.tenant \in authenticate(f.message)
    /\ IF Reserved(Unescape(f.message.path)) THEN <<o.bucket, o.key>> = f.message.about
       ELSE IF Handler(f.message) = "complete" THEN o \in BegunFor(f.message.query)
       ELSE o \in Asked(f.message)

(* The answer to a request for an object says what has become of it: a     *)
(* body that is accepted was stored, a body or a 404 that is read was so   *)
(* at some moment of the request, a deleted object was gone; what is       *)
(* refused has changed nothing, and only the length, the range or the      *)
(* signature is a reason.                                                  *)
Result(f) == IF f.message.method = "PUT" THEN f.message.body
             ELSE IF f.message.method = "DELETE" THEN NoContent ELSE f.content

AnswersWhatItDid(f) ==
  LET m == f.message IN
  \A o \in Asked(m) :
    CASE f.answer = "ok" -> /\ o \in f.touched /\ Result(f) \in f.saw
                            /\ Result(f) = NoContent <=> m.method = "DELETE"
      [] f.answer = "notfound" -> m.method \in {"GET", "HEAD"} /\ NoContent \in f.saw
      [] f.answer = "refused" -> \/ m.method = "PUT" /\ m.length # "fits" /\ f.touched = {}
                                 \/ m.method \in {"GET", "HEAD"} /\ m.range = "bad"
      [] f.answer = "unavailable" -> f.touched = {} /\ draining
      [] OTHER -> TRUE

AboutAnObject(m) ==
  /\ m.method \in {"PUT", "GET", "HEAD", "DELETE"} /\ m.query \notin UploadIds
  /\ ~Reserved(Unescape(m.path))

(* A request does to the object it names, for the tenant it is signed for, *)
(* what its method says and its answer reports, in either addressing and   *)
(* whatever other requests do meanwhile.  (docs/deployment.md:26:          *)
(* bucket.host/key resolves to bucket and key; the reserved paths are      *)
(* excepted.)                                                              *)
RequestsDoWhatTheyAsk ==
  \A c \in Senders :
    LET f == flight[c] IN
    /\ TouchesWhatItAsks(f)
    /\ f.pc = "answered" /\ AboutAnObject(f.message) => AnswersWhatItDid(f)
=============================================================================
