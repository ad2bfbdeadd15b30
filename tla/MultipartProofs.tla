---------------------------- MODULE MultipartProofs ----------------------------
(***************************************************************************)
(* Theorems about MultipartManager, for any uploads, part numbers, bodies, *)
(* requests, crashes and other gateways: the parts the metadata lists are  *)
(* in scratch, an object is assembled from the parts that were validated,  *)
(* the session in memory is the durable one whenever no request is between *)
(* the two, every byte reserved is accounted for, and what is durable fits *)
(* at the next start.                                                      *)
(***************************************************************************)
EXTENDS MultipartManager, FiniteSums

-----------------------------------------------------------------------------
(* Types. *)

Own == Uploads \ Foreign

Sessions == [reserved : Nat, parts : [Numbers -> Bodies \cup {NoPart}]]

Contents == Bodies \cup {NoFile, Torn}

Steps ==
  {"idle", "lookup", "insert", "create", "spool", "reserve", "rename", "save", "validate",
   "open", "assembled", "deleterow", "unload", "removeall", "insertrow", "publish"}

RequestStates ==
  [pc : Steps,
   then : {"none", "create", "validate", "open", "deleterow"},
   upload : Uploads \cup {NoSession}, number : Numbers \cup {0}, body : Bodies \cup {NoPart},
   session : Sessions \cup {NoSession}, at : {"none", "tmp", "path", "gone"}, torn : BOOLEAN,
   delta : Int, total : Nat, previous : Bodies \cup {NoPart}, before : Nat,
   want : [Numbers -> Bodies \cup {NoPart}], got : [Numbers -> Contents]]

MultipartTypeOK ==
  /\ phase \in {"serve", "clean", "load"}
  /\ issued \in [Uploads -> {"new", "drawn", "answered"}]
  /\ used \in Nat
  /\ loaded \in [Uploads -> Sessions \cup {NoSession}]
  /\ rows \in [Uploads -> Sessions \cup {NoSession}]
  /\ file \in [Uploads -> [Numbers -> Contents]]
  /\ spool \in [Uploads -> [Numbers -> Contents]]
  /\ req \in [Requests -> RequestStates]

-----------------------------------------------------------------------------
(* Where a request is. *)

Looking == {"lookup", "insert"}
Creating == {"insertrow", "publish"}
Sending == {"spool", "reserve", "rename", "save"}
Counting == {"rename", "save"}

(* A request has the fields the step it is at reads. *)
StepOK(q) ==
  /\ q.pc = "idle" <=> q.upload = NoSession
  /\ q.pc \in Looking => q.then # "none"
  /\ q.pc \in {"idle"} \cup Creating => q.then = "none"
  /\ q.pc \in {"create"} \cup Sending => q.then = "create"
  /\ q.pc = "validate" => q.then = "validate"
  /\ q.pc \in {"open", "assembled"} => q.then = "open"
  /\ q.pc \in {"deleterow", "unload", "removeall"} => q.then = "deleterow"
  /\ q.at # "none" => q.pc = "spool"
  /\ q.then = "create" => q.number \in Numbers /\ q.body \in Bodies
  /\ q.pc \in {"insert", "validate", "open"} => q.session # NoSession
  /\ q.then = "validate" => q.got = NoFiles
  /\ q.then = "open" => (q.pc = "assembled" <=>
       \A n \in Numbers : q.want[n] # NoPart => q.got[n] # NoFile)

(* The life of an upload: drawn by one create, then answered, then ended   *)
(* for good.                                                               *)
LifeOK(r) ==
  /\ req[r].pc \in Creating =>
       /\ Upload(r) \in Own /\ issued[Upload(r)] = "drawn"
       /\ loaded[Upload(r)] = NoSession
       /\ rows[Upload(r)] =
            IF req[r].pc = "publish" THEN Session(req[r].total, NoParts) ELSE NoSession
       /\ \A q \in Requests \ {r} : Upload(q) # Upload(r)
  /\ req[r].pc \notin {"idle"} \cup Creating => issued[Upload(r)] = "answered"
  /\ req[r].pc \in {"unload", "removeall"} /\ Upload(r) \in Own => rows[Upload(r)] = NoSession
  /\ req[r].pc = "insert" => Upload(r) \in Foreign
  /\ phase # "serve" => req[r].pc = "idle"

UploadOK(u) ==
  /\ issued[u] = "new" => loaded[u] = NoSession /\ rows[u] = NoSession
  /\ (phase = "serve" /\ u \in Own /\ rows[u] # NoSession /\ loaded[u] = NoSession) =>
       \E r \in Requests : Upload(r) = u /\ req[r].pc = "publish"
  /\ phase = "clean" => loaded[u] = NoSession
  /\ phase = "load" /\ u \in Own => loaded[u] \in {NoSession, rows[u]}

LifeInv ==
  /\ \A r \in Requests : StepOK(req[r]) /\ LifeOK(r)
  /\ \A u \in Uploads : UploadOK(u)

-----------------------------------------------------------------------------
(* Memory and rows. *)

CountingOn(u, r) == Upload(r) = u /\ req[r].pc \in Counting

CountingOK(r) ==
  LET u == Upload(r)
  IN  /\ loaded[u] # NoSession
      /\ loaded[u].reserved = req[r].total /\ req[r].delta = req[r].total - req[r].before
      /\ u \in Own /\ rows[u] # NoSession =>
           /\ rows[u].reserved = req[r].before
           /\ loaded[u].parts = [rows[u].parts EXCEPT ![Number(r)] = req[r].body]
           /\ rows[u].parts[Number(r)] = req[r].previous
      /\ \A q \in Requests : CountingOn(u, q) => q = r

MemoryOK(u) ==
  /\ \A r \in Requests : CountingOn(u, r) => CountingOK(r)
  /\ (u \in Own /\ phase = "serve") =>
       /\ (rows[u] # NoSession /\ loaded[u] # NoSession /\ \A r \in Requests : ~CountingOn(u, r))
            => loaded[u] = rows[u]
       /\ rows[u] = NoSession /\ loaded[u] # NoSession =>
            \E r \in Requests : Upload(r) = u /\ req[r].pc = "unload"

MemoryInv == \A u \in Uploads \ overlapped : MemoryOK(u)

-----------------------------------------------------------------------------
(* Parts. *)

Plain(u, n) == u \in Own /\ <<u, n>> \notin contended

SendingOn(u, n, r) == Upload(r) = u /\ Number(r) = n /\ req[r].pc \in Sending

CompletingOn(u, r) == Upload(r) = u /\ req[r].then \in {"validate", "open"}

(* What a request that sends a part relies on: the part is new, and it is  *)
(* where its step looks for it as long as the upload lives.                *)
SendingOK(u, n, r) ==
  LET q == req[r]
  IN  /\ \A p \in Requests : SendingOn(u, n, p) => p = r
      /\ \A p \in Requests : ~CompletingOn(u, p)
      /\ loaded[u] # NoSession =>
           loaded[u].parts[n] = IF q.pc \in Counting THEN q.body ELSE NoPart
      /\ q.pc \in Counting => q.previous = NoPart
      /\ rows[u] # NoSession =>
           /\ rows[u].parts[n] = NoPart
           /\ q.pc = "spool" => q.at = "tmp" /\ ~q.torn
           /\ q.pc \in {"reserve", "rename"} => spool[u][n] = q.body
           /\ q.pc = "save" => file[u][n] = q.body

PartOK(u, n) ==
  /\ \A r \in Requests : SendingOn(u, n, r) => SendingOK(u, n, r)
  /\ rows[u] # NoSession /\ rows[u].parts[n] # NoPart => file[u][n] = rows[u].parts[n]
  /\ (\A r \in Requests : SendingOn(u, n, r) => req[r].pc \notin Counting) /\ loaded[u] # NoSession =>
       /\ rows[u] # NoSession => loaded[u].parts[n] = rows[u].parts[n]
       /\ loaded[u].parts[n] # NoPart => file[u][n] \in {loaded[u].parts[n], NoFile}

CompletingOK(u, n, q) ==
  /\ q.pc = "validate" /\ q.session.parts[n] # NoPart => file[u][n] \in {q.session.parts[n], NoFile}
  /\ q.then = "open" /\ q.want[n] # NoPart =>
       /\ file[u][n] \in {q.want[n], NoFile}
       /\ q.got[n] \in {q.want[n], NoFile}

PartsInv ==
  \A u \in Own, n \in Numbers : Plain(u, n) =>
    /\ PartOK(u, n)
    /\ \A r \in Requests : CompletingOn(u, r) => CompletingOK(u, n, req[r])

-----------------------------------------------------------------------------
(* Types. *)

\* What the constants are.
LEMMA Constants ==
  /\ Foreign \subseteq Uploads /\ Numbers \subseteq Nat \ {0} /\ IsFiniteSet(Numbers)
  /\ Bodies \subseteq Nat /\ ExpectedSizes \subseteq Nat /\ Sent \subseteq Numbers \X Bodies
  /\ Capacity \in Nat /\ MaxUploadSize \in Nat
  /\ NoPart \notin Bodies /\ NoFile \notin Bodies /\ NoFile # Torn /\ Torn \notin Bodies
  /\ NoSession \notin Uploads /\ NoSession \notin Sessions
  /\ IsFiniteSet(Requests)
BY MultipartAssumption DEF MultipartAssumption, Sessions

\* The size of an upload is a number.
LEMMA TotalIs ==
  ASSUME NEW parts \in [Numbers -> Bodies \cup {NoPart}]
  PROVE  Total(parts) \in Nat
<1>1. PICK S : S = {n \in Numbers : parts[n] # NoPart}
  OBVIOUS
<1>2. IsFiniteSet(S)
  BY <1>1, Constants, FS_Subset
<1>3. \A n \in S : parts[n] \in Nat
  BY <1>1, Constants
<1>4. SumOf(parts, S) \in Nat
  BY <1>2, <1>3, SumType
<1> QED
  BY <1>1, <1>4 DEF Total, SumOf

\* Bytes are counted in natural numbers.
LEMMA BytesAre ==
  ASSUME used \in Nat, NEW bytes \in Int
  PROVE  Reserved(bytes) \in Nat /\ Released(bytes) \in Nat /\ Positive(bytes) \in Nat
BY DEF Reserved, Released, Positive

\* The sessions and the request the definitions build are typed.
LEMMA SessionIs ==
  /\ \A reserved \in Nat, parts \in [Numbers -> Bodies \cup {NoPart}] :
       Session(reserved, parts) \in Sessions
  /\ NoParts \in [Numbers -> Bodies \cup {NoPart}] /\ NoFiles \in [Numbers -> Contents]
  /\ Idle \in RequestStates
BY DEF Session, Sessions, NoParts, NoFiles, Contents, Idle, RequestStates, Steps

\* The request that moves is typed, and so are all.
LEMMA RequestsTyped ==
  ASSUME req \in [Requests -> RequestStates], NEW r \in Requests, NEW q \in RequestStates,
         req' = [req EXCEPT ![r] = q]
  PROVE  req' \in [Requests -> RequestStates]
OBVIOUS

\* The tables, the memory and the scratch directory start typed.
LEMMA TypeInit == MultipartInit => MultipartTypeOK
BY SessionIs DEF MultipartInit, MultipartTypeOK, Sessions

\* What a request keeps is typed.
LEMMA FieldsOf ==
  ASSUME NEW q \in RequestStates
  PROVE  /\ q.upload \in Uploads \cup {NoSession} /\ q.number \in Numbers \cup {0}
         /\ q.body \in Bodies \cup {NoPart} /\ q.session \in Sessions \cup {NoSession}
         /\ q.delta \in Int /\ q.total \in Nat /\ q.before \in Nat
         /\ q.previous \in Bodies \cup {NoPart} /\ q.torn \in BOOLEAN
         /\ q.want \in [Numbers -> Bodies \cup {NoPart}] /\ q.got \in [Numbers -> Contents]
BY DEF RequestStates

\* A request keeps its type when it changes what its steps change.
LEMMA StepTyped ==
  ASSUME NEW q \in RequestStates, NEW pc \in Steps
  PROVE  [q EXCEPT !.pc = pc] \in RequestStates
BY DEF RequestStates

Links == {"none", "tmp", "path", "gone"}

\* A request keeps its type when the entry of the file it sends moves.
LEMMA LinkTyped ==
  ASSUME NEW q \in RequestStates, NEW pc \in Steps, NEW at \in Links, NEW torn \in BOOLEAN
  PROVE  /\ [q EXCEPT !.at = at] \in RequestStates
         /\ [q EXCEPT !.torn = torn] \in RequestStates
         /\ [q EXCEPT !.pc = pc, !.at = at, !.torn = torn] \in RequestStates
<1>1. torn = TRUE \/ torn = FALSE
  OBVIOUS
<1>2. [q EXCEPT !.at = at] \in RequestStates
  BY DEF RequestStates, Links
<1>3. CASE torn = TRUE
  <2>1. [q EXCEPT !.torn = TRUE] \in RequestStates
    BY DEF RequestStates
  <2>2. [q EXCEPT !.pc = pc, !.at = at, !.torn = TRUE] \in RequestStates
    BY DEF RequestStates, Links
  <2> QED
    BY <1>2, <1>3, <2>1, <2>2, Zenon
<1>4. CASE torn = FALSE
  <2>1. [q EXCEPT !.torn = FALSE] \in RequestStates
    BY DEF RequestStates
  <2>2. [q EXCEPT !.pc = pc, !.at = at, !.torn = FALSE] \in RequestStates
    BY DEF RequestStates, Links
  <2> QED
    BY <1>2, <1>4, <2>1, <2>2, Zenon
<1> QED
  BY <1>1, <1>3, <1>4, Zenon

\* A request keeps its type when it takes a session along (SessionFound, SessionRead).
LEMMA SessionTyped ==
  ASSUME NEW q \in RequestStates, NEW pc \in Steps, NEW session \in Sessions \cup {NoSession}
  PROVE  [q EXCEPT !.pc = pc, !.session = session] \in RequestStates
BY DEF RequestStates

\* A request keeps its type when it reserves the bytes of its part (PutReserve).
LEMMA ReserveTyped ==
  ASSUME NEW q \in RequestStates, NEW pc \in Steps, NEW delta \in Int, NEW total \in Nat,
         NEW previous \in Bodies \cup {NoPart}, NEW before \in Nat
  PROVE  [q EXCEPT !.pc = pc, !.delta = delta, !.total = total, !.previous = previous,
                   !.before = before] \in RequestStates
BY DEF RequestStates

\* A request keeps its type when its complete is validated (Validate).
LEMMA WantTyped ==
  ASSUME NEW q \in RequestStates, NEW want \in [Numbers -> Bodies \cup {NoPart}]
  PROVE  [q EXCEPT !.pc = "lookup", !.then = "open", !.session = NoSession, !.want = want]
           \in RequestStates
BY ZenonT(40) DEF RequestStates, Steps

\* A request keeps its type when its complete opens a part (OpenPart).
LEMMA GotTyped ==
  ASSUME NEW q \in RequestStates, NEW pc \in Steps, NEW session \in Sessions \cup {NoSession},
         NEW got \in [Numbers -> Contents]
  PROVE  [q EXCEPT !.got = got, !.pc = pc, !.session = session] \in RequestStates
BY DEF RequestStates

\* Creating an upload and looking up a session keep the types.
LEMMA TypeCreate ==
  ASSUME MultipartTypeOK, LifeInv, NEW r \in Requests, CreateStep(r)
  PROVE  MultipartTypeOK'
<1> USE DEF MultipartTypeOK, tables, disk, history
<1>1. ASSUME NEW u \in Uploads, NEW expected \in ExpectedSizes, CreateBegin(r, u, expected)
      PROVE  MultipartTypeOK'
  <2>1. expected \in Nat
    BY Constants
  <2>2. used' \in Nat
    BY <1>1, <2>1, BytesAre DEF CreateBegin
  <2>3. [Idle EXCEPT !.pc = "insertrow", !.upload = u, !.total = expected] \in RequestStates
    BY <2>1, SessionIs DEF RequestStates, Steps
  <2> QED
    BY <1>1, <2>2, <2>3, RequestsTyped DEF CreateBegin
<1>2. ASSUME CreateRow(r) PROVE MultipartTypeOK'
  <2>1. [req[r] EXCEPT !.pc = "publish"] \in RequestStates
    BY StepTyped DEF Steps
  <2>2. req' \in [Requests -> RequestStates]
    BY <1>2, <2>1 DEF CreateRow
  <2>3. Session(req[r].total, NoParts) \in Sessions
    BY FieldsOf, SessionIs
  <2> QED
    BY <1>2, <2>2, <2>3 DEF CreateRow
<1>3. ASSUME CreateRowFails(r) PROVE MultipartTypeOK'
  <2>1. used' \in Nat
    BY <1>3, FieldsOf, BytesAre DEF CreateRowFails
  <2> QED
    BY <1>3, <2>1, SessionIs, RequestsTyped DEF CreateRowFails
<1>4. ASSUME CreatePublish(r) PROVE MultipartTypeOK'
  <2>1. Session(req[r].total, NoParts) \in Sessions
    BY FieldsOf, SessionIs
  <2>2. req' \in [Requests -> RequestStates]
    BY <1>4, SessionIs, RequestsTyped DEF CreatePublish
  <2> QED
    BY <1>4, <2>1, <2>2 DEF CreatePublish
<1> QED
  BY <1>1, <1>2, <1>3, <1>4 DEF CreateStep

\* What a request has where it is.
LEMMA StepsAre ==
  ASSUME LifeInv, NEW r \in Requests
  PROVE  StepOK(req[r]) /\ LifeOK(r)
BY DEF LifeInv

\* A request that begins, ends or only looks keeps the types.
LEMMA TypeLook ==
  ASSUME MultipartTypeOK, LifeInv, NEW r \in Requests,
         \/ \E then \in {"create", "validate", "deleterow"}, u \in Uploads,
               n \in Numbers \cup {0}, body \in Bodies \cup {NoPart} : Begin(r, then, u, n, body)
         \/ SessionStep(r) \/ Fail(r)
  PROVE  MultipartTypeOK'
<1> USE DEF MultipartTypeOK, tables, disk, history
<1>q. PICK q : q = req[r]
  OBVIOUS
<1>t. q \in RequestStates /\ q.upload \in Uploads \cup {NoSession} /\ StepOK(q)
  BY <1>q, FieldsOf, StepsAre
<1>a. ASSUME q.pc \in Looking, NEW session \in Sessions PROVE Answer(q, session) \in RequestStates
  <2>1. q.then \in Steps
    BY <1>a, <1>t DEF StepOK, RequestStates, Steps
  <2>2. PICK kept \in Sessions \cup {NoSession} :
          kept = IF q.then \in {"validate", "open"} THEN session ELSE NoSession
    OBVIOUS
  <2>3. PICK pc \in Steps : pc = q.then
    BY <2>1
  <2>4. [q EXCEPT !.pc = pc, !.session = kept] \in RequestStates
    BY <1>t, SessionTyped
  <2> QED
    BY <2>2, <2>3, <2>4 DEF Answer
<1>u. q.pc \in Looking => Upload(r) \in Uploads
  BY <1>q, <1>t DEF StepOK, Looking, Upload
<1>1. ASSUME NEW then \in {"create", "validate", "deleterow"}, NEW u \in Uploads,
             NEW n \in Numbers \cup {0}, NEW body \in Bodies \cup {NoPart}, Begin(r, then, u, n, body)
      PROVE  MultipartTypeOK'
  <2>1. [Idle EXCEPT !.pc = "lookup", !.then = then, !.upload = u, !.number = n, !.body = body]
          \in RequestStates
    BY ZenonT(40), SessionIs DEF RequestStates, Steps
  <2>2. req' \in [Requests -> RequestStates]
    BY <1>1, <2>1, RequestsTyped DEF Begin
  <2> QED
    BY <1>1, <2>2 DEF Begin
<1>2. ASSUME SessionFound(r) PROVE MultipartTypeOK'
  <2>1. loaded[Upload(r)] \in Sessions
    BY <1>2, <1>q, <1>u DEF SessionFound, Looking
  <2>2. Answer(q, loaded[Upload(r)]) \in RequestStates
    BY <1>2, <1>a, <1>q, <2>1 DEF SessionFound, Looking
  <2>3. req' \in [Requests -> RequestStates]
    BY <1>2, <1>q, <2>2, RequestsTyped DEF SessionFound
  <2> QED
    BY <1>2, <2>3 DEF SessionFound
<1>3. ASSUME SessionRead(r) PROVE MultipartTypeOK'
  <2>1. rows[Upload(r)] \in Sessions
    BY <1>3, <1>q, <1>u DEF SessionRead, Looking
  <2>2. req' \in [Requests -> RequestStates]
    <3>1. req' = [req EXCEPT ![r] = [q EXCEPT !.pc = "insert", !.session = rows[Upload(r)]]]
      BY <1>3, <1>q DEF SessionRead
    <3>2. [q EXCEPT !.pc = "insert", !.session = rows[Upload(r)]] \in RequestStates
      BY <1>t, <2>1, SessionTyped DEF Steps
    <3> QED
      BY <3>1, <3>2, RequestsTyped
  <2> QED
    BY <1>3, <2>2 DEF SessionRead
<1>4. ASSUME SessionInsert(r) PROVE MultipartTypeOK'
  <2>1. PICK session : session = IF loaded[Upload(r)] # NoSession THEN loaded[Upload(r)]
                                 ELSE req[r].session
    OBVIOUS
  <2>2. session \in Sessions
    BY <1>4, <1>q, <1>t, <1>u, <2>1, FieldsOf DEF SessionInsert, Looking, StepOK
  <2>3. session.reserved \in Nat
    BY <2>2 DEF Sessions
  <2>4. used' \in Nat
    BY <1>4, <2>1, <2>3, BytesAre DEF SessionInsert
  <2>5. loaded' = [loaded EXCEPT ![Upload(r)] = session] /\ req' = [req EXCEPT ![r] = Answer(q, session)]
    BY <1>4, <1>q, <2>1 DEF SessionInsert
  <2>6. Answer(q, session) \in RequestStates
    BY <1>4, <1>a, <1>q, <2>2 DEF SessionInsert, Looking
  <2> QED
    BY <1>4, <2>2, <2>4, <2>5, <2>6, RequestsTyped DEF SessionInsert
<1>5. ASSUME Fail(r) PROVE MultipartTypeOK'
  <2>1. req' \in [Requests -> RequestStates]
    BY <1>5, SessionIs, RequestsTyped DEF Fail
  <2> QED
    BY <1>5, <2>1 DEF Fail
<1> QED
  BY <1>1, <1>2, <1>3, <1>4, <1>5 DEF SessionStep

\* Every step of sending a part keeps the types.
LEMMA TypePutPart ==
  ASSUME MultipartTypeOK, LifeInv, NEW r \in Requests, PutPartStep(r)
  PROVE  MultipartTypeOK'
<1> USE DEF MultipartTypeOK, tables, disk, history
<1>q. PICK q : q = req[r]
  OBVIOUS
<1>t. q \in RequestStates /\ StepOK(q)
  BY <1>q, StepsAre
<1>u. q.pc \in {"create"} \cup Sending =>
        /\ Upload(r) \in Uploads /\ Number(r) \in Numbers /\ q.body \in Bodies
  BY <1>q, <1>t, FieldsOf DEF StepOK, Sending, Upload, Number
<1>i. Idle \in RequestStates
  BY SessionIs
<1>r. \A from, to \in {"none", "tmp", "path", "gone"} :
        Relinked(r, from, to) \in [Requests -> RequestStates]
  <2> SUFFICES ASSUME NEW from \in Links, NEW to \in Links
               PROVE  Relinked(r, from, to) \in [Requests -> RequestStates]
    BY DEF Links
  <2>1. ASSUME NEW p \in Requests PROVE Relinked(r, from, to)[p] \in RequestStates
    <3>1. req[p] \in RequestStates /\ [req[p] EXCEPT !.at = to] \in RequestStates
      BY LinkTyped, StepTyped DEF Steps
    <3> QED
      BY <3>1 DEF Relinked
  <2> QED
    BY <2>1 DEF Relinked
<1>d. SpoolRemoved(r) /\ q.pc \in Sending =>
        /\ req' \in [Requests -> RequestStates]
        /\ spool' \in [Uploads -> [Numbers -> Contents]]
  BY <1>i, <1>r, <1>u DEF SpoolRemoved, Contents
<1>b. Rollback(r) /\ q.pc \in Sending =>
        /\ loaded' \in [Uploads -> Sessions \cup {NoSession}]
        /\ used' \in Nat
  <2> SUFFICES ASSUME Rollback(r), q.pc \in Sending
               PROVE  /\ loaded' \in [Uploads -> Sessions \cup {NoSession}]
                      /\ used' \in Nat
    OBVIOUS
  <2>1. used' \in Nat
    BY <1>q, <1>t, FieldsOf, BytesAre DEF Rollback
  <2>2. CASE loaded[Upload(r)] = NoSession
    BY <2>1, <2>2 DEF Rollback
  <2>3. CASE loaded[Upload(r)] # NoSession
    <3>1. PICK parts : parts = [loaded[Upload(r)].parts EXCEPT ![Number(r)] = q.previous]
      OBVIOUS
    <3>2. parts \in [Numbers -> Bodies \cup {NoPart}]
      BY <1>t, <1>u, <2>3, <3>1, FieldsOf DEF Sessions
    <3>3. Session(q.before, parts) \in Sessions
      BY <1>t, <3>2, FieldsOf, SessionIs
    <3>4. loaded' = [loaded EXCEPT ![Upload(r)] = Session(q.before, parts)]
      BY <1>q, <2>3, <3>1 DEF Rollback
    <3> QED
      BY <2>1, <3>3, <3>4
  <2> QED
    BY <2>2, <2>3
<1>1. ASSUME NEW u \in Uploads, NEW part \in Sent, PutPart(r, u, part[1], part[2])
      PROVE  MultipartTypeOK'
  <2>1. part[1] \in Numbers /\ part[2] \in Bodies
    BY Constants
  <2> QED
    BY <1>1, <2>1, TypeLook DEF PutPart
<1>2. ASSUME PutCreate(r) PROVE MultipartTypeOK'
  <2>1. spool' \in [Uploads -> [Numbers -> Contents]]
    BY <1>2, <1>q, <1>u DEF PutCreate, Contents
  <2>2. ASSUME NEW p \in Requests PROVE req'[p] \in RequestStates
    <3>1. (Writers(r) # {}) \in BOOLEAN /\ (req[p].torn \/ p \in Writers(r)) \in BOOLEAN
      OBVIOUS
    <3>2. req[p] \in RequestStates
      OBVIOUS
    <3>3. req'[p] = IF p = r THEN [req[r] EXCEPT !.pc = "spool", !.at = "tmp", !.torn = Writers(r) # {}]
                    ELSE [req[p] EXCEPT !.torn = @ \/ p \in Writers(r)]
      BY <1>2 DEF PutCreate
    <3>4. [req[r] EXCEPT !.pc = "spool", !.at = "tmp", !.torn = Writers(r) # {}] \in RequestStates
      BY <3>1, LinkTyped DEF Links, Steps
    <3>5. [req[p] EXCEPT !.torn = @ \/ p \in Writers(r)] \in RequestStates
      BY <3>1, <3>2, LinkTyped DEF Links, Steps
    <3> QED
      BY <3>3, <3>4, <3>5
  <2>3. req' \in [Requests -> RequestStates]
    BY <1>2, <2>2 DEF PutCreate
  <2> QED
    BY <1>2, <2>1, <2>3 DEF PutCreate
<1>3. ASSUME PutSpool(r) PROVE MultipartTypeOK'
  <2>1. PICK content : content = IF req[r].torn THEN Torn ELSE req[r].body
    OBVIOUS
  <2>2. content \in Contents
    BY <1>3, <1>q, <1>u, <2>1 DEF PutSpool, Contents, Sending
  <2>3. /\ spool' = IF q.at = "tmp" THEN [spool EXCEPT ![Upload(r)][Number(r)] = content] ELSE spool
        /\ file' = IF q.at = "path" THEN [file EXCEPT ![Upload(r)][Number(r)] = content] ELSE file
    BY <1>3, <1>q, <2>1 DEF PutSpool
  <2>4. /\ spool' \in [Uploads -> [Numbers -> Contents]]
        /\ file' \in [Uploads -> [Numbers -> Contents]]
    BY <2>2, <2>3
  <2>5. req' \in [Requests -> RequestStates]
    <3>1. req' = [req EXCEPT ![r] = [q EXCEPT !.pc = "reserve", !.at = "none", !.torn = FALSE]]
      BY <1>3, <1>q DEF PutSpool
    <3>2. [q EXCEPT !.pc = "reserve", !.at = "none", !.torn = FALSE] \in RequestStates
      BY <1>t, LinkTyped DEF Links, Steps
    <3> QED
      BY <3>1, <3>2, RequestsTyped
  <2> QED
    BY <1>3, <2>4, <2>5 DEF PutSpool
<1>4. ASSUME PutDiscard(r) PROVE MultipartTypeOK'
  BY <1>4, <1>d, <1>q DEF PutDiscard, Sending
<1>5. ASSUME PutReserve(r) PROVE MultipartTypeOK'
  <2>1. PICK session, parts, total, delta :
          /\ session = loaded[Upload(r)]
          /\ parts = [session.parts EXCEPT ![Number(r)] = q.body]
          /\ total = Total(parts) /\ delta = total - session.reserved
    OBVIOUS
  <2>2. session \in Sessions
    BY <1>5, <1>q, <1>u, <2>1 DEF PutReserve, Sending
  <2>3. parts \in [Numbers -> Bodies \cup {NoPart}] /\ session.reserved \in Nat
    BY <1>5, <1>q, <1>u, <2>1, <2>2 DEF PutReserve, Sending, Sessions
  <2>4. total \in Nat /\ delta \in Int
    BY <2>1, <2>3, TotalIs
  <2>5. used' = Reserved(delta) /\ loaded' = [loaded EXCEPT ![Upload(r)] = Session(total, parts)]
    BY <1>5, <1>q, <2>1 DEF PutReserve
  <2>6. req' = [req EXCEPT ![r].pc = "rename", ![r].delta = delta, ![r].total = total,
                           ![r].previous = session.parts[Number(r)], ![r].before = session.reserved]
    BY <1>5, <1>q, <2>1 DEF PutReserve
  <2>7. session.parts[Number(r)] \in Bodies \cup {NoPart}
    BY <1>5, <1>q, <1>u, <2>2 DEF PutReserve, Sending, Sessions
  <2>8. req' \in [Requests -> RequestStates]
    <3>1. PICK s : s = [q EXCEPT !.pc = "rename", !.delta = delta, !.total = total,
                         !.previous = session.parts[Number(r)], !.before = session.reserved]
      OBVIOUS
    <3>2. s \in RequestStates
      BY ZenonT(40), <1>t, <2>3, <2>4, <2>7, <3>1, ReserveTyped DEF Steps
    <3>3. req' = [req EXCEPT ![r] = s]
      BY <1>q, <2>6, <3>1
    <3> QED
      BY <3>2, <3>3, RequestsTyped
  <2>9. used' \in Nat /\ loaded' \in [Uploads -> Sessions \cup {NoSession}]
    BY <2>3, <2>4, <2>5, BytesAre, SessionIs
  <2> QED
    BY <1>5, <2>8, <2>9 DEF PutReserve
<1>6. ASSUME PutRename(r) PROVE MultipartTypeOK'
  <2>1. /\ file' \in [Uploads -> [Numbers -> Contents]]
        /\ spool' \in [Uploads -> [Numbers -> Contents]]
    BY <1>6, <1>q, <1>u DEF PutRename, Sending, Contents
  <2>2. ASSUME NEW p \in Requests PROVE req'[p] \in RequestStates
    <3>1. \/ req'[p] = [req[r] EXCEPT !.pc = "save"]
          \/ req'[p] = req[p]
          \/ \E at \in {"none", "tmp", "path", "gone"} : req'[p] = [req[p] EXCEPT !.at = at]
      <4>1. CASE p = r \/ ~SamePart(r, p)
        BY <1>6, <4>1 DEF PutRename
      <4>2. CASE p # r /\ SamePart(r, p)
        <5>1. PICK at : at = CASE req[p].at = "tmp" -> "path" [] req[p].at = "path" -> "gone"
                               [] OTHER -> req[p].at
          OBVIOUS
        <5>2. at \in {"none", "tmp", "path", "gone"}
          BY <5>1 DEF RequestStates
        <5>3. req'[p] = [req[p] EXCEPT !.at = at]
          BY <1>6, <4>2, <5>1 DEF PutRename
        <5> QED
          BY <5>2, <5>3
      <4> QED
        BY <4>1, <4>2
    <3>2. /\ [req[r] EXCEPT !.pc = "save"] \in RequestStates
          /\ \A at \in Links : [req[p] EXCEPT !.at = at] \in RequestStates
      BY StepTyped, LinkTyped DEF Steps
    <3> QED
      BY <3>1, <3>2 DEF Links
  <2>3. req' \in [Requests -> RequestStates]
    BY <1>6, <2>2 DEF PutRename
  <2> QED
    BY <1>6, <2>1, <2>3 DEF PutRename
<1>7. ASSUME PutRenameFails(r) PROVE MultipartTypeOK'
  BY <1>7, <1>b, <1>d, <1>q DEF PutRenameFails, Sending
<1>8. ASSUME PutSave(r) PROVE MultipartTypeOK'
  <2>1. rows[Upload(r)] \in Sessions /\ q.total \in Nat
    BY <1>8, <1>q, <1>t, <1>u, FieldsOf DEF PutSave, Sending
  <2>2. PICK parts : parts = [rows[Upload(r)].parts EXCEPT ![Number(r)] = q.body]
    OBVIOUS
  <2>3. parts \in [Numbers -> Bodies \cup {NoPart}]
    BY <1>8, <1>q, <1>u, <2>1, <2>2 DEF PutSave, Sending, Sessions
  <2>4. rows' = [rows EXCEPT ![Upload(r)] = Session(q.total, parts)]
    BY <1>8, <1>q, <2>2 DEF PutSave
  <2>5. -q.delta \in Int
    BY <1>t, FieldsOf
  <2>6. used' \in Nat /\ req' \in [Requests -> RequestStates]
    BY <1>8, <1>i, <1>q, <2>5, BytesAre, RequestsTyped DEF PutSave
  <2>7. Session(q.total, parts) \in Sessions
    BY <2>1, <2>3, SessionIs
  <2> QED
    BY <1>8, <2>4, <2>6, <2>7 DEF PutSave
<1>9. ASSUME PutSaveFails(r) PROVE MultipartTypeOK'
  <2>1. file' \in [Uploads -> [Numbers -> Contents]]
    BY <1>9, <1>q, <1>u DEF PutSaveFails, Sending, Contents
  <2>2. req' \in [Requests -> RequestStates]
    BY <1>9, <1>i, <1>r DEF PutSaveFails
  <2>3. loaded' \in [Uploads -> Sessions \cup {NoSession}] /\ used' \in Nat
    BY <1>9, <1>b, <1>q DEF PutSaveFails, Sending
  <2> QED
    BY <1>9, <2>1, <2>2, <2>3 DEF PutSaveFails
<1> QED
  BY <1>1, <1>2, <1>3, <1>4, <1>5, <1>6, <1>7, <1>8, <1>9 DEF PutPartStep

\* The part a complete opens next is one it wants.
LEMMA MinIsUnopened ==
  ASSUME NEW r \in Requests, StepOK(req[r]), req[r].pc = "open"
  PROVE  /\ Min(Unopened(r)) \in Unopened(r)
         /\ Unopened(r) \subseteq Numbers
<1>1. PICK S : S = Unopened(r)
  OBVIOUS
<1>2. S \subseteq Numbers /\ S # {}
  BY <1>1 DEF StepOK, Unopened
<1>3. S \subseteq Nat
  BY <1>2, Constants
<1>4. \E x \in S : \A y \in S : x <= y
  <2>1. IsWellFoundedOn(OpToRel(<, Nat), Nat)
    BY NatLessThanWellFounded
  <2>2. PICK R : R = OpToRel(<, Nat)
    OBVIOUS
  <2>3. \A x, y \in Nat : x < y => <<x, y>> \in R
    BY <2>2 DEF OpToRel
  <2>4. PICK x \in S : \A y \in S : <<y, x>> \notin R
    BY <1>2, <1>3, <2>1, <2>2, WFMin
  <2>5. ASSUME NEW y \in S PROVE x <= y
    <3>1. x \in Nat /\ y \in Nat /\ (y < x => <<y, x>> \in R)
      BY <1>3, <2>3
    <3>2. ~(y < x)
      BY <2>4, <3>1
    <3> QED
      BY <3>1, <3>2
  <2> QED
    BY <2>5
<1>5. Min(S) \in S
  BY <1>4 DEF Min
<1> QED
  BY <1>1, <1>2, <1>5

\* Every step of a complete and of an abort keeps the types.
LEMMA TypeComplete ==
  ASSUME MultipartTypeOK, LifeInv, NEW r \in Requests, CompleteStep(r) \/ AbortStep(r)
  PROVE  MultipartTypeOK'
<1> USE DEF MultipartTypeOK, tables, disk, history
<1>q. PICK q : q = req[r]
  OBVIOUS
<1>t. q \in RequestStates /\ StepOK(q)
  BY <1>q, StepsAre
<1>u. q.pc # "idle" => Upload(r) \in Uploads
  BY <1>q, <1>t, FieldsOf DEF StepOK, Upload
<1>i. Idle \in RequestStates
  BY SessionIs
<1>1. ASSUME NEW u \in Uploads, Complete(r, u) \/ Abort(r, u) PROVE MultipartTypeOK'
  BY <1>1, TypeLook DEF Complete, Abort
<1>2. ASSUME Validate(r) PROVE MultipartTypeOK'
  <2>1. PICK want : /\ want \in [Numbers -> Bodies \cup {NoPart}]
                    /\ req' = [req EXCEPT ![r].pc = "lookup", ![r].then = "open",
                                          ![r].session = NoSession, ![r].want = want]
    <3>1. q.session \in Sessions
      BY <1>2, <1>q, <1>t, FieldsOf DEF Validate, StepOK
    <3>2. PICK chosen \in (SUBSET Numbers) \ {{}} :
            req' = [req EXCEPT ![r].pc = "lookup", ![r].then = "open", ![r].session = NoSession,
                      ![r].want = [n \in Numbers |-> IF n \in chosen THEN req[r].session.parts[n]
                                                     ELSE NoPart]]
      BY <1>2 DEF Validate
    <3>3. PICK want : want = [n \in Numbers |-> IF n \in chosen THEN q.session.parts[n] ELSE NoPart]
      OBVIOUS
    <3>4. want \in [Numbers -> Bodies \cup {NoPart}]
      BY <3>1, <3>3 DEF Sessions
    <3> QED
      BY <1>q, <3>2, <3>3, <3>4
  <2>2. req' \in [Requests -> RequestStates]
    <3>1. req' = [req EXCEPT ![r] = [q EXCEPT !.pc = "lookup", !.then = "open",
                                              !.session = NoSession, !.want = want]]
      BY <1>q, <2>1
    <3>2. [q EXCEPT !.pc = "lookup", !.then = "open", !.session = NoSession, !.want = want]
            \in RequestStates
      BY <1>t, <2>1, WantTyped
    <3> QED
      BY <3>1, <3>2, RequestsTyped
  <2> QED
    BY <1>2, <2>2 DEF Validate
<1>3. ASSUME OpenPart(r) PROVE MultipartTypeOK'
  <2>1. PICK n : n = Min(Unopened(r))
    OBVIOUS
  <2>2. n \in Numbers
    BY <1>3, <1>q, <1>t, <2>1, MinIsUnopened DEF OpenPart
  <2>3. file[Upload(r)][n] \in Contents
    BY <1>3, <1>q, <1>u, <2>2 DEF OpenPart
  <2>4. PICK pc, session :
          /\ pc = IF Unopened(r) = {n} THEN "assembled" ELSE "open"
          /\ session = IF Unopened(r) = {n} THEN NoSession ELSE req[r].session
          /\ req' = [req EXCEPT ![r].got[n] = file[Upload(r)][n], ![r].pc = pc, ![r].session = session]
    BY <1>3, <2>1 DEF OpenPart
  <2>5. pc \in Steps /\ session \in Sessions \cup {NoSession}
    BY <1>q, <1>t, <2>4, FieldsOf DEF Steps
  <2>6. req' \in [Requests -> RequestStates]
    <3>1. PICK got : got = [q.got EXCEPT ![n] = file[Upload(r)][n]]
      OBVIOUS
    <3>2. got \in [Numbers -> Contents]
      BY <1>t, <2>2, <2>3, <3>1, FieldsOf
    <3>3. PICK s : s = [q EXCEPT !.got = got, !.pc = pc, !.session = session]
      OBVIOUS
    <3>4. s \in RequestStates
      BY <1>t, <2>5, <3>2, <3>3, GotTyped
    <3>5. req' = [req EXCEPT ![r] = s]
      BY <1>q, <2>4, <3>1, <3>3
    <3> QED
      BY <3>4, <3>5, RequestsTyped
  <2> QED
    BY <1>3, <2>6 DEF OpenPart
<1>4. ASSUME PutObject(r) PROVE MultipartTypeOK'
  <2>1. Upload(r) \in Uploads
    BY <1>4, <1>q, <1>u DEF PutObject
  <2>2. [Idle EXCEPT !.pc = "lookup", !.then = "deleterow", !.upload = Upload(r)] \in RequestStates
    BY ZenonT(40), <1>i, <2>1 DEF RequestStates, Steps
  <2>3. req' \in [Requests -> RequestStates]
    BY <1>4, <2>2, RequestsTyped DEF PutObject
  <2> QED
    BY <1>4, <2>3 DEF PutObject
<1>5. ASSUME DeleteRow(r) PROVE MultipartTypeOK'
  <2>1. [q EXCEPT !.pc = "unload"] \in RequestStates
    BY <1>t, StepTyped DEF Steps
  <2>2. req' \in [Requests -> RequestStates]
    BY <1>5, <1>q, <2>1 DEF DeleteRow
  <2> QED
    BY <1>5, <2>2 DEF DeleteRow
<1>6. ASSUME Unload(r) PROVE MultipartTypeOK'
  <2>1. used' \in Nat
    <3>1. CASE loaded[Upload(r)] = NoSession
      BY <1>6, <3>1 DEF Unload
    <3>2. CASE loaded[Upload(r)] # NoSession
      <4>1. loaded[Upload(r)].reserved \in Int
        BY <1>6, <1>q, <1>u, <3>2 DEF Unload, Sessions
      <4> QED
        BY <1>6, <3>2, <4>1, BytesAre DEF Unload
    <3> QED
      BY <3>1, <3>2
  <2> QED
    <3>1. [q EXCEPT !.pc = "removeall"] \in RequestStates
      BY <1>t, StepTyped DEF Steps
    <3>2. req' \in [Requests -> RequestStates]
      BY <1>6, <1>q, <3>1 DEF Unload
    <3> QED
      BY <1>6, <2>1, <3>2 DEF Unload
<1>7. ASSUME RemoveScratch(r) PROVE MultipartTypeOK'
  <2>1. /\ file' \in [Uploads -> [Numbers -> Contents]]
        /\ spool' \in [Uploads -> [Numbers -> Contents]]
    BY <1>7, SessionIs DEF RemoveScratch, ScratchRemoved
  <2>2. req' \in [Requests -> RequestStates]
    <3>1. \A p \in Requests : [req[p] EXCEPT !.at = "gone"] \in RequestStates
      BY LinkTyped DEF Links, Steps
    <3> QED
      BY <1>7, <1>i, <3>1 DEF RemoveScratch
  <2> QED
    BY <1>7, <2>1, <2>2 DEF RemoveScratch, ScratchRemoved
<1> QED
  BY <1>1, <1>2, <1>3, <1>4, <1>5, <1>6, <1>7 DEF CompleteStep, AbortStep

\* A crash, each phase of a restart and the other gateways keep the types.
LEMMA TypeElsewhere ==
  ASSUME MultipartTypeOK, LifeInv, Crash \/ Restart \/ Elsewhere
  PROVE  MultipartTypeOK'
<1> USE DEF MultipartTypeOK, tables, disk, history
<1>1. ASSUME Crash PROVE MultipartTypeOK'
  BY <1>1, SessionIs DEF Crash
<1>2. ASSUME NEW u \in Uploads, CleanupStale(u) PROVE MultipartTypeOK'
  BY <1>2, SessionIs DEF CleanupStale, ScratchRemoved
<1>3. ASSUME NEW u \in Uploads, LoadActive(u) PROVE MultipartTypeOK'
  <2>1. rows[u] \in Sessions
    BY <1>3 DEF LoadActive, Unloaded
  <2>2. rows[u].reserved \in Int
    BY <2>1 DEF Sessions
  <2>3. used' \in Nat
    BY <1>3, <2>2, BytesAre DEF LoadActive
  <2> QED
    BY <1>3, <2>1, <2>3 DEF LoadActive
<1>4. ASSUME StartLoading \/ StartServing PROVE MultipartTypeOK'
  BY <1>4 DEF StartLoading, StartServing
<1>5. ASSUME NEW u \in Uploads, NEW expected \in ExpectedSizes, CreateElsewhere(u, expected)
      PROVE  MultipartTypeOK'
  <2>1. Session(expected, NoParts) \in Sessions
    BY Constants, SessionIs
  <2> QED
    BY <1>5, <2>1 DEF CreateElsewhere
<1>6. ASSUME NEW u \in Uploads, NEW part \in Sent, SaveElsewhere(u, part[1], part[2])
      PROVE  MultipartTypeOK'
  <2>1. PICK parts : parts = [rows[u].parts EXCEPT ![part[1]] = part[2]]
    OBVIOUS
  <2>2. parts \in [Numbers -> Bodies \cup {NoPart}]
    BY <1>6, <2>1, Constants DEF SaveElsewhere, Sessions
  <2>3. Session(Total(parts), parts) \in Sessions
    BY <2>2, TotalIs, SessionIs
  <2>4. rows' = [rows EXCEPT ![u] = Session(Total(parts), parts)]
    BY <1>6, <2>1 DEF SaveElsewhere
  <2> QED
    BY <1>6, <2>3, <2>4 DEF SaveElsewhere
<1>7. ASSUME NEW u \in Uploads, EndElsewhere(u) PROVE MultipartTypeOK'
  BY <1>7 DEF EndElsewhere
<1> QED
  BY <1>1, <1>2, <1>3, <1>4, <1>5, <1>6, <1>7 DEF Restart, Elsewhere

\* Every step keeps the types.
LEMMA TypeNext == MultipartTypeOK /\ LifeInv /\ [MultipartNext]_multipartVars => MultipartTypeOK'
<1> SUFFICES ASSUME MultipartTypeOK, LifeInv, [MultipartNext]_multipartVars PROVE MultipartTypeOK'
  OBVIOUS
<1>1. CASE UNCHANGED multipartVars
  BY <1>1 DEF multipartVars, tables, disk, MultipartTypeOK
<1> QED
  BY <1>1, TypeCreate, TypeLook, TypePutPart, TypeComplete, TypeElsewhere DEF MultipartNext

-----------------------------------------------------------------------------
(* What a step of a request is to the life of uploads.                     *)

(* Another request's step may only move the file this one writes to.       *)
SameButLink(p, q) ==
  /\ q.pc = p.pc /\ q.then = p.then /\ q.upload = p.upload /\ q.number = p.number
  /\ q.body = p.body /\ q.session = p.session /\ q.delta = p.delta /\ q.total = p.total
  /\ q.previous = p.previous /\ q.before = p.before /\ q.want = p.want /\ q.got = p.got
  /\ p.at = "none" => q.at = "none"

TouchesOnly(u) ==
  \A v \in Uploads \ {u} :
    /\ issued'[v] = issued[v] /\ loaded'[v] = loaded[v] /\ rows'[v] = rows[v]
    /\ file'[v] = file[v] /\ spool'[v] = spool[v]

Untouched(u) == issued'[u] = issued[u] /\ loaded'[u] = loaded[u] /\ rows'[u] = rows[u]

Draws(r, u) ==
  /\ req[r].pc = "idle" /\ issued[u] = "new" /\ u \in Own
  /\ issued'[u] = "drawn" /\ loaded'[u] = loaded[u] /\ rows'[u] = rows[u]
  /\ req'[r].pc = "insertrow" /\ req'[r].upload = u

Inserts(r, u) ==
  /\ req[r].pc = "insertrow" /\ Upload(r) = u
  /\ issued'[u] = issued[u] /\ loaded'[u] = loaded[u]
  /\ rows'[u] = Session(req[r].total, NoParts)
  /\ req'[r].pc = "publish" /\ req'[r].upload = u /\ req'[r].total = req[r].total

GivesUp(r, u) ==
  /\ req[r].pc = "insertrow" /\ Upload(r) = u
  /\ Untouched(u)
  /\ req'[r] = Idle

Publishes(r, u) ==
  /\ req[r].pc = "publish" /\ Upload(r) = u
  /\ issued'[u] = "answered" /\ rows'[u] = rows[u]
  /\ loaded'[u] = Session(req[r].total, NoParts)
  /\ req'[r] = Idle

Begins(r, u) ==
  /\ req[r].pc = "idle" /\ issued[u] = "answered"
  /\ Untouched(u)
  /\ req'[r].pc = "lookup" /\ req'[r].upload = u

Works(r, u) ==
  /\ req[r].pc \notin {"idle"} \cup Creating /\ Upload(r) = u
  /\ req'[r].pc \notin Creating
  /\ req'[r].pc = "idle" \/ req'[r].upload = u
  /\ issued'[u] = issued[u]
  /\ rows'[u] # NoSession => rows[u] # NoSession
  /\ loaded'[u] = NoSession => loaded[u] = NoSession \/ req[r].pc = "unload"
  /\ req'[r].pc = "unload" => rows'[u] = NoSession
  /\ req'[r].pc = "removeall" => req[r].pc = "unload"
  /\ req'[r].pc = "insert" => loaded[u] = NoSession /\ rows[u] # NoSession

LifeStep(r, u) ==
  /\ phase = "serve" /\ phase' = "serve"
  /\ \A p \in Requests \ {r} : SameButLink(req[p], req'[p])
  /\ TouchesOnly(u)
  /\ \/ Draws(r, u) \/ Inserts(r, u) \/ GivesUp(r, u) \/ Publishes(r, u)
     \/ Begins(r, u) \/ Works(r, u)

\* A step of a create is one in the life of the upload it creates.
LEMMA CreateIsLife ==
  ASSUME MultipartTypeOK, LifeInv, NEW r \in Requests, CreateStep(r)
  PROVE  \E u \in Uploads : LifeStep(r, u)
<1> USE DEF MultipartTypeOK, tables, disk, history
<1>q. PICK q : q = req[r]
  OBVIOUS
<1>t. q \in RequestStates /\ StepOK(q)
  BY <1>q, StepsAre
<1>u. q.pc # "idle" => Upload(r) \in Uploads /\ phase = "serve"
  BY <1>q, <1>t, FieldsOf, StepsAre DEF StepOK, Upload, LifeOK
<1>1. ASSUME NEW u \in Uploads, NEW expected \in ExpectedSizes, CreateBegin(r, u, expected)
      PROVE  LifeStep(r, u)
  <2>1. req'[r].pc = "insertrow" /\ req'[r].upload = u
    BY <1>1 DEF CreateBegin, Idle
  <2>2. \A p \in Requests \ {r} : SameButLink(req[p], req'[p])
    BY <1>1 DEF CreateBegin, SameButLink
  <2>3. TouchesOnly(u)
    BY <1>1 DEF CreateBegin, TouchesOnly
  <2>4. Draws(r, u)
    BY <1>1, <2>1 DEF CreateBegin, Draws, Own
  <2> QED
    BY <1>1, <2>2, <2>3, <2>4 DEF CreateBegin, LifeStep
<1>2. ASSUME CreateRow(r) PROVE LifeStep(r, Upload(r))
  <2>0. Upload(r) \in Uploads /\ phase = "serve"
    BY <1>2, <1>q, <1>u DEF CreateRow
  <2>1. \A p \in Requests \ {r} : SameButLink(req[p], req'[p])
    BY <1>2 DEF CreateRow, SameButLink
  <2>2. TouchesOnly(Upload(r))
    BY <1>2 DEF CreateRow, TouchesOnly
  <2>3. Inserts(r, Upload(r))
    BY <1>2, <2>0 DEF CreateRow, Inserts, Upload
  <2> QED
    BY <1>2, <2>0, <2>1, <2>2, <2>3 DEF CreateRow, LifeStep
<1>3. ASSUME CreateRowFails(r) PROVE LifeStep(r, Upload(r))
  <2>0. Upload(r) \in Uploads /\ phase = "serve"
    BY <1>3, <1>q, <1>u DEF CreateRowFails
  <2>1. \A p \in Requests \ {r} : SameButLink(req[p], req'[p])
    BY <1>3 DEF CreateRowFails, SameButLink
  <2>2. TouchesOnly(Upload(r))
    BY <1>3 DEF CreateRowFails, TouchesOnly
  <2>3. GivesUp(r, Upload(r))
    BY <1>3 DEF CreateRowFails, GivesUp, Untouched
  <2> QED
    BY <1>3, <2>0, <2>1, <2>2, <2>3 DEF CreateRowFails, LifeStep
<1>4. ASSUME CreatePublish(r) PROVE LifeStep(r, Upload(r))
  <2>0. Upload(r) \in Uploads /\ phase = "serve"
    BY <1>4, <1>q, <1>u DEF CreatePublish
  <2>1. \A p \in Requests \ {r} : SameButLink(req[p], req'[p])
    BY <1>4 DEF CreatePublish, SameButLink
  <2>2. TouchesOnly(Upload(r))
    BY <1>4 DEF CreatePublish, TouchesOnly
  <2>3. Publishes(r, Upload(r))
    BY <1>4, <2>0 DEF CreatePublish, Publishes
  <2> QED
    BY <1>4, <2>0, <2>1, <2>2, <2>3 DEF CreatePublish, LifeStep
<1> QED
  BY <1>1, <1>2, <1>3, <1>4, <1>q, <1>u DEF CreateStep, CreateRow, CreateRowFails, CreatePublish

\* A step that begins, looks up a session or fails is one in the life of one upload.
LEMMA LookIsLife ==
  ASSUME MultipartTypeOK, LifeInv, NEW r \in Requests,
         \/ \E then \in {"create", "validate", "deleterow"}, u \in Uploads,
               n \in Numbers \cup {0}, body \in Bodies \cup {NoPart} : Begin(r, then, u, n, body)
         \/ SessionStep(r) \/ Fail(r)
  PROVE  \E u \in Uploads : LifeStep(r, u)
<1> USE DEF MultipartTypeOK, tables, disk, history
<1>q. PICK q : q = req[r]
  OBVIOUS
<1>t. q \in RequestStates /\ StepOK(q)
  BY <1>q, StepsAre
<1>u. q.pc # "idle" => Upload(r) \in Uploads /\ phase = "serve"
  BY <1>q, <1>t, FieldsOf, StepsAre DEF StepOK, Upload, LifeOK
<1>a. ASSUME NEW session, q.pc \in Looking
      PROVE  /\ Answer(q, session).pc = q.then /\ Answer(q, session).upload = q.upload
             /\ q.then \in {"create", "validate", "open", "deleterow"}
  BY <1>t, <1>a DEF Answer, StepOK, RequestStates
<1>1. ASSUME NEW then \in {"create", "validate", "deleterow"}, NEW u \in Uploads,
             NEW n \in Numbers \cup {0}, NEW body \in Bodies \cup {NoPart}, Begin(r, then, u, n, body)
      PROVE  LifeStep(r, u)
  <2>1. req'[r].pc = "lookup" /\ req'[r].upload = u
    BY <1>1 DEF Begin, Idle
  <2>2. \A p \in Requests \ {r} : SameButLink(req[p], req'[p])
    BY <1>1 DEF Begin, SameButLink
  <2>3. TouchesOnly(u) /\ Untouched(u)
    BY <1>1 DEF Begin, TouchesOnly, Untouched
  <2>4. Begins(r, u)
    BY <1>1, <2>1, <2>3 DEF Begin, Begins
  <2> QED
    BY <1>1, <2>2, <2>3, <2>4 DEF Begin, LifeStep
<1>2. ASSUME SessionFound(r) PROVE LifeStep(r, Upload(r))
  <2>0. Upload(r) \in Uploads /\ phase = "serve" /\ q.pc \in Looking
    BY <1>2, <1>q, <1>u DEF SessionFound, Looking
  <2>1. \A p \in Requests \ {r} : SameButLink(req[p], req'[p])
    BY <1>2 DEF SessionFound, SameButLink
  <2>2. TouchesOnly(Upload(r)) /\ Untouched(Upload(r))
    BY <1>2 DEF SessionFound, TouchesOnly, Untouched
  <2>3. req'[r].upload = Upload(r) /\ req'[r].pc \in {"create", "validate", "open", "deleterow"}
    BY <1>2, <1>a, <1>q, <2>0 DEF SessionFound, Upload
  <2>4. Works(r, Upload(r))
    BY <1>2, <2>2, <2>3 DEF SessionFound, Works, Untouched, Creating
  <2> QED
    BY <1>2, <2>0, <2>1, <2>2, <2>4 DEF SessionFound, LifeStep
<1>3. ASSUME SessionRead(r) PROVE LifeStep(r, Upload(r))
  <2>0. Upload(r) \in Uploads /\ phase = "serve"
    BY <1>3, <1>q, <1>u DEF SessionRead
  <2>1. \A p \in Requests \ {r} : SameButLink(req[p], req'[p])
    BY <1>3 DEF SessionRead, SameButLink
  <2>2. TouchesOnly(Upload(r)) /\ Untouched(Upload(r))
    BY <1>3 DEF SessionRead, TouchesOnly, Untouched
  <2>3. req'[r].upload = Upload(r) /\ req'[r].pc = "insert"
    BY <1>3 DEF SessionRead, Upload, RequestStates
  <2>4. Works(r, Upload(r))
    BY <1>3, <2>2, <2>3 DEF SessionRead, Works, Untouched, Creating
  <2> QED
    BY <1>3, <2>0, <2>1, <2>2, <2>4 DEF SessionRead, LifeStep
<1>4. ASSUME SessionInsert(r) PROVE LifeStep(r, Upload(r))
  <2>0. Upload(r) \in Uploads /\ phase = "serve" /\ q.pc \in Looking
    BY <1>4, <1>q, <1>u DEF SessionInsert, Looking
  <2>1. PICK session : /\ session = IF loaded[Upload(r)] # NoSession THEN loaded[Upload(r)]
                                    ELSE req[r].session
                       /\ loaded' = [loaded EXCEPT ![Upload(r)] = session]
                       /\ req' = [req EXCEPT ![r] = Answer(q, session)]
    BY <1>4, <1>q DEF SessionInsert
  <2>2. \A p \in Requests \ {r} : SameButLink(req[p], req'[p])
    BY <2>1 DEF SameButLink
  <2>3. TouchesOnly(Upload(r)) /\ issued' = issued /\ rows' = rows /\ phase' = phase
    BY <1>4, <2>1 DEF SessionInsert, TouchesOnly
  <2>4. req'[r].upload = Upload(r) /\ req'[r].pc \in {"create", "validate", "open", "deleterow"}
    BY <1>a, <1>q, <2>0, <2>1 DEF Upload
  <2>5. loaded'[Upload(r)] = NoSession => loaded[Upload(r)] = NoSession
    BY <2>0, <2>1
  <2>6. Works(r, Upload(r))
    BY <1>4, <2>3, <2>4, <2>5 DEF SessionInsert, Works, Creating
  <2> QED
    BY <2>0, <2>2, <2>3, <2>6 DEF LifeStep
<1>5. ASSUME Fail(r) PROVE LifeStep(r, Upload(r))
  <2>0. Upload(r) \in Uploads /\ phase = "serve"
    BY <1>5, <1>q, <1>u DEF Fail
  <2>1. \A p \in Requests \ {r} : SameButLink(req[p], req'[p])
    BY <1>5 DEF Fail, SameButLink
  <2>2. TouchesOnly(Upload(r)) /\ Untouched(Upload(r))
    BY <1>5 DEF Fail, TouchesOnly, Untouched
  <2>3. req'[r].pc = "idle"
    BY <1>5 DEF Fail, Idle
  <2>4. Works(r, Upload(r))
    BY <1>5, <2>2, <2>3 DEF Fail, Works, Untouched, Creating
  <2> QED
    BY <1>5, <2>0, <2>1, <2>2, <2>4 DEF Fail, LifeStep
<1> QED
  BY <1>1, <1>2, <1>3, <1>4, <1>5, <1>q, <1>u
     DEF SessionStep, SessionFound, SessionRead, SessionInsert, Fail

\* A step of sending a part is one in the life of the upload it belongs to.
LEMMA PutPartIsLife ==
  ASSUME MultipartTypeOK, LifeInv, NEW r \in Requests, PutPartStep(r)
  PROVE  \E u \in Uploads : LifeStep(r, u)
<1> USE DEF MultipartTypeOK, tables, disk, history
<1>q. PICK q : q = req[r]
  OBVIOUS
<1>t. q \in RequestStates /\ StepOK(q)
  BY <1>q, StepsAre
<1>u. q.pc # "idle" => Upload(r) \in Uploads /\ phase = "serve"
  BY <1>q, <1>t, FieldsOf, StepsAre DEF StepOK, Upload, LifeOK
<1>k. \A p \in Requests : \A at :
        /\ SameButLink(req[p], req[p])
        /\ req[p].at # "none" => SameButLink(req[p], [req[p] EXCEPT !.at = at])
  BY DEF SameButLink, RequestStates
<1>l. \A from \in {"tmp", "path"} : \A to : \A p \in Requests :
        SameButLink(req[p], Relinked(r, from, to)[p])
  <2> SUFFICES ASSUME NEW from \in {"tmp", "path"}, NEW to, NEW p \in Requests
               PROVE  SameButLink(req[p], Relinked(r, from, to)[p])
    OBVIOUS
  <2>1. \/ Relinked(r, from, to)[p] = req[p]
        \/ req[p].at = from /\ Relinked(r, from, to)[p] = [req[p] EXCEPT !.at = to]
    BY DEF Relinked
  <2>2. PICK x : x = Relinked(r, from, to)[p]
    OBVIOUS
  <2>3. CASE x = req[p]
    BY <2>2, <2>3 DEF SameButLink
  <2>4. CASE x = [req[p] EXCEPT !.at = to] /\ req[p].at = from
    <3>1. SameButLink(req[p], x)
      BY <2>4 DEF SameButLink, RequestStates
    <3> QED
      BY <2>2, <3>1
  <2> QED
    BY <2>1, <2>2, <2>3, <2>4
<1>d. ASSUME SpoolRemoved(r)
      PROVE  /\ \A p \in Requests \ {r} : SameButLink(req[p], req'[p])
             /\ req'[r].pc = "idle"
             /\ \A v \in Uploads \ {Upload(r)} : spool'[v] = spool[v]
  <2>1. req' = [Relinked(r, "tmp", "gone") EXCEPT ![r] = Idle]
    BY <1>d DEF SpoolRemoved
  <2>2. DOMAIN Relinked(r, "tmp", "gone") = Requests
    BY DEF Relinked
  <2>3. req'[r] = Idle /\ \A p \in Requests \ {r} : req'[p] = Relinked(r, "tmp", "gone")[p]
    BY <2>1, <2>2
  <2> QED
    BY <1>d, <1>l, <2>3 DEF SpoolRemoved, Idle
<1>b. ASSUME Rollback(r), Upload(r) \in Uploads, q.pc \in Counting
      PROVE  /\ \A v \in Uploads \ {Upload(r)} : loaded'[v] = loaded[v]
             /\ loaded'[Upload(r)] = NoSession => loaded[Upload(r)] = NoSession
  <2>1. CASE loaded[Upload(r)] = NoSession
    BY <1>b, <2>1 DEF Rollback
  <2>2. CASE loaded[Upload(r)] # NoSession
    <3>1. PICK parts : parts = [loaded[Upload(r)].parts EXCEPT ![Number(r)] = q.previous]
      OBVIOUS
    <3>2. loaded[Upload(r)] \in Sessions
      BY <1>b, <2>2
    <3>3. parts \in [Numbers -> Bodies \cup {NoPart}]
      BY <1>t, <3>1, <3>2, FieldsOf DEF Sessions
    <3>4. Session(q.before, parts) # NoSession
      BY <1>t, <3>3, FieldsOf, SessionIs, Constants
    <3>5. loaded' = [loaded EXCEPT ![Upload(r)] = Session(q.before, parts)]
      BY <1>b, <1>q, <2>2, <3>1 DEF Rollback
    <3> QED
      BY <2>2, <3>4, <3>5
  <2> QED
    BY <2>1, <2>2
<1>1. ASSUME NEW u \in Uploads, NEW part \in Sent, PutPart(r, u, part[1], part[2])
      PROVE  \E v \in Uploads : LifeStep(r, v)
  <2>1. part[1] \in Numbers /\ part[2] \in Bodies
    BY Constants
  <2> QED
    BY <1>1, <2>1, LookIsLife DEF PutPart
<1>2. ASSUME PutCreate(r) PROVE LifeStep(r, Upload(r))
  <2>0. Upload(r) \in Uploads /\ phase = "serve"
    BY <1>2, <1>q, <1>u DEF PutCreate
  <2>1. ASSUME NEW p \in Requests \ {r} PROVE SameButLink(req[p], req'[p])
    <3>1. PICK torn : torn = (req[p].torn \/ p \in Writers(r))
      OBVIOUS
    <3>2. req'[p] = [req[p] EXCEPT !.torn = torn]
      BY <1>2, <3>1 DEF PutCreate
    <3> QED
      BY <3>2 DEF SameButLink, RequestStates
  <2>2. TouchesOnly(Upload(r)) /\ Untouched(Upload(r))
    BY <1>2 DEF PutCreate, TouchesOnly, Untouched
  <2>3. req'[r].pc = "spool" /\ req'[r].upload = Upload(r)
    <3>1. req'[r] = [req[r] EXCEPT !.pc = "spool", !.at = "tmp", !.torn = Writers(r) # {}]
      BY <1>2 DEF PutCreate
    <3> QED
      BY <3>1 DEF Upload, RequestStates
  <2>4. Works(r, Upload(r))
    BY <1>2, <2>2, <2>3 DEF PutCreate, Works, Untouched, Creating
  <2> QED
    BY <1>2, <2>0, <2>1, <2>2, <2>4 DEF PutCreate, LifeStep
<1>3. ASSUME PutSpool(r) PROVE LifeStep(r, Upload(r))
  <2>0. Upload(r) \in Uploads /\ phase = "serve"
    BY <1>3, <1>q, <1>u DEF PutSpool
  <2>1. \A p \in Requests \ {r} : SameButLink(req[p], req'[p])
    BY <1>3 DEF PutSpool, SameButLink
  <2>2. PICK content : content = IF req[r].torn THEN Torn ELSE req[r].body
    OBVIOUS
  <2>3. /\ spool' = IF q.at = "tmp" THEN [spool EXCEPT ![Upload(r)][Number(r)] = content] ELSE spool
        /\ file' = IF q.at = "path" THEN [file EXCEPT ![Upload(r)][Number(r)] = content] ELSE file
    BY <1>3, <1>q, <2>2 DEF PutSpool
  <2>4. TouchesOnly(Upload(r)) /\ Untouched(Upload(r))
    BY <1>3, <2>3 DEF PutSpool, TouchesOnly, Untouched
  <2>5. req'[r].pc = "reserve" /\ req'[r].upload = Upload(r)
    BY <1>3 DEF PutSpool, Upload, RequestStates
  <2>6. Works(r, Upload(r))
    BY <1>3, <2>4, <2>5 DEF PutSpool, Works, Untouched, Creating
  <2> QED
    BY <1>3, <2>0, <2>1, <2>4, <2>6 DEF PutSpool, LifeStep
<1>4. ASSUME PutDiscard(r) PROVE LifeStep(r, Upload(r))
  <2>0. Upload(r) \in Uploads /\ phase = "serve"
    BY <1>4, <1>q, <1>u DEF PutDiscard
  <2>1. TouchesOnly(Upload(r)) /\ Untouched(Upload(r))
    BY <1>4, <1>d DEF PutDiscard, TouchesOnly, Untouched
  <2>2. Works(r, Upload(r))
    BY <1>4, <1>d, <2>1 DEF PutDiscard, Works, Untouched, Creating
  <2> QED
    BY <1>4, <1>d, <2>0, <2>1, <2>2 DEF PutDiscard, LifeStep
<1>5. ASSUME PutReserve(r) PROVE LifeStep(r, Upload(r))
  <2>0. Upload(r) \in Uploads /\ phase = "serve"
    BY <1>5, <1>q, <1>u DEF PutReserve
  <2>a. PICK s, parts, t, d :
          /\ s = loaded[Upload(r)] /\ parts = [s.parts EXCEPT ![Number(r)] = q.body]
          /\ t = Total(parts) /\ d = t - s.reserved
    OBVIOUS
  <2>b. PICK session, p, b : session = Session(t, parts) /\ p = s.parts[Number(r)] /\ b = s.reserved
    OBVIOUS
  <2>1. /\ loaded' = [loaded EXCEPT ![Upload(r)] = session]
        /\ req' = [req EXCEPT ![r].pc = "rename", ![r].delta = d, ![r].total = t,
                              ![r].previous = p, ![r].before = b]
    BY <1>5, <1>q, <2>a, <2>b DEF PutReserve
  <2>2. \A p1 \in Requests \ {r} : SameButLink(req[p1], req'[p1])
    BY <2>1 DEF SameButLink
  <2>3. TouchesOnly(Upload(r)) /\ issued' = issued /\ rows' = rows /\ phase' = phase
    BY <1>5, <2>1 DEF PutReserve, TouchesOnly
  <2>4. req'[r].upload = Upload(r) /\ req'[r].pc = "rename"
    BY <2>1 DEF Upload, RequestStates
  <2>5. loaded'[Upload(r)] # NoSession
    <3>1. s \in Sessions /\ Number(r) \in Numbers /\ q.body \in Bodies
      BY <1>5, <1>q, <1>t, <2>0, <2>a DEF PutReserve, StepOK, Sending, Number
    <3>2. parts \in [Numbers -> Bodies \cup {NoPart}]
      BY <2>a, <3>1 DEF Sessions
    <3>3. t \in Nat
      BY <2>a, <3>2, TotalIs
    <3>4. session \in Sessions
      BY <2>b, <3>2, <3>3, SessionIs
    <3>5. session # NoSession
      BY <3>4, Constants
    <3> QED
      BY <2>0, <2>1, <3>5
  <2>6. Works(r, Upload(r))
    BY <1>5, <2>3, <2>4, <2>5 DEF PutReserve, Works, Creating
  <2> QED
    BY <2>0, <2>2, <2>3, <2>6 DEF LifeStep
<1>6. ASSUME PutRename(r) PROVE LifeStep(r, Upload(r))
  <2>0. Upload(r) \in Uploads /\ phase = "serve"
    BY <1>6, <1>q, <1>u DEF PutRename
  <2>1. ASSUME NEW p \in Requests \ {r} PROVE SameButLink(req[p], req'[p])
    <3>1. CASE ~SamePart(r, p)
      BY <1>6, <3>1 DEF PutRename, SameButLink
    <3>2. CASE SamePart(r, p)
      <4>1. PICK at : at = CASE req[p].at = "tmp" -> "path" [] req[p].at = "path" -> "gone"
                             [] OTHER -> req[p].at
        OBVIOUS
      <4>2. req'[p] = [req[p] EXCEPT !.at = at]
        BY <1>6, <3>2, <4>1 DEF PutRename
      <4> QED
        BY <4>1, <4>2 DEF SameButLink, RequestStates
    <3> QED
      BY <3>1, <3>2
  <2>2. TouchesOnly(Upload(r)) /\ Untouched(Upload(r))
    BY <1>6 DEF PutRename, TouchesOnly, Untouched
  <2>3. req'[r].pc = "save" /\ req'[r].upload = Upload(r)
    BY <1>6 DEF PutRename, Upload, RequestStates
  <2>4. Works(r, Upload(r))
    BY <1>6, <2>2, <2>3 DEF PutRename, Works, Untouched, Creating
  <2> QED
    BY <1>6, <2>0, <2>1, <2>2, <2>4 DEF PutRename, LifeStep
<1>7. ASSUME PutRenameFails(r) PROVE LifeStep(r, Upload(r))
  <2>0. Upload(r) \in Uploads /\ phase = "serve"
    BY <1>7, <1>q, <1>u DEF PutRenameFails
  <2>1. /\ \A v \in Uploads \ {Upload(r)} : loaded'[v] = loaded[v]
        /\ loaded'[Upload(r)] = NoSession => loaded[Upload(r)] = NoSession
    BY <1>7, <1>b, <1>q, <2>0 DEF PutRenameFails, Counting
  <2>2. TouchesOnly(Upload(r)) /\ issued' = issued /\ rows' = rows /\ phase' = phase
    BY <1>7, <1>d, <2>1 DEF PutRenameFails, TouchesOnly
  <2>3. Works(r, Upload(r))
    BY <1>7, <1>d, <2>1, <2>2 DEF PutRenameFails, Works, Creating
  <2> QED
    BY <1>7, <1>d, <2>0, <2>2, <2>3 DEF PutRenameFails, LifeStep
<1>8. ASSUME PutSave(r) PROVE LifeStep(r, Upload(r))
  <2>0. Upload(r) \in Uploads /\ phase = "serve"
    BY <1>8, <1>q, <1>u DEF PutSave
  <2>1. /\ \A p \in Requests \ {r} : SameButLink(req[p], req'[p])
        /\ req'[r].pc = "idle"
    BY <1>8 DEF PutSave, SameButLink, Idle
  <2>2. TouchesOnly(Upload(r)) /\ issued' = issued /\ loaded' = loaded /\ phase' = phase
    BY <1>8 DEF PutSave, TouchesOnly
  <2>3. Works(r, Upload(r))
    BY <1>8, <2>1, <2>2 DEF PutSave, Works, Creating
  <2> QED
    BY <2>0, <2>1, <2>2, <2>3 DEF LifeStep
<1>9. ASSUME PutSaveFails(r) PROVE LifeStep(r, Upload(r))
  <2>0. Upload(r) \in Uploads /\ phase = "serve"
    BY <1>9, <1>q, <1>u DEF PutSaveFails
  <2>1. /\ \A v \in Uploads \ {Upload(r)} : loaded'[v] = loaded[v]
        /\ loaded'[Upload(r)] = NoSession => loaded[Upload(r)] = NoSession
    BY <1>9, <1>b, <1>q, <2>0 DEF PutSaveFails, Counting
  <2>2. TouchesOnly(Upload(r)) /\ issued' = issued /\ rows' = rows /\ phase' = phase
    BY <1>9, <2>1 DEF PutSaveFails, TouchesOnly
  <2>3. /\ \A p \in Requests \ {r} : SameButLink(req[p], req'[p])
        /\ req'[r].pc = "idle"
    <3>1. req' = [Relinked(r, "path", "gone") EXCEPT ![r] = Idle]
      BY <1>9 DEF PutSaveFails
    <3>2. DOMAIN Relinked(r, "path", "gone") = Requests
      BY DEF Relinked
    <3>3. req'[r] = Idle /\ \A p \in Requests \ {r} : req'[p] = Relinked(r, "path", "gone")[p]
      BY <3>1, <3>2
    <3> QED
      BY <1>l, <3>3 DEF Idle
  <2>4. Works(r, Upload(r))
    BY <1>9, <2>1, <2>2, <2>3 DEF PutSaveFails, Works, Creating
  <2> QED
    BY <2>0, <2>2, <2>3, <2>4 DEF LifeStep
<1> QED
  BY <1>1, <1>2, <1>3, <1>4, <1>5, <1>6, <1>7, <1>8, <1>9, <1>q, <1>u
     DEF PutPartStep, PutCreate, PutSpool, PutDiscard, PutReserve, PutRename, PutRenameFails,
         PutSave, PutSaveFails

\* A step of a complete or of an abort is one in the life of its upload.
LEMMA CompleteIsLife ==
  ASSUME MultipartTypeOK, LifeInv, NEW r \in Requests, CompleteStep(r) \/ AbortStep(r)
  PROVE  \E u \in Uploads : LifeStep(r, u)
<1> USE DEF MultipartTypeOK, tables, disk, history
<1>q. PICK q : q = req[r]
  OBVIOUS
<1>t. q \in RequestStates /\ StepOK(q)
  BY <1>q, StepsAre
<1>u. q.pc # "idle" => Upload(r) \in Uploads /\ phase = "serve"
  BY <1>q, <1>t, FieldsOf, StepsAre DEF StepOK, Upload, LifeOK
<1>1. ASSUME NEW u \in Uploads, Complete(r, u) \/ Abort(r, u)
      PROVE  \E v \in Uploads : LifeStep(r, v)
  BY <1>1, LookIsLife DEF Complete, Abort
<1>2. ASSUME Validate(r) PROVE LifeStep(r, Upload(r))
  <2>0. Upload(r) \in Uploads /\ phase = "serve"
    BY <1>2, <1>q, <1>u DEF Validate
  <2>1. PICK want : req' = [req EXCEPT ![r].pc = "lookup", ![r].then = "open",
                                       ![r].session = NoSession, ![r].want = want]
    BY <1>2 DEF Validate
  <2>2. \A p \in Requests \ {r} : SameButLink(req[p], req'[p])
    BY <2>1 DEF SameButLink
  <2>3. TouchesOnly(Upload(r)) /\ Untouched(Upload(r))
    BY <1>2 DEF Validate, TouchesOnly, Untouched
  <2>4. req'[r].pc = "lookup" /\ req'[r].upload = Upload(r)
    BY <2>1 DEF Upload, RequestStates
  <2>5. Works(r, Upload(r))
    BY <1>2, <2>3, <2>4 DEF Validate, Works, Untouched, Creating
  <2> QED
    BY <1>2, <2>0, <2>2, <2>3, <2>5 DEF Validate, LifeStep
<1>3. ASSUME OpenPart(r) PROVE LifeStep(r, Upload(r))
  <2>0. Upload(r) \in Uploads /\ phase = "serve"
    BY <1>3, <1>q, <1>u DEF OpenPart
  <2>a. PICK n, x : n = Min(Unopened(r)) /\ x = file[Upload(r)][n]
    OBVIOUS
  <2>b. PICK pc, session : /\ pc = IF Unopened(r) = {n} THEN "assembled" ELSE "open"
                           /\ session = IF Unopened(r) = {n} THEN NoSession ELSE req[r].session
    OBVIOUS
  <2>1. /\ pc \in {"assembled", "open"}
        /\ req' = [req EXCEPT ![r].got[n] = x, ![r].pc = pc, ![r].session = session]
    BY <1>3, <2>a, <2>b DEF OpenPart
  <2>2. \A p \in Requests \ {r} : SameButLink(req[p], req'[p])
    BY <2>1 DEF SameButLink
  <2>3. TouchesOnly(Upload(r)) /\ Untouched(Upload(r))
    BY <1>3 DEF OpenPart, TouchesOnly, Untouched
  <2>4. req'[r].pc = pc /\ req'[r].upload = Upload(r)
    BY <2>1 DEF Upload, RequestStates
  <2>5. Works(r, Upload(r))
    BY <1>3, <2>1, <2>3, <2>4 DEF OpenPart, Works, Untouched, Creating
  <2> QED
    BY <1>3, <2>0, <2>2, <2>3, <2>5 DEF OpenPart, LifeStep
<1>4. ASSUME PutObject(r) PROVE LifeStep(r, Upload(r))
  <2>0. Upload(r) \in Uploads /\ phase = "serve"
    BY <1>4, <1>q, <1>u DEF PutObject
  <2>1. \A p \in Requests \ {r} : SameButLink(req[p], req'[p])
    BY <1>4 DEF PutObject, SameButLink
  <2>2. TouchesOnly(Upload(r)) /\ Untouched(Upload(r))
    BY <1>4 DEF PutObject, TouchesOnly, Untouched
  <2>3. req'[r].pc = "lookup" /\ req'[r].upload = Upload(r)
    BY <1>4 DEF PutObject, Idle
  <2>4. Works(r, Upload(r))
    BY <1>4, <2>2, <2>3 DEF PutObject, Works, Untouched, Creating
  <2> QED
    BY <1>4, <2>0, <2>1, <2>2, <2>4 DEF PutObject, LifeStep
<1>5. ASSUME DeleteRow(r) PROVE LifeStep(r, Upload(r))
  <2>0. Upload(r) \in Uploads /\ phase = "serve"
    BY <1>5, <1>q, <1>u DEF DeleteRow
  <2>1. \A p \in Requests \ {r} : SameButLink(req[p], req'[p])
    BY <1>5 DEF DeleteRow, SameButLink
  <2>2. TouchesOnly(Upload(r)) /\ issued' = issued /\ loaded' = loaded /\ phase' = phase
    BY <1>5 DEF DeleteRow, TouchesOnly
  <2>3. req'[r].pc = "unload" /\ req'[r].upload = Upload(r) /\ rows'[Upload(r)] = NoSession
    BY <1>5, <2>0 DEF DeleteRow, Upload, RequestStates
  <2>4. Works(r, Upload(r))
    BY <1>5, <2>2, <2>3 DEF DeleteRow, Works, Creating
  <2> QED
    BY <2>0, <2>1, <2>2, <2>4 DEF LifeStep
<1>6. ASSUME Unload(r) PROVE LifeStep(r, Upload(r))
  <2>0. Upload(r) \in Uploads /\ phase = "serve"
    BY <1>6, <1>q, <1>u DEF Unload
  <2>1. \A p \in Requests \ {r} : SameButLink(req[p], req'[p])
    BY <1>6 DEF Unload, SameButLink
  <2>2. TouchesOnly(Upload(r)) /\ issued' = issued /\ rows' = rows /\ phase' = phase
    BY <1>6 DEF Unload, TouchesOnly
  <2>3. req'[r].pc = "removeall" /\ req'[r].upload = Upload(r)
    BY <1>6 DEF Unload, Upload, RequestStates
  <2>4. Works(r, Upload(r))
    BY <1>6, <2>2, <2>3 DEF Unload, Works, Creating
  <2> QED
    BY <2>0, <2>1, <2>2, <2>4 DEF LifeStep
<1>7. ASSUME RemoveScratch(r) PROVE LifeStep(r, Upload(r))
  <2>0. Upload(r) \in Uploads /\ phase = "serve"
    BY <1>7, <1>q, <1>u DEF RemoveScratch
  <2>1. ASSUME NEW p \in Requests \ {r} PROVE SameButLink(req[p], req'[p])
    <3>1. req'[p] = req[p] \/ (req[p].at # "none" /\ req'[p] = [req[p] EXCEPT !.at = "gone"])
      BY <1>7 DEF RemoveScratch
    <3> QED
      BY <3>1 DEF SameButLink, RequestStates
  <2>2. TouchesOnly(Upload(r)) /\ Untouched(Upload(r))
    BY <1>7 DEF RemoveScratch, ScratchRemoved, TouchesOnly, Untouched
  <2>3. req'[r].pc = "idle"
    BY <1>7 DEF RemoveScratch, Idle
  <2>4. Works(r, Upload(r))
    BY <1>7, <2>2, <2>3 DEF RemoveScratch, Works, Untouched, Creating
  <2> QED
    BY <1>7, <2>0, <2>1, <2>2, <2>4 DEF RemoveScratch, LifeStep
<1> QED
  BY <1>1, <1>2, <1>3, <1>4, <1>5, <1>6, <1>7, <1>q, <1>u
     DEF CompleteStep, AbortStep, Validate, OpenPart, PutObject, DeleteRow, Unload, RemoveScratch

RequestStep(r) ==
  CreateStep(r) \/ SessionStep(r) \/ PutPartStep(r) \/ CompleteStep(r) \/ AbortStep(r) \/ Fail(r)

\* Every step of a request is one in the life of one upload.
LEMMA StepIsLife ==
  ASSUME MultipartTypeOK, LifeInv, NEW r \in Requests, RequestStep(r)
  PROVE  \E u \in Uploads : LifeStep(r, u)
BY CreateIsLife, LookIsLife, PutPartIsLife, CompleteIsLife DEF RequestStep

\* Moving the entry of a file a request holds leaves the request where it is.
LEMMA LinkKeepsStep ==
  ASSUME NEW p, NEW q, SameButLink(p, q), StepOK(p)
  PROVE  StepOK(q)
BY DEF SameButLink, StepOK

\* A request that is over is one that may begin.
LEMMA IdleIsStep == StepOK(Idle)
BY DEF StepOK, Idle, Creating, Sending, Looking

\* A request has the fields its next step reads.
LEMMA StepKept ==
  ASSUME MultipartTypeOK, LifeInv, NEW r \in Requests, RequestStep(r)
  PROVE  StepOK(req'[r])
<1> USE DEF MultipartTypeOK, tables, disk, history, Creating, Sending, Looking
<1>q. PICK q : q = req[r]
  OBVIOUS
<1>t. q \in RequestStates /\ StepOK(q) /\ LifeOK(r)
  BY <1>q, StepsAre
<1>u. q.pc # "idle" => Upload(r) \in Uploads
  BY <1>q, <1>t, FieldsOf DEF StepOK, Upload
<1>i. req'[r] = Idle => StepOK(req'[r])
  BY IdleIsStep
<1>b. ASSUME NEW then \in {"create", "validate", "deleterow"}, NEW u \in Uploads,
             NEW n \in Numbers \cup {0}, NEW body \in Bodies \cup {NoPart}, Begin(r, then, u, n, body),
             then = "create" => n \in Numbers /\ body \in Bodies
      PROVE  StepOK(req'[r])
  <2>1. req'[r] = [Idle EXCEPT !.pc = "lookup", !.then = then, !.upload = u, !.number = n,
                               !.body = body]
    BY <1>b DEF Begin
  <2>2. /\ req'[r].pc = "lookup" /\ req'[r].then = then /\ req'[r].upload = u
        /\ req'[r].number = n /\ req'[r].body = body /\ req'[r].got = NoFiles
        /\ req'[r].at = "none"
    BY <2>1 DEF Idle
  <2> QED
    BY <1>b, <2>2, Constants DEF StepOK
<1>a. ASSUME NEW session \in Sessions, q.pc \in Looking, req'[r] = Answer(q, session)
      PROVE  StepOK(req'[r])
  <2>1. PICK kept : kept = IF q.then \in {"validate", "open"} THEN session ELSE NoSession
    OBVIOUS
  <2>2. PICK pc : pc = q.then
    OBVIOUS
  <2>3. req'[r] = [q EXCEPT !.pc = pc, !.session = kept]
    BY <1>a, <2>1, <2>2 DEF Answer
  <2>4. /\ req'[r].pc = pc /\ req'[r].session = kept /\ req'[r].then = q.then
        /\ req'[r].upload = q.upload /\ req'[r].number = q.number /\ req'[r].body = q.body
        /\ req'[r].want = q.want /\ req'[r].got = q.got /\ req'[r].at = q.at
    BY <1>t, <2>3 DEF RequestStates
  <2>5. pc \in {"create", "validate", "open", "deleterow"}
    BY <1>a, <1>t, <2>2 DEF StepOK, RequestStates
  <2>6. pc \in {"validate", "open"} => kept # NoSession
    BY <2>1, <2>2, Constants
  <2>7. q.then = "open" =>
          ~(\A n \in Numbers : q.want[n] # NoPart => q.got[n] # NoFile)
    BY <1>a, <1>t DEF StepOK
  <2> QED
    BY <1>a, <1>t, <2>2, <2>4, <2>5, <2>6, <2>7 DEF StepOK
<1>1. ASSUME CreateStep(r) PROVE StepOK(req'[r])
  <2>1. ASSUME NEW u \in Uploads, NEW expected \in ExpectedSizes, CreateBegin(r, u, expected)
        PROVE  StepOK(req'[r])
    <3>1. req'[r] = [Idle EXCEPT !.pc = "insertrow", !.upload = u, !.total = expected]
      BY <2>1 DEF CreateBegin
    <3>2. /\ req'[r].pc = "insertrow" /\ req'[r].upload = u /\ req'[r].then = "none"
          /\ req'[r].at = "none"
      BY <3>1 DEF Idle
    <3> QED
      BY <3>2, Constants DEF StepOK
  <2>2. ASSUME CreateRow(r) PROVE StepOK(req'[r])
    <3>1. req'[r] = [q EXCEPT !.pc = "publish"] /\ q.pc = "insertrow"
      BY <1>q, <2>2 DEF CreateRow
    <3>2. req'[r].pc = "publish" /\ req'[r].upload = q.upload /\ req'[r].then = q.then
      BY <1>t, <3>1 DEF RequestStates
    <3> QED
      BY <1>t, <3>1, <3>2 DEF StepOK
  <2> QED
    BY <1>1, <1>i, <2>1, <2>2 DEF CreateStep, CreateRowFails, CreatePublish
<1>2. ASSUME SessionStep(r) PROVE StepOK(req'[r])
  <2>1. ASSUME SessionFound(r) PROVE StepOK(req'[r])
    <3>1. loaded[Upload(r)] \in Sessions /\ req'[r] = Answer(q, loaded[Upload(r)]) /\ q.pc \in Looking
      BY <2>1, <1>q, <1>u DEF SessionFound
    <3> QED
      BY <1>a, <3>1
  <2>2. ASSUME SessionRead(r) PROVE StepOK(req'[r])
    <3>1. PICK row : row = rows[Upload(r)]
      OBVIOUS
    <3>2. req'[r] = [q EXCEPT !.pc = "insert", !.session = row] /\ q.pc = "lookup" /\ row # NoSession
      BY <1>q, <2>2, <3>1 DEF SessionRead
    <3>3. /\ req'[r].pc = "insert" /\ req'[r].session = row /\ req'[r].then = q.then
          /\ req'[r].upload = q.upload /\ req'[r].number = q.number /\ req'[r].body = q.body
          /\ req'[r].want = q.want /\ req'[r].got = q.got
      BY <1>t, <3>2 DEF RequestStates
    <3> QED
      BY <1>t, <3>2, <3>3 DEF StepOK
  <2>3. ASSUME SessionInsert(r) PROVE StepOK(req'[r])
    <3>1. PICK session : session = IF loaded[Upload(r)] # NoSession THEN loaded[Upload(r)]
                                   ELSE req[r].session
      OBVIOUS
    <3>2. session \in Sessions
      BY <2>3, <1>q, <1>t, <1>u, <3>1, FieldsOf DEF SessionInsert, StepOK
    <3>3. req'[r] = Answer(q, session) /\ q.pc \in Looking
      BY <2>3, <1>q, <3>1 DEF SessionInsert
    <3> QED
      BY <1>a, <3>2, <3>3
  <2> QED
    BY <1>2, <2>1, <2>2, <2>3 DEF SessionStep
<1>3. ASSUME PutPartStep(r) PROVE StepOK(req'[r])
  <2>1. ASSUME NEW u \in Uploads, NEW part \in Sent, PutPart(r, u, part[1], part[2])
        PROVE  StepOK(req'[r])
    <3>1. part[1] \in Numbers /\ part[2] \in Bodies
      BY Constants
    <3> QED
      BY <1>b, <2>1, <3>1 DEF PutPart
  <2>2. ASSUME PutCreate(r) PROVE StepOK(req'[r])
    <3>1. PICK torn : torn = (Writers(r) # {})
      OBVIOUS
    <3>2. req'[r] = [q EXCEPT !.pc = "spool", !.at = "tmp", !.torn = torn] /\ q.pc = "create"
      BY <1>q, <2>2, <3>1 DEF PutCreate
    <3>3. /\ req'[r].pc = "spool" /\ req'[r].then = q.then /\ req'[r].upload = q.upload
          /\ req'[r].number = q.number /\ req'[r].body = q.body
      BY <1>t, <3>2 DEF RequestStates
    <3> QED
      BY <1>t, <3>2, <3>3 DEF StepOK
  <2>3. ASSUME PutSpool(r) PROVE StepOK(req'[r])
    <3>1. req'[r] = [q EXCEPT !.pc = "reserve", !.at = "none", !.torn = FALSE] /\ q.pc = "spool"
      BY <1>q, <2>3 DEF PutSpool
    <3>2. /\ req'[r].pc = "reserve" /\ req'[r].then = q.then /\ req'[r].upload = q.upload
          /\ req'[r].number = q.number /\ req'[r].body = q.body
      BY <1>t, <3>1 DEF RequestStates
    <3> QED
      BY <1>t, <3>1, <3>2 DEF StepOK
  <2>4. ASSUME PutReserve(r) PROVE StepOK(req'[r])
    <3>1. PICK s, parts, t, d :
            /\ s = loaded[Upload(r)] /\ parts = [s.parts EXCEPT ![Number(r)] = q.body]
            /\ t = Total(parts) /\ d = t - s.reserved
      OBVIOUS
    <3>2. PICK p, b : p = s.parts[Number(r)] /\ b = s.reserved
      OBVIOUS
    <3>3. /\ req'[r] = [q EXCEPT !.pc = "rename", !.delta = d, !.total = t, !.previous = p,
                                 !.before = b]
          /\ q.pc = "reserve"
      BY <1>q, <2>4, <3>1, <3>2 DEF PutReserve
    <3>4. /\ req'[r].pc = "rename" /\ req'[r].then = q.then /\ req'[r].upload = q.upload
          /\ req'[r].number = q.number /\ req'[r].body = q.body
      BY <1>t, <3>3 DEF RequestStates
    <3> QED
      BY <1>t, <3>3, <3>4 DEF StepOK
  <2>5. ASSUME PutRename(r) PROVE StepOK(req'[r])
    <3>1. req'[r] = [q EXCEPT !.pc = "save"] /\ q.pc = "rename"
      BY <1>q, <2>5 DEF PutRename
    <3>2. /\ req'[r].pc = "save" /\ req'[r].then = q.then /\ req'[r].upload = q.upload
          /\ req'[r].number = q.number /\ req'[r].body = q.body
      BY <1>t, <3>1 DEF RequestStates
    <3> QED
      BY <1>t, <3>1, <3>2 DEF StepOK
  <2>6. \A from, to : r \in DOMAIN Relinked(r, from, to)
    BY DEF Relinked
  <2> QED
    BY <1>3, <1>i, <2>1, <2>2, <2>3, <2>4, <2>5, <2>6
       DEF PutPartStep, PutDiscard, PutRenameFails, PutSave, PutSaveFails, SpoolRemoved
<1>4. ASSUME CompleteStep(r) PROVE StepOK(req'[r])
  <2>1. ASSUME NEW u \in Uploads, Complete(r, u) PROVE StepOK(req'[r])
    BY <1>b, <2>1 DEF Complete
  <2>2. ASSUME Validate(r) PROVE StepOK(req'[r])
    <3>1. PICK chosen \in (SUBSET Numbers) \ {{}} :
            /\ \A n \in chosen : req[r].session.parts[n] # NoPart
            /\ req' = [req EXCEPT ![r].pc = "lookup", ![r].then = "open", ![r].session = NoSession,
                         ![r].want = [n \in Numbers |-> IF n \in chosen
                                                        THEN req[r].session.parts[n] ELSE NoPart]]
      BY <2>2 DEF Validate
    <3>2. PICK want : want = [n \in Numbers |-> IF n \in chosen THEN q.session.parts[n] ELSE NoPart]
      OBVIOUS
    <3>3. req'[r] = [q EXCEPT !.pc = "lookup", !.then = "open", !.session = NoSession, !.want = want]
      BY <1>q, <3>1, <3>2
    <3>4. /\ req'[r].pc = "lookup" /\ req'[r].then = "open" /\ req'[r].upload = q.upload
          /\ req'[r].want = want /\ req'[r].got = q.got /\ req'[r].at = q.at
      BY <1>t, <3>3 DEF RequestStates
    <3>5. q.pc = "validate" /\ q.got = NoFiles
      BY <1>q, <1>t, <2>2 DEF Validate, StepOK
    <3>6. PICK n \in chosen : want[n] # NoPart
      BY <1>q, <3>1, <3>2
    <3>7. ~(\A m \in Numbers : want[m] # NoPart => req'[r].got[m] # NoFile)
      BY <3>4, <3>5, <3>6 DEF NoFiles
    <3> QED
      BY <1>t, <3>4, <3>5, <3>7 DEF StepOK
  <2>3. ASSUME OpenPart(r) PROVE StepOK(req'[r])
    <3>a. PICK n, x : n = Min(Unopened(r)) /\ x = file[Upload(r)][n]
      OBVIOUS
    <3>b. PICK pc, session : /\ pc = IF Unopened(r) = {n} THEN "assembled" ELSE "open"
                             /\ session = IF Unopened(r) = {n} THEN NoSession ELSE q.session
      OBVIOUS
    <3>c. PICK got : got = [q.got EXCEPT ![n] = x]
      OBVIOUS
    <3>1. /\ req'[r] = [q EXCEPT !.got = got, !.pc = pc, !.session = session]
          /\ q.pc = "open" /\ x # NoFile
      BY <1>q, <2>3, <3>a, <3>b, <3>c DEF OpenPart
    <3>2. /\ req'[r].pc = pc /\ req'[r].then = q.then /\ req'[r].upload = q.upload
          /\ req'[r].want = q.want /\ req'[r].got = got /\ req'[r].session = session
      BY <1>t, <3>1 DEF RequestStates
    <3>3. n \in Unopened(r) /\ Unopened(r) = {m \in Numbers : q.want[m] # NoPart /\ q.got[m] = NoFile}
      BY <1>q, <1>t, <3>1, <3>a, MinIsUnopened DEF Unopened
    <3>4. DOMAIN q.got = Numbers
      BY <1>t, FieldsOf
    <3>5. \A m \in Numbers : got[m] = IF m = n THEN x ELSE q.got[m]
      BY <3>c, <3>4
    <3>6. Unopened(r) = {n} <=> \A m \in Numbers : q.want[m] # NoPart => got[m] # NoFile
      BY ZenonT(40), <3>1, <3>3, <3>5
    <3>7. q.then = "open" /\ q.session # NoSession
      BY <1>t, <3>1 DEF StepOK
    <3>8. pc \in {"assembled", "open"} /\ (pc = "assembled" <=> Unopened(r) = {n})
          /\ (pc = "open" => session # NoSession)
      BY <3>b, <3>7
    <3> QED
      BY <1>t, <3>1, <3>2, <3>6, <3>7, <3>8 DEF StepOK
  <2>4. ASSUME PutObject(r) PROVE StepOK(req'[r])
    <3>1. req'[r] = [Idle EXCEPT !.pc = "lookup", !.then = "deleterow", !.upload = Upload(r)]
          /\ q.pc = "assembled"
      BY <1>q, <2>4 DEF PutObject
    <3>2. /\ req'[r].pc = "lookup" /\ req'[r].then = "deleterow" /\ req'[r].upload = Upload(r)
          /\ req'[r].at = "none"
      BY <3>1 DEF Idle
    <3> QED
      BY <1>u, <3>1, <3>2, Constants DEF StepOK
  <2> QED
    BY <1>4, <2>1, <2>2, <2>3, <2>4 DEF CompleteStep
<1>5. ASSUME AbortStep(r) \/ Fail(r) PROVE StepOK(req'[r])
  <2>1. ASSUME NEW u \in Uploads, Abort(r, u) PROVE StepOK(req'[r])
    BY <1>b, <2>1 DEF Abort
  <2>2. ASSUME DeleteRow(r) PROVE StepOK(req'[r])
    <3>1. req'[r] = [q EXCEPT !.pc = "unload"] /\ q.pc = "deleterow"
      BY <1>q, <2>2 DEF DeleteRow
    <3>2. req'[r].pc = "unload" /\ req'[r].upload = q.upload /\ req'[r].then = q.then
      BY <1>t, <3>1 DEF RequestStates
    <3> QED
      BY <1>t, <3>1, <3>2 DEF StepOK
  <2>3. ASSUME Unload(r) PROVE StepOK(req'[r])
    <3>1. req'[r] = [q EXCEPT !.pc = "removeall"] /\ q.pc = "unload"
      BY <1>q, <2>3 DEF Unload
    <3>2. req'[r].pc = "removeall" /\ req'[r].upload = q.upload /\ req'[r].then = q.then
      BY <1>t, <3>1 DEF RequestStates
    <3> QED
      BY <1>t, <3>1, <3>2 DEF StepOK
  <2> QED
    BY <1>5, <1>i, <2>1, <2>2, <2>3 DEF AbortStep, RemoveScratch, Fail
<1> QED
  BY <1>1, <1>2, <1>3, <1>4, <1>5 DEF RequestStep

\* No upload is issued at first.
LEMMA LifeInit == MultipartInit => LifeInv
BY IdleIsStep, Constants DEF MultipartInit, LifeInv, LifeOK, UploadOK, Idle, Creating, Upload

\* A step in the life of one upload keeps the life of every upload.
LEMMA LifeKept ==
  ASSUME MultipartTypeOK, MultipartTypeOK', LifeInv, NEW r \in Requests, NEW u \in Uploads,
         LifeStep(r, u), StepOK(req'[r])
  PROVE  LifeInv'
<1> USE DEF MultipartTypeOK
<1>a. \A p \in Requests \ {r} : SameButLink(req[p], req'[p])
  BY DEF LifeStep
<1>b. TouchesOnly(u) /\ phase = "serve" /\ phase' = "serve"
  BY DEF LifeStep
<1>c. \A p \in Requests : StepOK(req[p]) /\ LifeOK(p)
  BY StepsAre
<1>d. \A v \in Uploads : UploadOK(v)
  BY DEF LifeInv
<1>e. \A p \in Requests \ {r} : /\ req'[p].pc = req[p].pc /\ req'[p].total = req[p].total
                                /\ req'[p].upload = Upload(p)
  BY <1>a DEF SameButLink, Upload
<1>f. \A v \in Uploads \ {u} : issued'[v] = issued[v] /\ loaded'[v] = loaded[v] /\ rows'[v] = rows[v]
  BY <1>b DEF TouchesOnly
<1>g. \A p \in Requests : /\ req[p].pc = "idle" <=> Upload(p) = NoSession
                          /\ req[p].pc # "idle" => Upload(p) \in Uploads
  BY <1>c, FieldsOf DEF StepOK, Upload
<1>h. \A p \in Requests \ {r} : Upload(p) # u \/ req[p].pc \notin Creating \/ Draws(r, u) \/ Begins(r, u)
  BY <1>c DEF LifeStep, Inserts, GivesUp, Publishes, Works, LifeOK
<1>j. req'[r].pc = "idle" \/ req'[r].upload = u
  BY DEF LifeStep, Draws, Inserts, GivesUp, Publishes, Begins, Works, Idle
<1>k. req[r].pc = "idle" \/ Upload(r) = u
  BY DEF LifeStep, Draws, Inserts, GivesUp, Publishes, Begins, Works
<1>l. req'[r].pc = "idle" <=> req'[r].upload = NoSession
  BY DEF StepOK
<1>s. /\ issued[u] = "answered" => issued'[u] = "answered"
      /\ issued'[u] # "new"
      /\ issued[u] = "answered" /\ rows[u] = NoSession => rows'[u] = NoSession
  BY <1>c DEF LifeStep, Draws, Inserts, GivesUp, Publishes, Begins, Works, Untouched, LifeOK, Creating
<1>1. ASSUME NEW p \in Requests \ {r} PROVE LifeOK(p)'
  <2>1. ASSUME req[p].pc \in Creating
        PROVE  /\ Upload(p) \in Own /\ issued'[Upload(p)] = "drawn"
               /\ loaded'[Upload(p)] = NoSession
               /\ rows'[Upload(p)] =
                    IF req[p].pc = "publish" THEN Session(req[p].total, NoParts) ELSE NoSession
               /\ \A q \in Requests \ {p} : req'[q].upload # Upload(p)
    <3>1. /\ Upload(p) \in Own /\ issued[Upload(p)] = "drawn"
          /\ \A q \in Requests \ {p} : Upload(q) # Upload(p)
      BY <1>c, <2>1 DEF LifeOK
    <3>2. Upload(p) # u
      BY <1>h, <2>1, <3>1 DEF Draws, Begins
    <3>3. req'[r].upload # Upload(p)
      BY <1>j, <1>l, <3>1, <3>2, Constants DEF Own
    <3> QED
      BY <1>c, <1>e, <1>f, <2>1, <3>1, <3>2, <3>3 DEF LifeOK, Own
  <2>2. req[p].pc \notin {"idle"} \cup Creating => issued'[Upload(p)] = "answered"
    BY <1>c, <1>f, <1>g, <1>s DEF LifeOK
  <2>3. req[p].pc \in {"unload", "removeall"} /\ Upload(p) \in Own => rows'[Upload(p)] = NoSession
    BY <1>c, <1>f, <1>g, <1>s DEF LifeOK, Creating
  <2>4. req[p].pc = "insert" => Upload(p) \in Foreign
    BY <1>c DEF LifeOK
  <2> QED
    BY <1>b, <1>e, <2>1, <2>2, <2>3, <2>4 DEF LifeOK, Upload
<1>w. ASSUME Works(r, u), u \in Own
      PROVE  ~(rows[u] # NoSession /\ loaded[u] = NoSession)
  <2>1. ASSUME rows[u] # NoSession, loaded[u] = NoSession PROVE FALSE
    <3>1. PICK p \in Requests : Upload(p) = u /\ req[p].pc = "publish"
      BY <1>b, <1>d, <1>w, <2>1 DEF UploadOK
    <3>2. p # r /\ Upload(r) = u
      BY <1>w, <3>1 DEF Works, Creating
    <3> QED
      BY <1>c, <3>1, <3>2 DEF LifeOK, Creating
  <2> QED
    BY <2>1
<1>2. LifeOK(r)'
  <2>1. CASE Draws(r, u)
    <3>1. loaded'[u] = NoSession /\ rows'[u] = NoSession /\ issued'[u] = "drawn" /\ u \in Own
      BY <1>d, <2>1 DEF Draws, UploadOK
    <3>2. ASSUME NEW q \in Requests \ {r}, Upload(q) = u PROVE FALSE
      <4>1. issued[Upload(q)] = "new"
        BY <2>1, <3>2 DEF Draws
      <4>2. req[q].pc # "idle"
        BY <1>g, <3>2, Constants
      <4> QED
        BY <1>c, <4>1, <4>2 DEF LifeOK
    <3> QED
      BY <1>b, <1>e, <2>1, <3>1, <3>2 DEF Draws, LifeOK, Upload, Creating
  <2>2. CASE Inserts(r, u)
    <3>1. /\ loaded[u] = NoSession /\ issued[u] = "drawn" /\ u \in Own
          /\ \A q \in Requests \ {r} : Upload(q) # u
      BY <1>c, <2>2 DEF Inserts, LifeOK, Creating
    <3> QED
      BY <1>b, <1>e, <2>2, <3>1 DEF Inserts, LifeOK, Upload, Creating
  <2>3. CASE GivesUp(r, u) \/ Publishes(r, u)
    BY <2>3 DEF GivesUp, Publishes, LifeOK, Upload, Creating, Idle
  <2>4. CASE Begins(r, u)
    BY <1>b, <1>s, <2>4 DEF Begins, LifeOK, Upload, Creating
  <2>5. CASE Works(r, u)
    <3>1. issued[u] = "answered"
      BY <1>c, <2>5 DEF Works, LifeOK
    <3>2. ASSUME req'[r].pc = "removeall", u \in Own PROVE rows'[u] = NoSession
      BY <1>c, <2>5, <3>2 DEF Works, LifeOK
    <3>3. req'[r].pc = "insert" => u \in Foreign
      BY <1>w, <2>5 DEF Works, Own
    <3> QED
      BY <1>b, <1>j, <1>s, <2>5, <3>1, <3>2, <3>3 DEF Works, LifeOK, Upload, Creating
  <2> QED
    BY <2>1, <2>2, <2>3, <2>4, <2>5 DEF LifeStep
<1>3. ASSUME NEW v \in Uploads \ {u} PROVE UploadOK(v)'
  <2>1. ASSUME v \in Own, rows[v] # NoSession, loaded[v] = NoSession
        PROVE  \E p \in Requests : req'[p].upload = v /\ req'[p].pc = "publish"
    <3>1. PICK p \in Requests : Upload(p) = v /\ req[p].pc = "publish"
      BY <1>b, <1>d, <2>1 DEF UploadOK
    <3>2. p # r
      BY <1>k, <3>1
    <3> QED
      BY <1>e, <3>1, <3>2
  <2>2. issued[v] = "new" => loaded[v] = NoSession /\ rows[v] = NoSession
    BY <1>d DEF UploadOK
  <2> QED
    BY <1>b, <1>f, <2>1, <2>2 DEF UploadOK, Upload
<1>4. UploadOK(u)'
  <2>1. ASSUME u \in Own, rows'[u] # NoSession, loaded'[u] = NoSession
        PROVE  \E p \in Requests : req'[p].upload = u /\ req'[p].pc = "publish"
    <3>1. CASE Draws(r, u)
      BY <1>d, <2>1, <3>1 DEF Draws, UploadOK
    <3>2. CASE Inserts(r, u)
      BY <3>2 DEF Inserts
    <3>3. CASE GivesUp(r, u)
      BY <1>c, <2>1, <3>3 DEF GivesUp, Untouched, LifeOK, Creating
    <3>4. CASE Publishes(r, u)
      <4>1. Session(req[r].total, NoParts) # NoSession
        BY FieldsOf, SessionIs, Constants
      <4> QED
        BY <2>1, <3>4, <4>1 DEF Publishes
    <3>5. CASE Begins(r, u)
      <4>1. PICK p \in Requests : Upload(p) = u /\ req[p].pc = "publish"
        BY <1>b, <1>d, <2>1, <3>5 DEF UploadOK, Begins, Untouched
      <4>2. p # r
        BY <3>5, <4>1 DEF Begins
      <4> QED
        BY <1>e, <4>1, <4>2
    <3>6. CASE Works(r, u)
      <4>1. rows[u] # NoSession
        BY <2>1, <3>6 DEF Works
      <4>2. req[r].pc # "unload"
        BY <1>c, <2>1, <3>6, <4>1 DEF Works, LifeOK
      <4> QED
        BY <1>w, <2>1, <3>6, <4>1, <4>2 DEF Works
    <3> QED
      BY <3>1, <3>2, <3>3, <3>4, <3>5, <3>6 DEF LifeStep
  <2> QED
    BY <1>b, <1>s, <2>1 DEF UploadOK, Upload
<1>5. \A p \in Requests \ {r} : StepOK(req'[p])
  BY <1>a, <1>c, LinkKeepsStep
<1> QED
  BY <1>1, <1>2, <1>3, <1>4, <1>5 DEF LifeInv

\* A crash, a restart and the other gateways keep it.
LEMMA LifeElsewhere ==
  ASSUME MultipartTypeOK, LifeInv, Crash \/ Restart \/ Elsewhere
  PROVE  LifeInv'
<1> USE DEF MultipartTypeOK, tables, disk, history, Creating
<1>c. \A p \in Requests : StepOK(req[p]) /\ LifeOK(p)
  BY StepsAre
<1>d. \A v \in Uploads : UploadOK(v)
  BY DEF LifeInv
<1>i. phase # "serve" => \A p \in Requests : req[p].pc = "idle"
  BY <1>c DEF LifeOK
<1>1. ASSUME Crash PROVE LifeInv'
  <2>1. \A p \in Requests : StepOK(req'[p]) /\ LifeOK(p)'
    BY <1>1, IdleIsStep DEF Crash, LifeOK, Idle
  <2>2. \A v \in Uploads : UploadOK(v)'
    BY <1>1, <1>d DEF Crash, UploadOK
  <2> QED
    BY <2>1, <2>2 DEF LifeInv
<1>2. ASSUME Restart PROVE LifeInv'
  <2>0. phase # "serve" /\ req' = req
    BY <1>2 DEF Restart, CleanupStale, LoadActive, StartLoading, StartServing
  <2>1. \A p \in Requests : StepOK(req'[p]) /\ LifeOK(p)'
    BY <1>c, <1>i, <2>0 DEF LifeOK
  <2>2. ASSUME NEW v \in Uploads PROVE UploadOK(v)'
    <3>1. ASSUME NEW u \in Uploads, CleanupStale(u) PROVE UploadOK(v)'
      BY <1>d, <3>1 DEF CleanupStale, UploadOK
    <3>2. ASSUME NEW u \in Uploads, LoadActive(u) PROVE UploadOK(v)'
      BY <1>d, <3>2 DEF LoadActive, Unloaded, UploadOK
    <3>3. ASSUME StartLoading PROVE UploadOK(v)'
      BY <1>d, <3>3 DEF StartLoading, UploadOK
    <3>4. ASSUME StartServing PROVE UploadOK(v)'
      BY <1>d, <3>4 DEF StartServing, Unloaded, UploadOK
    <3> QED
      BY <1>2, <3>1, <3>2, <3>3, <3>4 DEF Restart
  <2> QED
    BY <2>1, <2>2 DEF LifeInv
<1>3. ASSUME Elsewhere PROVE LifeInv'
  <2>1. PICK u \in Uploads :
          /\ u \in Foreign
          /\ \A v \in Uploads \ {u} : issued'[v] = issued[v] /\ rows'[v] = rows[v]
          /\ issued'[u] = issued[u] \/ (issued[u] = "new" /\ issued'[u] = "answered")
          /\ rows'[u] # NoSession => rows[u] # NoSession \/ issued'[u] = "answered"
          /\ loaded' = loaded /\ req' = req /\ phase' = phase
    <3>1. ASSUME NEW u \in Uploads, NEW expected \in ExpectedSizes, CreateElsewhere(u, expected)
          PROVE  /\ u \in Foreign
                 /\ \A v \in Uploads \ {u} : issued'[v] = issued[v] /\ rows'[v] = rows[v]
                 /\ issued[u] = "new" /\ issued'[u] = "answered"
                 /\ loaded' = loaded /\ req' = req /\ phase' = phase
      BY <3>1 DEF CreateElsewhere
    <3>2. ASSUME NEW u \in Uploads, NEW part \in Sent, SaveElsewhere(u, part[1], part[2])
          PROVE  /\ u \in Foreign /\ rows[u] # NoSession
                 /\ \A v \in Uploads \ {u} : issued'[v] = issued[v] /\ rows'[v] = rows[v]
                 /\ issued'[u] = issued[u]
                 /\ loaded' = loaded /\ req' = req /\ phase' = phase
      BY <3>2 DEF SaveElsewhere
    <3>3. ASSUME NEW u \in Uploads, EndElsewhere(u)
          PROVE  /\ u \in Foreign /\ rows[u] # NoSession
                 /\ \A v \in Uploads \ {u} : issued'[v] = issued[v] /\ rows'[v] = rows[v]
                 /\ issued'[u] = issued[u]
                 /\ loaded' = loaded /\ req' = req /\ phase' = phase
      BY <3>3 DEF EndElsewhere
    <3>4. PICK u \in Uploads :
            \/ \E expected \in ExpectedSizes : CreateElsewhere(u, expected)
            \/ \E part \in Sent : SaveElsewhere(u, part[1], part[2])
            \/ EndElsewhere(u)
      BY <1>3 DEF Elsewhere
    <3>5. CASE \E expected \in ExpectedSizes : CreateElsewhere(u, expected)
      BY <3>1, <3>5
    <3>6. CASE \E part \in Sent : SaveElsewhere(u, part[1], part[2])
      BY <3>2, <3>6
    <3>7. CASE EndElsewhere(u)
      BY <3>3, <3>7
    <3> QED
      BY <3>4, <3>5, <3>6, <3>7
  <2>2. ASSUME NEW p \in Requests PROVE StepOK(req'[p]) /\ LifeOK(p)'
    <3>1. req[p].pc # "idle" => Upload(p) \in Uploads
      BY <1>c, FieldsOf DEF StepOK, Upload
    <3>2. req[p].pc \notin {"idle"} \cup Creating => issued'[Upload(p)] = "answered"
      BY <1>c, <2>1, <3>1 DEF LifeOK
    <3>3. Upload(p) \in Own => issued'[Upload(p)] = issued[Upload(p)] /\ rows'[Upload(p)] = rows[Upload(p)]
      BY <2>1 DEF Own
    <3> QED
      BY <1>c, <2>1, <3>2, <3>3 DEF LifeOK, Upload
  <2>3. ASSUME NEW v \in Uploads PROVE UploadOK(v)'
    BY <1>d, <2>1 DEF UploadOK, Own, Upload
  <2> QED
    BY <2>2, <2>3 DEF LifeInv
<1> QED
  BY <1>1, <1>2, <1>3

Lives == MultipartTypeOK /\ LifeInv

\* Every step keeps the types and the life of every upload.
LEMMA LifeNext == Lives /\ [MultipartNext]_multipartVars => Lives'
<1> SUFFICES ASSUME MultipartTypeOK, LifeInv, [MultipartNext]_multipartVars PROVE MultipartTypeOK' /\ LifeInv'
  BY DEF Lives
<1>t. MultipartTypeOK'
  BY TypeNext
<1>1. ASSUME NEW r \in Requests, RequestStep(r) PROVE LifeInv'
  BY <1>t, <1>1, StepIsLife, StepKept, LifeKept
<1>2. CASE UNCHANGED multipartVars
  <2>1. phase' = phase /\ issued' = issued /\ loaded' = loaded /\ rows' = rows /\ req' = req
    BY <1>2 DEF multipartVars, tables
  <2>2. \A p \in Requests : LifeOK(p)'
    BY <2>1 DEF LifeInv, LifeOK, Upload
  <2>3. \A u \in Uploads : UploadOK(u)'
    BY <2>1 DEF LifeInv, UploadOK, Upload
  <2> QED
    BY <1>t, <2>1, <2>2, <2>3 DEF LifeInv
<1>3. MultipartNext => (\E r \in Requests : RequestStep(r)) \/ Crash \/ Restart \/ Elsewhere
  BY DEF MultipartNext, RequestStep
<1> QED
  BY <1>t, <1>1, <1>2, <1>3, LifeElsewhere

\* In every reachable state the types hold, and every request is at a step of a live upload.
LEMMA LivesAlways == MultipartSpec => []Lives
<1>1. MultipartInit => Lives
  BY TypeInit, LifeInit DEF Lives
<1> QED
  BY <1>1, LifeNext, PTL DEF MultipartSpec

-----------------------------------------------------------------------------
(* Memory and rows. *)

\* Only PutReserve and PutRename leave a request inside a reservation.
LEMMA WhoCounts ==
  ASSUME MultipartTypeOK, LifeInv, NEW r \in Requests, RequestStep(r),
         ~PutReserve(r), ~PutRename(r)
  PROVE  req'[r].pc \notin Counting
<1> USE DEF MultipartTypeOK, Counting
<1>q. PICK q : q = req[r]
  OBVIOUS
<1>t. q \in RequestStates /\ StepOK(q)
  BY <1>q, StepsAre
<1>a. ASSUME NEW session, q.pc \in Looking, req'[r] = Answer(q, session)
      PROVE  req'[r].pc \notin Counting
  <2>1. PICK kept, pc : pc = q.then /\ kept = IF q.then \in {"validate", "open"} THEN session ELSE NoSession
    OBVIOUS
  <2>2. req'[r] = [q EXCEPT !.pc = pc, !.session = kept]
    BY <1>a, <2>1 DEF Answer
  <2>3. pc \notin Counting
    BY <1>t, <2>1 DEF RequestStates
  <2> QED
    BY <1>t, <2>2, <2>3 DEF RequestStates
<1>b. ASSUME NEW then, NEW u, NEW n, NEW body, Begin(r, then, u, n, body)
      PROVE  req'[r].pc \notin Counting
  BY <1>b DEF Begin, Idle
<1>i. Idle.pc = "idle"
  BY DEF Idle
<1>1. CASE CreateStep(r)
  <2>1. ASSUME NEW u, NEW expected, CreateBegin(r, u, expected) PROVE req'[r].pc \notin Counting
    BY <2>1 DEF CreateBegin, Idle
  <2>2. CreateRow(r) => req'[r].pc = "publish"
    BY DEF CreateRow, RequestStates
  <2> QED
    BY <1>1, <1>i, <2>1, <2>2 DEF CreateStep, CreateRowFails, CreatePublish
<1>2. CASE SessionStep(r)
  <2>1. ASSUME SessionFound(r) PROVE req'[r].pc \notin Counting
    BY <2>1, <1>a, <1>q DEF SessionFound, Looking
  <2>2. SessionRead(r) => req'[r].pc = "insert"
    BY DEF SessionRead, RequestStates
  <2>3. ASSUME SessionInsert(r) PROVE req'[r].pc \notin Counting
    <3>1. PICK session : session = IF loaded[Upload(r)] # NoSession THEN loaded[Upload(r)]
                                   ELSE req[r].session
      OBVIOUS
    <3>2. req'[r] = Answer(q, session) /\ q.pc \in Looking
      BY <1>q, <2>3, <3>1 DEF SessionInsert, Looking
    <3> QED
      BY <1>a, <3>2
  <2> QED
    BY <1>2, <2>1, <2>2, <2>3 DEF SessionStep
<1>3. CASE PutPartStep(r)
  <2>1. PutCreate(r) => req'[r].pc = "spool"
    BY DEF PutCreate, RequestStates
  <2>2. PutSpool(r) => req'[r].pc = "reserve"
    BY DEF PutSpool, RequestStates
  <2>3. \A from, to : r \in DOMAIN Relinked(r, from, to)
    BY DEF Relinked
  <2>4. PutDiscard(r) \/ PutRenameFails(r) \/ PutSave(r) \/ PutSaveFails(r) => req'[r] = Idle
    BY <2>3 DEF PutDiscard, PutRenameFails, PutSave, PutSaveFails, SpoolRemoved
  <2> QED
    BY <1>3, <1>b, <1>i, <2>1, <2>2, <2>4 DEF PutPartStep, PutPart
<1>4. CASE CompleteStep(r)
  <2>1. ASSUME Validate(r) PROVE req'[r].pc \notin Counting
    <3>1. PICK want : req' = [req EXCEPT ![r].pc = "lookup", ![r].then = "open",
                                         ![r].session = NoSession, ![r].want = want]
      BY <2>1 DEF Validate
    <3>2. req'[r].pc = "lookup"
      BY <3>1 DEF RequestStates
    <3> QED
      BY <3>2
  <2>2. ASSUME OpenPart(r) PROVE req'[r].pc \notin Counting
    <3>a. PICK n, x : n = Min(Unopened(r)) /\ x = file[Upload(r)][n]
      OBVIOUS
    <3>b. PICK pc, session : /\ pc = IF Unopened(r) = {n} THEN "assembled" ELSE "open"
                             /\ session = IF Unopened(r) = {n} THEN NoSession ELSE req[r].session
      OBVIOUS
    <3>1. /\ pc \in {"assembled", "open"}
          /\ req' = [req EXCEPT ![r].got[n] = x, ![r].pc = pc, ![r].session = session]
      BY <2>2, <3>a, <3>b DEF OpenPart
    <3>2. req'[r].pc = pc
      BY <3>1 DEF RequestStates
    <3> QED
      BY <3>1, <3>2
  <2>3. PutObject(r) => req'[r].pc = "lookup"
    BY DEF PutObject, Idle
  <2> QED
    BY <1>4, <1>b, <2>1, <2>2, <2>3 DEF CompleteStep, Complete
<1>5. CASE AbortStep(r) \/ Fail(r)
  <2>1. DeleteRow(r) => req'[r].pc = "unload"
    BY DEF DeleteRow, RequestStates
  <2>2. Unload(r) => req'[r].pc = "removeall"
    BY DEF Unload, RequestStates
  <2>3. RemoveScratch(r) \/ Fail(r) => req'[r] = Idle
    BY DEF RemoveScratch, Fail
  <2> QED
    BY <1>5, <1>b, <1>i, <2>1, <2>2, <2>3 DEF AbortStep, Abort
<1> QED
  BY <1>1, <1>2, <1>3, <1>4, <1>5 DEF RequestStep

\* What memory and rows rely on in a request.
SameCounting(p, q) ==
  /\ q.pc \in Counting <=> p.pc \in Counting
  /\ p.pc \in Counting =>
       /\ q.upload = p.upload /\ q.number = p.number /\ q.body = p.body
       /\ q.delta = p.delta /\ q.total = p.total
       /\ q.previous = p.previous /\ q.before = p.before
  /\ p.pc = "unload" => q.pc = "unload" /\ q.upload = p.upload

\* A step that leaves the session, the row and the reservations under way keeps MemoryOK.
LEMMA MemoryFrame ==
  ASSUME NEW u \in Uploads, MemoryOK(u), phase' \in {phase, "clean", "load"},
         loaded'[u] = loaded[u], u \in Own => rows'[u] = rows[u],
         \A p \in Requests : SameCounting(req[p], req'[p])
  PROVE  MemoryOK(u)'
<1>1. \A p \in Requests : CountingOn(u, p)' <=> CountingOn(u, p)
  BY DEF SameCounting, CountingOn, Upload
<1>2. ASSUME NEW p \in Requests, CountingOn(u, p) PROVE CountingOK(p)'
  <2>1. CountingOK(p) /\ Upload(p) = u /\ req[p].pc \in Counting
    BY <1>2 DEF MemoryOK, CountingOn
  <2>2. PICK a, b : a = req[p] /\ b = req'[p] /\ SameCounting(a, b)
    OBVIOUS
  <2>3. /\ b.upload = u /\ b.number = a.number /\ b.body = a.body /\ b.delta = a.delta
        /\ b.total = a.total /\ b.previous = a.previous /\ b.before = a.before
    BY <2>1, <2>2 DEF SameCounting, Upload
  <2>4. \A q \in Requests : CountingOn(u, q)' => q = p
    BY <1>1, <2>1 DEF CountingOK
  <2> QED
    BY <2>1, <2>2, <2>3, <2>4 DEF CountingOK, Upload, Number
<1>3. ASSUME u \in Own, phase' = "serve"
      PROVE  /\ (rows'[u] # NoSession /\ loaded'[u] # NoSession /\ \A p \in Requests : ~CountingOn(u, p)')
                  => loaded'[u] = rows'[u]
             /\ rows'[u] = NoSession /\ loaded'[u] # NoSession =>
                  \E p \in Requests : req'[p].upload = u /\ req'[p].pc = "unload"
  BY <1>1, <1>3 DEF MemoryOK, SameCounting, Upload
<1> QED
  BY <1>1, <1>2, <1>3 DEF MemoryOK, Upload

\* Moving the entry of a file a request holds changes no reservation.
LEMMA LinkIsCounting ==
  ASSUME NEW p, NEW q, SameButLink(p, q)
  PROVE  SameCounting(p, q)
BY DEF SameButLink, SameCounting

\* A request's steps concern the memory and the rows of its own upload.
LEMMA MemoryOthers ==
  ASSUME NEW r \in Requests, NEW u \in Uploads, LifeStep(r, u), NEW v \in Uploads \ {u}, MemoryOK(v)
  PROVE  MemoryOK(v)'
<1>1. \A p \in Requests \ {r} : SameButLink(req[p], req'[p])
  BY DEF LifeStep
<1>2. loaded'[v] = loaded[v] /\ rows'[v] = rows[v] /\ phase' = phase
  BY DEF LifeStep, TouchesOnly
<1>3. req[r].pc = "idle" \/ Upload(r) = u
  BY DEF LifeStep, Draws, Inserts, GivesUp, Publishes, Begins, Works
<1>4. req'[r].pc = "idle" \/ req'[r].upload = u
  BY DEF LifeStep, Draws, Inserts, GivesUp, Publishes, Begins, Works, Idle
<1>5. \A p \in Requests \ {r} : /\ req'[p].pc = req[p].pc /\ req'[p].upload = Upload(p)
                                /\ Number(p)' = Number(p) /\ req'[p].body = req[p].body
                                /\ req'[p].delta = req[p].delta /\ req'[p].total = req[p].total
                                /\ req'[p].previous = req[p].previous /\ req'[p].before = req[p].before
  BY <1>1 DEF SameButLink, Upload, Number
<1>6. ~CountingOn(v, r) /\ ~CountingOn(v, r)'
  BY <1>3, <1>4 DEF CountingOn, Counting, Upload
<1>7. \A p \in Requests : CountingOn(v, p)' <=> CountingOn(v, p)
  BY <1>5, <1>6 DEF CountingOn, Upload
<1>8. ASSUME NEW p \in Requests, CountingOn(v, p) PROVE CountingOK(p)'
  <2>1. CountingOK(p) /\ Upload(p) = v /\ p # r
    BY <1>6, <1>8 DEF MemoryOK, CountingOn
  <2>2. \A q \in Requests : CountingOn(v, q)' => q = p
    BY <1>7, <2>1 DEF CountingOK
  <2> QED
    BY <1>2, <1>5, <2>1, <2>2 DEF CountingOK, Upload
<1>9. \A p \in Requests : Upload(p) = v /\ req[p].pc = "unload" => req'[p].upload = v /\ req'[p].pc = "unload"
  BY <1>3, <1>5
<1> QED
  BY <1>2, <1>7, <1>8, <1>9 DEF MemoryOK, Upload

\* A step that is not inside a reservation and leaves memory and row as they are.
LEMMA MemoryPlain ==
  ASSUME MultipartTypeOK, LifeInv, NEW r \in Requests, RequestStep(r),
         NEW u \in Uploads, LifeStep(r, u), MemoryOK(u),
         ~PutReserve(r), ~PutRename(r), req[r].pc \notin Counting \cup {"unload"},
         loaded'[u] = loaded[u], rows'[u] = rows[u]
  PROVE  MemoryOK(u)'
<1>1. \A p \in Requests \ {r} : SameCounting(req[p], req'[p])
  BY LinkIsCounting DEF LifeStep
<1>2. SameCounting(req[r], req'[r])
  BY WhoCounts DEF SameCounting
<1>3. phase' = phase
  BY DEF LifeStep
<1> QED
  BY <1>1, <1>2, <1>3, MemoryFrame

\* No request is inside a reservation of the upload afterwards.
LEMMA MemoryQuiet ==
  ASSUME NEW u \in Uploads, \A p \in Requests : ~CountingOn(u, p)',
         u \in Own =>
           /\ rows'[u] # NoSession /\ loaded'[u] # NoSession => loaded'[u] = rows'[u]
           /\ rows'[u] = NoSession /\ loaded'[u] # NoSession =>
                \E p \in Requests : req'[p].upload = u /\ req'[p].pc = "unload"
  PROVE  MemoryOK(u)'
BY DEF MemoryOK, Upload

\* A step that spools or discards a part is not one that reserves for it.
LEMMA NotReserving ==
  ASSUME MultipartTypeOK, NEW r \in Requests, PutCreate(r) \/ PutSpool(r) \/ PutDiscard(r)
  PROVE  ~PutReserve(r)
<1> USE DEF MultipartTypeOK
<1>q. PICK q : q = req[r]
  OBVIOUS
<1>t. q \in RequestStates
  BY <1>q
<1>1. PutReserve(r) => req'[r].pc = "rename"
  BY <1>t DEF PutReserve, RequestStates
<1>2. ASSUME PutCreate(r) PROVE req'[r].pc = "spool"
  <2>1. PICK torn : torn = (Writers(r) # {})
    OBVIOUS
  <2>2. req'[r] = [q EXCEPT !.pc = "spool", !.at = "tmp", !.torn = torn]
    BY <1>2, <1>q, <2>1 DEF PutCreate
  <2> QED
    BY <1>t, <2>2 DEF RequestStates
<1>3. PutSpool(r) => req'[r].pc = "reserve"
  BY <1>t DEF PutSpool, RequestStates
<1>4. r \in DOMAIN Relinked(r, "tmp", "gone")
  BY DEF Relinked
<1>5. PutDiscard(r) => req'[r].pc = "idle"
  BY <1>4 DEF PutDiscard, SpoolRemoved, Idle
<1> QED
  BY <1>1, <1>2, <1>3, <1>5

\* A step of a request keeps MemoryOK of every upload.
LEMMA MemoryUpload ==
  ASSUME MultipartTypeOK, LifeInv, NEW r \in Requests, RequestStep(r),
         NEW u \in Uploads, LifeStep(r, u), MemoryOK(u), u \notin overlapped'
  PROVE  MemoryOK(u)'
<1> USE DEF MultipartTypeOK, tables, disk, history
<1>q. PICK q : q = req[r]
  OBVIOUS
<1>t. q \in RequestStates /\ StepOK(q) /\ LifeOK(r)
  BY <1>q, StepsAre
<1>u. q.pc # "idle" => Upload(r) = u
  BY <1>q DEF LifeStep, Draws, Inserts, GivesUp, Publishes, Begins, Works
<1>s. \A p \in Requests \ {r} : SameButLink(req[p], req'[p]) /\ SameCounting(req[p], req'[p])
  BY LinkIsCounting DEF LifeStep
<1>l. phase = "serve" /\ phase' = "serve"
  BY DEF LifeStep
<1>o. \A p \in Requests \ {r} : CountingOn(u, p)' <=> CountingOn(u, p)
  BY <1>s DEF SameButLink, CountingOn, Upload
<1>n. loaded[u] = NoSession => \A p \in Requests : ~CountingOn(u, p)
  BY DEF MemoryOK, CountingOK, CountingOn
<1>w. ~PutReserve(r) /\ ~PutRename(r) => ~CountingOn(u, r)'
  BY WhoCounts DEF CountingOn
<1>1. CASE CreateStep(r)
  <2>1. ASSUME NEW v \in Uploads, NEW expected \in ExpectedSizes, CreateBegin(r, v, expected)
        PROVE  MemoryOK(u)'
    BY <2>1, <1>q, MemoryPlain DEF CreateBegin, PutReserve, PutRename, Counting
  <2>2. ASSUME CreateRow(r) PROVE MemoryOK(u)'
    <3>1. loaded[u] = NoSession /\ loaded' = loaded
      BY <1>q, <1>t, <1>u, <2>2 DEF CreateRow, LifeOK, Creating
    <3>2. ~PutReserve(r) /\ ~PutRename(r)
      BY <2>2 DEF CreateRow, PutReserve, PutRename
    <3> QED
      BY <1>n, <1>o, <1>w, <3>1, <3>2, MemoryQuiet
  <2>3. ASSUME CreateRowFails(r) PROVE MemoryOK(u)'
    BY <2>3, MemoryPlain DEF CreateRowFails, PutReserve, PutRename, Counting
  <2>4. ASSUME CreatePublish(r) PROVE MemoryOK(u)'
    <3>1. /\ loaded[u] = NoSession /\ rows[u] = Session(req[r].total, NoParts) /\ u \in Own
      BY <1>q, <1>t, <1>u, <2>4 DEF CreatePublish, LifeOK, Creating
    <3>2. loaded'[u] = Session(req[r].total, NoParts) /\ rows' = rows
      BY <1>q, <1>u, <2>4 DEF CreatePublish
    <3>3. ~PutReserve(r) /\ ~PutRename(r)
      BY <2>4 DEF CreatePublish, PutReserve, PutRename
    <3>4. rows[u] # NoSession
      BY <3>1, FieldsOf, SessionIs, Constants
    <3> QED
      BY <1>n, <1>o, <1>w, <3>1, <3>2, <3>3, <3>4, MemoryQuiet
  <2> QED
    BY <1>1, <2>1, <2>2, <2>3, <2>4 DEF CreateStep
<1>b. ASSUME NEW then, NEW v, NEW n, NEW body, Begin(r, then, v, n, body)
      PROVE  MemoryOK(u)'
  BY <1>b, MemoryPlain DEF Begin, PutReserve, PutRename, Counting
<1>2. CASE SessionStep(r)
  <2>1. ASSUME SessionFound(r) \/ SessionRead(r) PROVE MemoryOK(u)'
    BY <2>1, MemoryPlain DEF SessionFound, SessionRead, PutReserve, PutRename, Counting
  <2>2. ASSUME SessionInsert(r) PROVE MemoryOK(u)'
    <3>1. ~PutReserve(r) /\ ~PutRename(r) /\ q.pc = "insert" /\ rows' = rows
      BY <2>2, <1>q DEF SessionInsert, PutReserve, PutRename
    <3>2. CASE loaded[u] = NoSession
      <4>1. u \notin Own
        BY <1>q, <1>t, <1>u, <3>1 DEF LifeOK, Own
      <4> QED
        BY <1>n, <1>o, <1>w, <3>1, <3>2, <4>1, MemoryQuiet
    <3>3. CASE loaded[u] # NoSession
      <4>1. loaded'[u] = loaded[u]
        BY <1>q, <1>u, <2>2, <3>1, <3>3 DEF SessionInsert
      <4> QED
        BY <1>q, <3>1, <4>1, MemoryPlain DEF Counting
    <3> QED
      BY <3>2, <3>3
  <2> QED
    BY <1>2, <2>1, <2>2 DEF SessionStep
<1>r. ASSUME Rollback(r), q.pc \in Counting, ~CountingOn(u, r)', rows' = rows
      PROVE  MemoryOK(u)'
  <2>1. CountingOn(u, r) /\ CountingOK(r) /\ Upload(r) = u
    BY <1>q, <1>r, <1>u DEF MemoryOK, CountingOn, Counting
  <2>2. \A p \in Requests : ~CountingOn(u, p)'
    BY <1>o, <1>r, <2>1 DEF CountingOK
  <2>3. loaded[u] # NoSession
    BY <2>1 DEF CountingOK
  <2>4. PICK parts : parts = [loaded[u].parts EXCEPT ![Number(r)] = q.previous]
    OBVIOUS
  <2>5. loaded'[u] = Session(q.before, parts)
    BY <1>q, <1>r, <2>1, <2>3, <2>4 DEF Rollback
  <2>6. ASSUME rows[u] # NoSession, u \in Own PROVE loaded'[u] = rows[u]
    <3>1. /\ rows[u].reserved = q.before
          /\ loaded[u].parts = [rows[u].parts EXCEPT ![Number(r)] = q.body]
          /\ rows[u].parts[Number(r)] = q.previous
      BY <1>q, <2>1, <2>6 DEF CountingOK
    <3>2. rows[u] \in Sessions
      BY <2>6
    <3>3. rows[u].parts \in [Numbers -> Bodies \cup {NoPart}]
      BY <3>2 DEF Sessions
    <3>4. parts = rows[u].parts
      BY <2>4, <3>1, <3>3
    <3> QED
      BY <2>5, <3>1, <3>2, <3>4 DEF Session, Sessions
  <2>7. ASSUME rows[u] = NoSession, u \in Own
        PROVE  \E p \in Requests : req'[p].upload = u /\ req'[p].pc = "unload"
    <3>1. PICK p \in Requests : Upload(p) = u /\ req[p].pc = "unload"
      BY <1>l, <2>3, <2>7 DEF MemoryOK
    <3>2. p # r
      BY <1>q, <1>r, <3>1 DEF Counting
    <3> QED
      BY <1>s, <3>1, <3>2 DEF SameButLink, Upload
  <2> QED
    BY <1>r, <2>2, <2>6, <2>7, MemoryQuiet
<1>3. CASE PutPartStep(r)
  <2>1. ASSUME PutCreate(r) \/ PutSpool(r) \/ PutDiscard(r) PROVE MemoryOK(u)'
    <3>1. /\ req[r].pc \in {"create", "spool", "reserve"}
          /\ loaded' = loaded /\ rows' = rows
      BY <2>1 DEF PutCreate, PutSpool, PutDiscard
    <3>2. ~PutReserve(r)
      BY <2>1, NotReserving
    <3>3. ~PutRename(r)
      BY <3>1 DEF PutRename
    <3> QED
      BY <3>1, <3>2, <3>3, MemoryPlain DEF Counting
  <2>2. ASSUME PutReserve(r) PROVE MemoryOK(u)'
    <3>a. PICK s, parts, t, d :
            /\ s = loaded[u] /\ parts = [s.parts EXCEPT ![Number(r)] = q.body]
            /\ t = Total(parts) /\ d = t - s.reserved
      OBVIOUS
    <3>b. PICK x, b : x = s.parts[Number(r)] /\ b = s.reserved
      OBVIOUS
    <3>u. Upload(r) = u /\ q.pc = "reserve"
      BY <1>q, <1>u, <2>2 DEF PutReserve
    <3>1. /\ loaded' = [loaded EXCEPT ![u] = Session(t, parts)]
          /\ req' = [req EXCEPT ![r] = [q EXCEPT !.pc = "rename", !.delta = d, !.total = t,
                                                 !.previous = x, !.before = b]]
          /\ rows' = rows
      BY <1>q, <2>2, <3>a, <3>b, <3>u DEF PutReserve
    <3>2. /\ req'[r].pc = "rename" /\ req'[r].upload = u /\ Number(r)' = Number(r)
          /\ req'[r].body = q.body /\ req'[r].delta = d /\ req'[r].total = t
          /\ req'[r].previous = x /\ req'[r].before = b
      BY <1>q, <1>t, <3>1, <3>u DEF RequestStates, Upload, Number
    <3>3. \A p \in Requests \ {r} : ~CountingOn(u, p)
      BY <2>2, <3>u DEF PutReserve, RecordOverlap, Reserving, CountingOn, Counting
    <3>4. \A p \in Requests : CountingOn(u, p)' => p = r
      BY <1>o, <3>3
    <3>5. ~CountingOn(u, r)
      BY <1>q, <3>u DEF CountingOn, Counting
    <3>6. s \in Sessions /\ s # NoSession
      BY <2>2, <3>a, <3>u, Constants DEF PutReserve
    <3>7. rows[u] # NoSession /\ u \in Own => s = rows[u]
      BY <1>l, <3>3, <3>5, <3>6, <3>a DEF MemoryOK
    <3>8. Number(r) \in Numbers /\ q.body \in Bodies
      BY <1>q, <1>t, <3>u DEF StepOK, Sending, Number
    <3>9. parts \in [Numbers -> Bodies \cup {NoPart}]
      BY <3>6, <3>8, <3>a DEF Sessions
    <3>10. t \in Nat
      BY <3>9, <3>a, TotalIs
    <3>11. Session(t, parts) # NoSession
      <4>1. Session(t, parts) \in Sessions
        BY <3>9, <3>10, SessionIs
      <4> QED
        BY <4>1, Constants
    <3>12. CountingOK(r)'
      BY <3>1, <3>2, <3>4, <3>7, <3>11, <3>a, <3>b DEF CountingOK, Upload, Session
    <3>13. ASSUME u \in Own, rows[u] = NoSession
           PROVE  \E p \in Requests : req'[p].upload = u /\ req'[p].pc = "unload"
      <4>1. PICK p \in Requests : Upload(p) = u /\ req[p].pc = "unload"
        BY <1>l, <3>6, <3>13, <3>a DEF MemoryOK
      <4>2. p # r
        BY <1>q, <3>u, <4>1
      <4> QED
        BY <1>s, <4>1, <4>2 DEF SameButLink, Upload
    <3>14. CountingOn(u, r)'
      BY <3>2 DEF CountingOn, Upload, Counting
    <3> QED
      BY <3>1, <3>4, <3>12, <3>13, <3>14 DEF MemoryOK, Upload
  <2>3. ASSUME PutRename(r) PROVE MemoryOK(u)'
    <3>1. req'[r] = [q EXCEPT !.pc = "save"] /\ q.pc = "rename"
      BY <1>q, <2>3 DEF PutRename
    <3>2. SameCounting(q, req'[r])
      BY <1>t, <3>1 DEF SameCounting, Counting, RequestStates
    <3>3. loaded' = loaded /\ rows' = rows
      BY <2>3 DEF PutRename
    <3> QED
      BY <1>l, <1>q, <1>s, <3>2, <3>3, MemoryFrame
  <2>4. ASSUME PutRenameFails(r) \/ PutSaveFails(r) PROVE MemoryOK(u)'
    <3>1. Rollback(r) /\ rows' = rows /\ q.pc \in Counting
      BY <2>4, <1>q DEF PutRenameFails, PutSaveFails, Counting
    <3>2. req'[r].pc = "idle"
      <4>1. \A from, to : r \in DOMAIN Relinked(r, from, to)
        BY DEF Relinked
      <4> QED
        BY <2>4, <4>1 DEF PutRenameFails, PutSaveFails, SpoolRemoved, Idle
    <3>3. ~CountingOn(u, r)'
      BY <3>2 DEF CountingOn, Counting
    <3> QED
      BY <1>r, <3>1, <3>3
  <2>5. ASSUME PutSave(r) PROVE MemoryOK(u)'
    <3>1. CountingOn(u, r) /\ CountingOK(r) /\ Upload(r) = u
      BY <1>q, <1>u, <2>5 DEF PutSave, MemoryOK, CountingOn, Counting
    <3>2. ~PutReserve(r) /\ ~PutRename(r)
      BY <2>5 DEF PutSave, PutReserve, PutRename
    <3>3. \A p \in Requests : ~CountingOn(u, p)'
      BY <1>o, <1>w, <3>1, <3>2 DEF CountingOK
    <3>4. PICK parts : parts = [rows[u].parts EXCEPT ![Number(r)] = q.body]
      OBVIOUS
    <3>5. loaded' = loaded /\ rows[u] # NoSession /\ rows'[u] = Session(q.total, parts)
      BY <1>q, <2>5, <3>1, <3>4 DEF PutSave
    <3>6. loaded[u] # NoSession /\ loaded[u].reserved = q.total
          /\ (u \in Own => loaded[u].parts = parts)
      BY <1>q, <3>1, <3>4, <3>5 DEF CountingOK
    <3>7. u \in Own => loaded'[u] = rows'[u]
      BY <3>5, <3>6 DEF Session, Sessions
    <3> QED
      BY <3>3, <3>5, <3>6, <3>7, MemoryQuiet
  <2> QED
    BY <1>3, <1>b, <2>1, <2>2, <2>3, <2>4, <2>5 DEF PutPartStep, PutPart
<1>4. CASE CompleteStep(r)
  <2>1. ASSUME Validate(r) \/ OpenPart(r) \/ PutObject(r) PROVE MemoryOK(u)'
    BY <2>1, MemoryPlain DEF Validate, OpenPart, PutObject, PutReserve, PutRename, Counting
  <2> QED
    BY <1>4, <1>b, <2>1 DEF CompleteStep, Complete
<1>5. CASE AbortStep(r) \/ Fail(r)
  <2>1. ASSUME RemoveScratch(r) \/ Fail(r) PROVE MemoryOK(u)'
    BY <2>1, MemoryPlain DEF RemoveScratch, Fail, PutReserve, PutRename, Counting
  <2>2. ASSUME DeleteRow(r) PROVE MemoryOK(u)'
    <3>1. /\ req'[r] = [q EXCEPT !.pc = "unload"] /\ q.pc = "deleterow" /\ Upload(r) = u
          /\ rows'[u] = NoSession /\ loaded' = loaded
      BY <1>q, <1>u, <2>2 DEF DeleteRow
    <3>2. req'[r].pc = "unload" /\ req'[r].upload = u
      BY <1>q, <1>t, <3>1 DEF RequestStates, Upload
    <3>3. ~CountingOn(u, r) /\ ~CountingOn(u, r)'
      BY <1>q, <3>1, <3>2 DEF CountingOn, Counting
    <3>4. ASSUME NEW p \in Requests, CountingOn(u, p)' PROVE CountingOK(p)'
      <4>1. p # r /\ CountingOn(u, p) /\ CountingOK(p) /\ Upload(p) = u
        BY <1>o, <3>3, <3>4 DEF MemoryOK, CountingOn
      <4>2. /\ req'[p].upload = u /\ req'[p].total = req[p].total /\ req'[p].delta = req[p].delta
            /\ req'[p].before = req[p].before
        BY <1>s, <4>1 DEF SameButLink, Upload
      <4>3. \A x \in Requests : CountingOn(u, x)' => x = p
        BY <1>o, <3>3, <4>1 DEF CountingOK
      <4> QED
        BY <3>1, <4>1, <4>2, <4>3 DEF CountingOK, Upload
    <3> QED
      BY <3>1, <3>2, <3>4 DEF MemoryOK, Upload
  <2>3. ASSUME Unload(r) PROVE MemoryOK(u)'
    <3>1. Upload(r) = u /\ loaded'[u] = NoSession /\ q.pc = "unload" /\ rows' = rows
      BY <1>q, <1>u, <2>3 DEF Unload
    <3>2. \A p \in Requests \ {r} : ~CountingOn(u, p)
      BY <2>3, <3>1 DEF Unload, RecordOverlap, Reserving, CountingOn, Counting
    <3>3. ~PutReserve(r) /\ ~PutRename(r)
      BY <2>3 DEF Unload, PutReserve, PutRename
    <3> QED
      BY <1>o, <1>w, <3>1, <3>2, <3>3, MemoryQuiet
  <2> QED
    BY <1>5, <1>b, <2>1, <2>2, <2>3 DEF AbortStep, Abort
<1> QED
  BY <1>1, <1>2, <1>3, <1>4, <1>5 DEF RequestStep

\* A crash, a restart (which loads the rows) and the other gateways keep MemoryOK.
LEMMA MemoryElsewhere ==
  ASSUME MultipartTypeOK, LifeInv, NEW u \in Uploads, MemoryOK(u), Crash \/ Restart \/ Elsewhere
  PROVE  MemoryOK(u)'
<1> USE DEF MultipartTypeOK, tables, disk, history
<1>i. phase # "serve" => \A p \in Requests : req[p].pc = "idle"
  BY StepsAre DEF LifeOK
<1>d. UploadOK(u)
  BY DEF LifeInv
<1>1. CASE Crash
  <2>1. phase' # "serve" /\ \A p \in Requests : ~CountingOn(u, p)'
    BY <1>1 DEF Crash, CountingOn, Counting, Idle
  <2> QED
    BY <2>1 DEF MemoryOK
<1>2. CASE Restart
  <2>0. phase # "serve" /\ req' = req
    BY <1>2 DEF Restart, CleanupStale, LoadActive, StartLoading, StartServing
  <2>1. \A p \in Requests : ~CountingOn(u, p)'
    BY <1>i, <2>0 DEF CountingOn, Counting
  <2>2. CASE StartServing
    <3>1. loaded' = loaded /\ rows' = rows
      BY <2>2 DEF StartServing
    <3>2. u \in Own => loaded[u] \in {NoSession, rows[u]}
      BY <1>d, <2>2 DEF StartServing, UploadOK
    <3> QED
      BY <2>1, <3>1, <3>2, MemoryQuiet
  <2>3. CASE ~StartServing
    <3>1. phase' # "serve"
      BY <1>2, <2>3 DEF Restart, CleanupStale, LoadActive, StartLoading
    <3> QED
      BY <2>1, <3>1 DEF MemoryOK
  <2> QED
    BY <2>2, <2>3
<1>3. CASE Elsewhere
  <2>1. loaded' = loaded /\ req' = req /\ phase' = phase
    BY <1>3 DEF Elsewhere, CreateElsewhere, SaveElsewhere, EndElsewhere
  <2>2. u \in Own => rows'[u] = rows[u]
    <3>1. ASSUME NEW v \in Uploads, NEW x \in ExpectedSizes, CreateElsewhere(v, x), u \in Own
          PROVE  rows'[u] = rows[u]
      BY <3>1 DEF CreateElsewhere, Own
    <3>2. ASSUME NEW v \in Uploads, NEW part \in Sent, SaveElsewhere(v, part[1], part[2]), u \in Own
          PROVE  rows'[u] = rows[u]
      BY <3>2 DEF SaveElsewhere, Own
    <3>3. ASSUME NEW v \in Uploads, EndElsewhere(v), u \in Own
          PROVE  rows'[u] = rows[u]
      BY <3>3 DEF EndElsewhere, Own
    <3> QED
      BY <1>3, <3>1, <3>2, <3>3 DEF Elsewhere
  <2>3. \A p \in Requests : SameCounting(req[p], req'[p])
    BY <2>1 DEF SameCounting
  <2> QED
    BY <2>1, <2>2, <2>3, MemoryFrame
<1> QED
  BY <1>1, <1>2, <1>3

\* Overlaps are kept.
LEMMA OverlapsStay ==
  ASSUME [MultipartNext]_multipartVars
  PROVE  overlapped \subseteq overlapped'
<1> USE DEF tables, disk, history, multipartVars, RecordOverlap
<1>1. ASSUME NEW r \in Requests, RequestStep(r) PROVE overlapped \subseteq overlapped'
  <2>1. CreateStep(r) \/ SessionStep(r) \/ Fail(r) => overlapped \subseteq overlapped'
    BY DEF CreateStep, CreateBegin, CreateRow, CreateRowFails, CreatePublish,
           SessionStep, SessionFound, SessionRead, SessionInsert, Fail
  <2>2. PutPartStep(r) => overlapped \subseteq overlapped'
    BY DEF PutPartStep, PutPart, Begin, PutCreate, PutSpool, PutDiscard, PutReserve, PutRename,
           PutRenameFails, PutSave, PutSaveFails
  <2>3. CompleteStep(r) \/ AbortStep(r) => overlapped \subseteq overlapped'
    BY DEF CompleteStep, Complete, Begin, Validate, OpenPart, PutObject, AbortStep, Abort,
           DeleteRow, Unload, RemoveScratch
  <2> QED
    BY <1>1, <2>1, <2>2, <2>3 DEF RequestStep
<1>2. Crash \/ Restart \/ Elsewhere => overlapped' = overlapped
  BY DEF Crash, Restart, CleanupStale, LoadActive, StartLoading, StartServing,
         Elsewhere, CreateElsewhere, SaveElsewhere, EndElsewhere
<1> QED
  BY <1>1, <1>2 DEF MultipartNext, RequestStep

\* Every step keeps MemoryInv.
LEMMA MemoryNext == Lives /\ MemoryInv /\ [MultipartNext]_multipartVars => MemoryInv'
<1> SUFFICES ASSUME MultipartTypeOK, LifeInv, MemoryInv, [MultipartNext]_multipartVars, NEW u \in Uploads, u \notin overlapped'
             PROVE  MemoryOK(u)'
  BY DEF Lives, MemoryInv
<1>0. MemoryOK(u)
  BY OverlapsStay DEF MemoryInv
<1>1. ASSUME NEW r \in Requests, RequestStep(r) PROVE MemoryOK(u)'
  <2>1. PICK v \in Uploads : LifeStep(r, v)
    BY <1>1, StepIsLife
  <2>2. CASE u = v
    BY <1>0, <1>1, <2>1, <2>2, MemoryUpload
  <2>3. CASE u # v
    BY <1>0, <2>1, <2>3, MemoryOthers
  <2> QED
    BY <2>2, <2>3
<1>2. CASE UNCHANGED multipartVars
  <2>1. phase' = phase /\ loaded' = loaded /\ rows' = rows /\ req' = req
    BY <1>2 DEF multipartVars, tables
  <2>2. \A p \in Requests : SameCounting(req[p], req'[p])
    BY <2>1 DEF SameCounting
  <2> QED
    BY <1>0, <2>1, <2>2, MemoryFrame
<1> QED
  BY <1>0, <1>1, <1>2, MemoryElsewhere DEF MultipartNext, RequestStep

\* Nothing is in memory and no row is written at first.
LEMMA MemoryInit == MultipartInit => MemoryInv
BY DEF MultipartInit, MemoryInv, MemoryOK, CountingOn, Counting, Idle

\* For any uploads, parts, requests, crashes and other gateways: while no request
\* is between memory and the metadata store, the session in memory is the
\* durable one.  (Manager.mu is not held while the store is written.)
THEOREM MemoryIsDurable == MultipartSpec => []MemoryMatchesRows
<1>1. MultipartInit => Lives /\ MemoryInv
  BY TypeInit, LifeInit, MemoryInit DEF Lives
<1>2. Lives /\ MemoryInv /\ [MultipartNext]_multipartVars => Lives' /\ MemoryInv'
  BY LifeNext, MemoryNext
<1>3. Lives /\ MemoryInv => MemoryMatchesRows
  <2> SUFFICES ASSUME MultipartTypeOK, LifeInv, MemoryInv,
                      NEW u \in Uploads \ (Foreign \cup overlapped), Settled(u)
               PROVE  loaded[u] = rows[u]
    BY DEF Lives, MemoryMatchesRows
  <2>1. MemoryOK(u) /\ UploadOK(u) /\ u \in Own /\ phase = "serve"
    BY DEF MemoryInv, LifeInv, Own, Settled
  <2>2. \A r \in Requests : ~CountingOn(u, r) /\ ~(Upload(r) = u /\ req[r].pc \in {"unload", "publish"})
    BY DEF Settled, CountingOn, Counting
  <2> QED
    BY <2>1, <2>2 DEF MemoryOK, UploadOK
<1> QED
  BY <1>1, <1>2, <1>3, PTL DEF MultipartSpec

-----------------------------------------------------------------------------
(* Parts. *)

Sends(r, u, n) == Upload(r) = u /\ Number(r) = n /\ req[r].pc \in {"create"} \cup Sending

\* A step of one request moves the files of others only if it sends the same
\* part or removes the directory.
LEMMA WhoRelinks ==
  ASSUME MultipartTypeOK, LifeInv, NEW r \in Requests, RequestStep(r),
         NEW p \in Requests \ {r}, ~RemoveScratch(r),
         ~(Upload(p) = Upload(r) /\ Number(p) = Number(r) /\ req[r].pc \in {"create"} \cup Sending)
  PROVE  req'[p] = req[p]
<1> USE DEF MultipartTypeOK
<1>b. ASSUME NEW then, NEW v, NEW n, NEW body, Begin(r, then, v, n, body)
      PROVE  req'[p] = req[p]
  BY <1>b DEF Begin
<1>1. CASE CreateStep(r)
  BY <1>1 DEF CreateStep, CreateBegin, CreateRow, CreateRowFails, CreatePublish
<1>2. CASE SessionStep(r)
  BY <1>2 DEF SessionStep, SessionFound, SessionRead, SessionInsert
<1>3. CASE PutPartStep(r)
  <2>1. req[r].pc \in {"create"} \cup Sending => ~SamePart(r, p)
    BY DEF SamePart
  <2>2. \A from, to : ~SamePart(r, p) => Relinked(r, from, to)[p] = req[p]
    BY DEF Relinked
  <2>3. \A from, to : DOMAIN Relinked(r, from, to) = Requests
    BY DEF Relinked
  <2>4. ASSUME PutCreate(r) PROVE req'[p] = req[p]
    <3>1. req'[p] = [req[p] EXCEPT !.torn = req[p].torn \/ p \in Writers(r)]
      BY <2>4 DEF PutCreate
    <3>2. p \notin Writers(r)
      BY <2>1, <2>4 DEF PutCreate, Writers
    <3>3. req[p].torn \in BOOLEAN
      BY FieldsOf
    <3>4. (req[p].torn \/ p \in Writers(r)) = req[p].torn
      BY <3>2, <3>3, Zenon
    <3> QED
      BY <3>1, <3>4 DEF RequestStates
  <2>5. ASSUME PutSpool(r) \/ PutReserve(r) \/ PutSave(r) PROVE req'[p] = req[p]
    BY <2>5 DEF PutSpool, PutReserve, PutSave
  <2>6. ASSUME PutRename(r) PROVE req'[p] = req[p]
    BY <2>1, <2>6 DEF PutRename, Sending
  <2>7. ASSUME PutDiscard(r) \/ PutRenameFails(r) PROVE req'[p] = req[p]
    BY <2>1, <2>2, <2>3, <2>7 DEF PutDiscard, PutRenameFails, SpoolRemoved, Sending
  <2>8. ASSUME PutSaveFails(r) PROVE req'[p] = req[p]
    BY <2>1, <2>2, <2>3, <2>8 DEF PutSaveFails, Sending
  <2> QED
    BY <1>3, <1>b, <2>4, <2>5, <2>6, <2>7, <2>8 DEF PutPartStep, PutPart
<1>4. CASE CompleteStep(r)
  <2>1. Validate(r) \/ PutObject(r) => req'[p] = req[p]
    BY DEF Validate, PutObject
  <2>2. OpenPart(r) => req'[p] = req[p]
    BY DEF OpenPart
  <2> QED
    BY <1>4, <1>b, <2>1, <2>2 DEF CompleteStep, Complete
<1>5. CASE AbortStep(r) \/ Fail(r)
  BY <1>5, <1>b DEF AbortStep, Abort, DeleteRow, Unload, Fail
<1> QED
  BY <1>1, <1>2, <1>3, <1>4, <1>5 DEF RequestStep

\* A request writes the files of the part it sends only.
LEMMA WhoWrites ==
  ASSUME MultipartTypeOK, LifeInv, NEW r \in Requests, RequestStep(r), ~RemoveScratch(r),
         NEW u \in Uploads, NEW n \in Numbers, ~Sends(r, u, n)
  PROVE  file'[u][n] = file[u][n] /\ spool'[u][n] = spool[u][n]
<1> USE DEF MultipartTypeOK, disk
<1>0. DOMAIN file = Uploads /\ DOMAIN spool = Uploads
  OBVIOUS
<1>b. ASSUME NEW then, NEW v, NEW m, NEW body, Begin(r, then, v, m, body)
      PROVE  file' = file /\ spool' = spool
  BY <1>b DEF Begin
<1>1. CASE CreateStep(r)
  BY <1>1 DEF CreateStep, CreateBegin, CreateRow, CreateRowFails, CreatePublish
<1>2. CASE SessionStep(r) \/ Fail(r)
  BY <1>2 DEF SessionStep, SessionFound, SessionRead, SessionInsert, Fail
<1>3. CASE PutPartStep(r)
  <2>1. req[r].pc \in {"create"} \cup Sending => Upload(r) # u \/ Number(r) # n
    BY DEF Sends
  <2>2. \A x : /\ req[r].pc \in {"create"} \cup Sending =>
                    /\ [file EXCEPT ![Upload(r)][Number(r)] = x][u][n] = file[u][n]
                    /\ [spool EXCEPT ![Upload(r)][Number(r)] = x][u][n] = spool[u][n]
    BY <2>1
  <2>3. PutCreate(r) => file'[u][n] = file[u][n] /\ spool'[u][n] = spool[u][n]
    BY <2>2 DEF PutCreate
  <2>4. ASSUME PutSpool(r) PROVE file'[u][n] = file[u][n] /\ spool'[u][n] = spool[u][n]
    <3>1. PICK content : content = IF req[r].torn THEN Torn ELSE req[r].body
      OBVIOUS
    <3>2. /\ spool' = IF req[r].at = "tmp" THEN [spool EXCEPT ![Upload(r)][Number(r)] = content] ELSE spool
          /\ file' = IF req[r].at = "path" THEN [file EXCEPT ![Upload(r)][Number(r)] = content] ELSE file
      BY <2>4, <3>1 DEF PutSpool
    <3> QED
      BY ZenonT(40), <2>2, <2>4, <3>2 DEF PutSpool, Sending
  <2>5. PutDiscard(r) \/ PutRenameFails(r) => file'[u][n] = file[u][n] /\ spool'[u][n] = spool[u][n]
    BY <2>2 DEF PutDiscard, PutRenameFails, SpoolRemoved, Sending
  <2>6. PutReserve(r) \/ PutSave(r) => file'[u][n] = file[u][n] /\ spool'[u][n] = spool[u][n]
    BY DEF PutReserve, PutSave
  <2>7. PutRename(r) => file'[u][n] = file[u][n] /\ spool'[u][n] = spool[u][n]
    BY ZenonT(40), <2>2 DEF PutRename, Sending
  <2>8. PutSaveFails(r) => file'[u][n] = file[u][n] /\ spool'[u][n] = spool[u][n]
    BY <2>2 DEF PutSaveFails, Sending
  <2> QED
    BY <1>3, <1>b, <2>3, <2>4, <2>5, <2>6, <2>7, <2>8 DEF PutPartStep, PutPart
<1>4. CASE CompleteStep(r)
  BY <1>4, <1>b DEF CompleteStep, Complete, Validate, OpenPart, PutObject
<1>5. CASE AbortStep(r)
  BY <1>5, <1>b DEF AbortStep, Abort, DeleteRow, Unload
<1> QED
  BY <1>1, <1>2, <1>3, <1>4, <1>5 DEF RequestStep

\* A request goes on sending the part it sends.
LEMMA WhoSends ==
  ASSUME MultipartTypeOK, LifeInv, NEW r \in Requests, RequestStep(r)
  PROVE  /\ req'[r].pc \in Sending =>
              /\ req[r].pc \in {"create"} \cup Sending
              /\ req'[r].upload = Upload(r) /\ req'[r].number = Number(r)
              /\ req'[r].body = req[r].body
         /\ req[r].pc \in {"create"} \cup Sending => PutPartStep(r) \/ Fail(r)
<1> USE DEF MultipartTypeOK
<1>q. PICK q : q = req[r]
  OBVIOUS
<1>t. q \in RequestStates /\ StepOK(q)
  BY <1>q, StepsAre
<1>a. ASSUME NEW session, q.pc \in Looking, req'[r] = Answer(q, session)
      PROVE  req'[r].pc \notin Sending
  <2>1. PICK kept, pc : pc = q.then /\ kept = IF q.then \in {"validate", "open"} THEN session ELSE NoSession
    OBVIOUS
  <2>2. req'[r] = [q EXCEPT !.pc = pc, !.session = kept]
    BY <1>a, <2>1 DEF Answer
  <2>3. pc \notin Sending
    BY <1>t, <2>1 DEF RequestStates, Sending
  <2> QED
    BY <1>t, <2>2, <2>3 DEF RequestStates
<1>b. ASSUME NEW then, NEW u, NEW n, NEW body, Begin(r, then, u, n, body)
      PROVE  req'[r].pc \notin Sending /\ q.pc = "idle"
  BY <1>b, <1>q DEF Begin, Idle, Sending
<1>i. Idle.pc \notin Sending
  BY DEF Idle, Sending
<1>1. CASE CreateStep(r)
  <2>1. ASSUME NEW u, NEW expected, CreateBegin(r, u, expected)
        PROVE  req'[r].pc \notin Sending /\ q.pc = "idle"
    BY <1>q, <2>1 DEF CreateBegin, Idle, Sending
  <2>2. CreateRow(r) => req'[r].pc = "publish"
    BY DEF CreateRow, RequestStates
  <2> QED
    BY <1>1, <1>i, <1>q, <2>1, <2>2 DEF CreateStep, CreateRow, CreateRowFails, CreatePublish, Sending
<1>2. CASE SessionStep(r)
  <2>1. ASSUME SessionFound(r) PROVE req'[r].pc \notin Sending
    BY <2>1, <1>a, <1>q DEF SessionFound, Looking
  <2>2. SessionRead(r) => req'[r].pc = "insert"
    BY DEF SessionRead, RequestStates
  <2>3. ASSUME SessionInsert(r) PROVE req'[r].pc \notin Sending
    <3>1. PICK session : session = IF loaded[Upload(r)] # NoSession THEN loaded[Upload(r)]
                                   ELSE req[r].session
      OBVIOUS
    <3>2. req'[r] = Answer(q, session) /\ q.pc \in Looking
      BY <1>q, <2>3, <3>1 DEF SessionInsert, Looking
    <3> QED
      BY <1>a, <3>2
  <2> QED
    BY <1>2, <2>1, <2>2, <2>3 DEF SessionStep, SessionFound, SessionRead, SessionInsert, Sending
<1>3. CASE PutPartStep(r)
  <2>1. ASSUME PutCreate(r)
        PROVE  /\ req'[r].upload = Upload(r) /\ req'[r].number = Number(r)
               /\ req'[r].body = req[r].body
    <3>1. PICK torn : torn = (Writers(r) # {})
      OBVIOUS
    <3>2. req'[r] = [req[r] EXCEPT !.pc = "spool", !.at = "tmp", !.torn = torn]
      BY <2>1, <3>1 DEF PutCreate
    <3> QED
      BY <3>2 DEF RequestStates, Upload, Number
  <2>2. ASSUME PutSpool(r)
        PROVE  /\ req'[r].upload = Upload(r) /\ req'[r].number = Number(r)
               /\ req'[r].body = req[r].body
    BY <2>2 DEF PutSpool, RequestStates, Upload, Number
  <2>3. ASSUME PutReserve(r)
        PROVE  /\ req'[r].upload = Upload(r) /\ req'[r].number = Number(r)
               /\ req'[r].body = req[r].body
    <3>1. PICK s, parts, t, d :
            /\ s = loaded[Upload(r)] /\ parts = [s.parts EXCEPT ![Number(r)] = req[r].body]
            /\ t = Total(parts) /\ d = t - s.reserved
      OBVIOUS
    <3>2. PICK x, b : x = s.parts[Number(r)] /\ b = s.reserved
      OBVIOUS
    <3>3. req'[r] = [req[r] EXCEPT !.pc = "rename", !.delta = d, !.total = t,
                                   !.previous = x, !.before = b]
      BY <2>3, <3>1, <3>2 DEF PutReserve
    <3> QED
      BY <3>3 DEF RequestStates, Upload, Number
  <2>4. ASSUME PutRename(r)
        PROVE  /\ req'[r].upload = Upload(r) /\ req'[r].number = Number(r)
               /\ req'[r].body = req[r].body
    BY <2>4 DEF PutRename, RequestStates, Upload, Number
  <2>5. \A from, to : r \in DOMAIN Relinked(r, from, to)
    BY DEF Relinked
  <2>6. PutDiscard(r) \/ PutRenameFails(r) \/ PutSave(r) \/ PutSaveFails(r) => req'[r] = Idle
    BY <2>5 DEF PutDiscard, PutRenameFails, PutSave, PutSaveFails, SpoolRemoved
  <2> QED
    BY <1>3, <1>b, <1>i, <2>1, <2>2, <2>3, <2>4, <2>6
       DEF PutPartStep, PutPart, PutCreate, PutSpool, PutReserve, PutRename, Sending
<1>4. CASE CompleteStep(r)
  <2>1. ASSUME Validate(r) PROVE req'[r].pc \notin Sending
    <3>1. PICK want : req' = [req EXCEPT ![r].pc = "lookup", ![r].then = "open",
                                         ![r].session = NoSession, ![r].want = want]
      BY <2>1 DEF Validate
    <3>2. req'[r].pc = "lookup"
      BY <3>1 DEF RequestStates
    <3> QED
      BY <3>2 DEF Sending
  <2>2. ASSUME OpenPart(r) PROVE req'[r].pc \notin Sending
    <3>a. PICK n, x : n = Min(Unopened(r)) /\ x = file[Upload(r)][n]
      OBVIOUS
    <3>b. PICK pc, session : /\ pc = IF Unopened(r) = {n} THEN "assembled" ELSE "open"
                             /\ session = IF Unopened(r) = {n} THEN NoSession ELSE req[r].session
      OBVIOUS
    <3>1. /\ pc \in {"assembled", "open"}
          /\ req' = [req EXCEPT ![r].got[n] = x, ![r].pc = pc, ![r].session = session]
      BY <2>2, <3>a, <3>b DEF OpenPart
    <3>2. req'[r].pc = pc
      BY <3>1 DEF RequestStates
    <3> QED
      BY <3>1, <3>2 DEF Sending
  <2>3. PutObject(r) => req'[r].pc = "lookup"
    BY DEF PutObject, Idle
  <2> QED
    BY <1>4, <1>b, <1>q, <2>1, <2>2, <2>3 DEF CompleteStep, Complete, Validate, OpenPart, PutObject, Sending
<1>5. CASE AbortStep(r) \/ Fail(r)
  <2>1. DeleteRow(r) => req'[r].pc = "unload"
    BY DEF DeleteRow, RequestStates
  <2>2. Unload(r) => req'[r].pc = "removeall"
    BY DEF Unload, RequestStates
  <2>3. RemoveScratch(r) \/ Fail(r) => req'[r] = Idle
    BY DEF RemoveScratch, Fail
  <2> QED
    BY <1>5, <1>b, <1>i, <1>q, <2>1, <2>2, <2>3 DEF AbortStep, Abort, DeleteRow, Unload, RemoveScratch, Sending
<1> QED
  BY <1>1, <1>2, <1>3, <1>4, <1>5 DEF RequestStep

\* A request sends the part after a step only as before it.
SameSending(u, n, p, q) ==
  /\ q.upload = u /\ q.number = n /\ q.pc \in Sending =>
       /\ p.upload = u /\ p.number = n /\ p.pc = q.pc
       /\ q.body = p.body /\ q.previous = p.previous
  /\ p.upload = u /\ p.number = n /\ p.pc \in Counting =>
       q.upload = u /\ q.number = n /\ q.pc \in Counting

SameLink(u, n, p, q) ==
  (p.upload = u /\ p.number = n /\ p.pc = "spool") => q.at = p.at /\ q.torn = p.torn

\* A step that leaves a part, its files and the requests that hold them keeps PartOK.
LEMMA PartFrame ==
  ASSUME NEW u \in Own, NEW n \in Numbers, PartOK(u, n),
         rows'[u] # NoSession =>
           /\ rows[u] # NoSession /\ rows'[u].parts[n] = rows[u].parts[n]
           /\ spool'[u][n] = spool[u][n] /\ file'[u][n] = file[u][n]
           /\ \A p \in Requests : SameLink(u, n, req[p], req'[p]),
         loaded'[u] # NoSession => loaded[u] # NoSession /\ loaded'[u].parts[n] = loaded[u].parts[n],
         file'[u][n] \in {file[u][n], NoFile},
         \A p \in Requests : SameSending(u, n, req[p], req'[p]),
         (\E p \in Requests : SendingOn(u, n, p)) =>
           \A p \in Requests : CompletingOn(u, p)' => CompletingOn(u, p)
  PROVE  PartOK(u, n)'
<1>1. \A p \in Requests : SendingOn(u, n, p)' =>
        /\ SendingOn(u, n, p) /\ req'[p].pc = req[p].pc
        /\ req'[p].body = req[p].body /\ req'[p].previous = req[p].previous
  BY DEF SameSending, SendingOn, Upload, Number
<1>2. \A p \in Requests : SendingOn(u, n, p) /\ req[p].pc \in Counting =>
        SendingOn(u, n, p)' /\ req'[p].pc \in Counting
  BY DEF SameSending, SendingOn, Upload, Number, Counting, Sending
<1>3. ASSUME NEW p \in Requests, SendingOn(u, n, p)' PROVE SendingOK(u, n, p)'
  <2>1. SendingOn(u, n, p) /\ SendingOK(u, n, p)
    BY <1>1, <1>3 DEF PartOK
  <2>2. PICK a, b : a = req[p] /\ b = req'[p]
    OBVIOUS
  <2>3. b.pc = a.pc /\ b.body = a.body /\ b.previous = a.previous
    BY <1>1, <1>3, <2>2
  <2>4. \A x \in Requests : SendingOn(u, n, x)' => x = p
    BY <1>1, <2>1 DEF SendingOK
  <2>5. \A x \in Requests : ~CompletingOn(u, x)'
    BY <2>1 DEF SendingOK
  <2>6. rows'[u] # NoSession => SameLink(u, n, a, b)
    BY <2>2
  <2>7. a.upload = u /\ a.number = n
    BY <2>1, <2>2 DEF SendingOn, Upload, Number
  <2> QED
    BY <2>1, <2>2, <2>3, <2>4, <2>5, <2>6, <2>7 DEF SendingOK, SameLink
<1>4. rows'[u] # NoSession /\ rows'[u].parts[n] # NoPart => file'[u][n] = rows'[u].parts[n]
  BY DEF PartOK
<1>5. ASSUME \A p \in Requests : SendingOn(u, n, p)' => req'[p].pc \notin Counting, loaded'[u] # NoSession
      PROVE  /\ rows'[u] # NoSession => loaded'[u].parts[n] = rows'[u].parts[n]
             /\ loaded'[u].parts[n] # NoPart => file'[u][n] \in {loaded'[u].parts[n], NoFile}
  <2>1. \A p \in Requests : SendingOn(u, n, p) => req[p].pc \notin Counting
    BY <1>2, <1>5
  <2> QED
    BY <1>5, <2>1 DEF PartOK
<1> QED
  BY <1>3, <1>4, <1>5 DEF PartOK

\* No request sends the part afterwards.
LEMMA PartQuiet ==
  ASSUME NEW u, NEW n, \A p \in Requests : ~SendingOn(u, n, p)',
         rows'[u] # NoSession /\ rows'[u].parts[n] # NoPart => file'[u][n] = rows'[u].parts[n],
         loaded'[u] # NoSession =>
           /\ rows'[u] # NoSession => loaded'[u].parts[n] = rows'[u].parts[n]
           /\ loaded'[u].parts[n] # NoPart => file'[u][n] \in {loaded'[u].parts[n], NoFile}
  PROVE  PartOK(u, n)'
BY DEF PartOK

\* A step that does not send the part leaves it as it is.
LEMMA PartApart ==
  ASSUME MultipartTypeOK, LifeInv, LifeInv', NEW r \in Requests, RequestStep(r),
         NEW v \in Uploads, LifeStep(r, v),
         NEW u \in Own, NEW n \in Numbers, PartOK(u, n), ~Sends(r, u, n),
         (\E p \in Requests : SendingOn(u, n, p)) =>
           \A p \in Requests : CompletingOn(u, p)' => CompletingOn(u, p),
         rows'[u] # NoSession =>
           rows[u] # NoSession /\ rows'[u].parts[n] = rows[u].parts[n],
         loaded'[u] # NoSession => loaded[u] # NoSession /\ loaded'[u].parts[n] = loaded[u].parts[n]
  PROVE  PartOK(u, n)'
<1>0. u \in Uploads
  BY DEF Own
<1>1. ASSUME NEW p \in Requests PROVE SameSending(u, n, req[p], req'[p])
  <2>1. CASE p # r
    <3>1. SameButLink(req[p], req'[p])
      BY <2>1 DEF LifeStep
    <3> QED
      BY <3>1 DEF SameButLink, SameSending
  <2>2. CASE p = r
    <3>1. req'[r].pc \in Sending => req'[r].upload # u \/ req'[r].number # n
      BY WhoSends DEF Sends
    <3>2. req[r].pc \in Counting => Upload(r) # u \/ Number(r) # n
      BY DEF Sends, Counting, Sending
    <3> QED
      BY <2>2, <3>1, <3>2 DEF SameSending, Upload, Number
  <2> QED
    BY <2>1, <2>2
<1>2. CASE ~RemoveScratch(r)
  <2>1. file'[u][n] = file[u][n] /\ spool'[u][n] = spool[u][n]
    BY <1>0, <1>2, WhoWrites
  <2>2. ASSUME NEW p \in Requests PROVE SameLink(u, n, req[p], req'[p])
    <3>1. CASE p # r /\ Upload(p) = u /\ Number(p) = n
      <4>1. req'[p] = req[p]
        BY <1>2, <3>1, WhoRelinks DEF Sends
      <4> QED
        BY <4>1 DEF SameLink
    <3>2. CASE p = r
      BY <3>2 DEF Sends, SameLink, Sending, Upload, Number
    <3> QED
      BY <3>1, <3>2 DEF SameLink, Upload, Number
  <2> QED
    BY <1>1, <2>1, <2>2, PartFrame
<1>3. CASE RemoveScratch(r)
  <2>1. req[r].pc = "removeall" /\ LifeOK(r) /\ rows' = rows
    BY <1>3, StepsAre DEF RemoveScratch, tables
  <2>2. CASE Upload(r) = u
    <3>1. rows'[u] = NoSession
      BY <2>1, <2>2 DEF LifeOK
    <3>2. file'[u][n] = NoFile
      BY <1>0, <1>3, <2>2 DEF RemoveScratch, ScratchRemoved, MultipartTypeOK, NoFiles
    <3> QED
      BY <1>1, <3>1, <3>2, PartFrame
  <2>3. CASE Upload(r) # u
    <3>1. file'[u] = file[u] /\ spool'[u] = spool[u]
      BY <1>0, <1>3, <2>3 DEF RemoveScratch, ScratchRemoved, MultipartTypeOK
    <3>2. \A p \in Requests : SameLink(u, n, req[p], req'[p])
      BY <1>3, <2>1, <2>3 DEF RemoveScratch, SameLink, MultipartTypeOK, Upload
    <3> QED
      BY <1>1, <3>1, <3>2, PartFrame
  <2> QED
    BY <2>2, <2>3
<1> QED
  BY <1>2, <1>3

\* What a complete has seen stays true.
LEMMA CompletingFrame ==
  ASSUME NEW u, NEW n, NEW p \in Requests, CompletingOK(u, n, req[p]),
         file'[u][n] \in {file[u][n], NoFile},
         req'[p].then = req[p].then,
         req'[p].pc = "validate" => req[p].pc = "validate" /\ req'[p].session = req[p].session,
         req'[p].want = req[p].want, req'[p].got = req[p].got
  PROVE  CompletingOK(u, n, req[p])'
BY DEF CompletingOK

\* A request changes the part it sends in memory and in the row, and no other.
LEMMA WhoSaves ==
  ASSUME MultipartTypeOK, LifeInv, NEW r \in Requests, RequestStep(r),
         NEW v \in Uploads, LifeStep(r, v),
         NEW u \in Own, NEW n \in Numbers, ~Sends(r, u, n), ~CreateRow(r), ~CreatePublish(r)
  PROVE  /\ rows'[u] # NoSession => rows[u] # NoSession /\ rows'[u].parts[n] = rows[u].parts[n]
         /\ loaded'[u] # NoSession => loaded[u] # NoSession /\ loaded'[u].parts[n] = loaded[u].parts[n]
<1> USE DEF MultipartTypeOK, tables, disk
<1> DEFINE Same == rows'[u] = rows[u] /\ loaded'[u] = loaded[u]
<1>0. u \in Uploads
  BY DEF Own
<1>q. PICK q : q = req[r]
  OBVIOUS
<1>t. q \in RequestStates /\ StepOK(q) /\ LifeOK(r)
  BY <1>q, StepsAre
<1>b. ASSUME NEW then, NEW w, NEW m, NEW body, Begin(r, then, w, m, body) PROVE Same
  BY <1>b DEF Begin
<1>1. CASE CreateStep(r)
  <2>1. Same
    BY <1>1 DEF CreateStep, CreateBegin, CreateRowFails
  <2> QED
    BY <2>1
<1>2. CASE SessionStep(r) \/ Fail(r)
  <2>1. ASSUME SessionInsert(r) PROVE Same
    <3>1. Upload(r) \in Foreign
      BY <1>t, <2>1 DEF SessionInsert, LifeOK
    <3>2. PICK x : loaded' = [loaded EXCEPT ![Upload(r)] = x]
      <4>1. PICK x : x = IF loaded[Upload(r)] # NoSession THEN loaded[Upload(r)] ELSE req[r].session
        OBVIOUS
      <4> QED
        BY <2>1, <4>1 DEF SessionInsert
    <3>3. rows' = rows
      BY <2>1 DEF SessionInsert
    <3> QED
      BY <1>0, <3>1, <3>2, <3>3 DEF Own
  <2>2. SessionFound(r) \/ SessionRead(r) \/ Fail(r) => Same
    BY DEF SessionFound, SessionRead, Fail
  <2>3. Same
    BY <1>2, <2>1, <2>2 DEF SessionStep
  <2> QED
    BY <2>3
<1>3. CASE PutPartStep(r)
  <2>1. ASSUME PutCreate(r) \/ PutSpool(r) \/ PutDiscard(r) \/ PutRename(r) PROVE Same
    BY <2>1 DEF PutCreate, PutSpool, PutDiscard, PutRename
  <2>u. ASSUME q.pc \in Sending
        PROVE  /\ Upload(r) \in Uploads /\ Number(r) \in Numbers /\ (Upload(r) # u \/ Number(r) # n)
               /\ q.body \in Bodies
    BY <1>q, <1>t, <2>u, FieldsOf DEF StepOK, Sending, Upload, Number, Sends
  <2>2. ASSUME PutReserve(r)
        PROVE  /\ rows' = rows
               /\ loaded'[u] # NoSession => loaded[u] # NoSession /\ loaded'[u].parts[n] = loaded[u].parts[n]
    <3>1. PICK s, parts, t :
            s = loaded[Upload(r)] /\ parts = [s.parts EXCEPT ![Number(r)] = q.body] /\ t = Total(parts)
      OBVIOUS
    <3>2. loaded' = [loaded EXCEPT ![Upload(r)] = Session(t, parts)] /\ s # NoSession /\ rows' = rows
      BY <1>q, <2>2, <3>1 DEF PutReserve
    <3>3. q.pc \in Sending
      BY <1>q, <2>2 DEF PutReserve, Sending
    <3>4. CASE Upload(r) # u
      BY <1>0, <3>2, <3>4
    <3>5. CASE Upload(r) = u
      <4>1. loaded[u] \in Sessions /\ Number(r) # n
        BY <1>0, <2>u, <3>1, <3>2, <3>3, <3>5
      <4>2. loaded[u].parts \in [Numbers -> Bodies \cup {NoPart}]
        BY <4>1 DEF Sessions
      <4>3. parts[n] = loaded[u].parts[n]
        BY <3>1, <3>5, <4>1, <4>2
      <4> QED
        BY <1>0, <3>1, <3>2, <3>5, <4>3 DEF Session
    <3> QED
      BY <3>2, <3>4, <3>5
  <2>3. ASSUME Rollback(r), q.pc \in Sending
        PROVE  loaded'[u] # NoSession => loaded[u] # NoSession /\ loaded'[u].parts[n] = loaded[u].parts[n]
    <3>1. CASE loaded[Upload(r)] = NoSession
      BY <2>3, <3>1 DEF Rollback
    <3>2. CASE loaded[Upload(r)] # NoSession
      <4>1. PICK parts : parts = [loaded[Upload(r)].parts EXCEPT ![Number(r)] = q.previous]
        OBVIOUS
      <4>2. loaded' = [loaded EXCEPT ![Upload(r)] = Session(q.before, parts)]
        BY <1>q, <2>3, <3>2, <4>1 DEF Rollback
      <4>3. CASE Upload(r) # u
        BY <1>0, <4>2, <4>3
      <4>4. CASE Upload(r) = u
        <5>1. loaded[u] \in Sessions /\ Number(r) # n
          BY <1>0, <2>3, <2>u, <3>2, <4>4
        <5>2. loaded[u].parts \in [Numbers -> Bodies \cup {NoPart}]
          BY <5>1 DEF Sessions
        <5>3. parts[n] = loaded[u].parts[n]
          BY <4>1, <4>4, <5>1, <5>2
        <5> QED
          BY <1>0, <3>2, <4>2, <4>4, <5>3 DEF Session
      <4> QED
        BY <4>3, <4>4
    <3> QED
      BY <3>1, <3>2
  <2>4. ASSUME PutRenameFails(r) \/ PutSaveFails(r) PROVE rows' = rows /\ Rollback(r) /\ q.pc \in Sending
    BY <1>q, <2>4 DEF PutRenameFails, PutSaveFails, Sending
  <2>5. ASSUME PutSave(r)
        PROVE  /\ loaded' = loaded
               /\ rows'[u] # NoSession => rows[u] # NoSession /\ rows'[u].parts[n] = rows[u].parts[n]
    <3>1. PICK parts : parts = [rows[Upload(r)].parts EXCEPT ![Number(r)] = q.body]
      OBVIOUS
    <3>2. /\ rows' = [rows EXCEPT ![Upload(r)] = Session(q.total, parts)] /\ loaded' = loaded
          /\ rows[Upload(r)] # NoSession /\ q.pc \in Sending
      BY <1>q, <2>5, <3>1 DEF PutSave, Sending
    <3>3. CASE Upload(r) # u
      BY <1>0, <3>2, <3>3
    <3>4. CASE Upload(r) = u
      <4>1. rows[u] \in Sessions /\ Number(r) # n
        BY <1>0, <2>u, <3>2, <3>4
      <4>2. rows[u].parts \in [Numbers -> Bodies \cup {NoPart}]
        BY <4>1 DEF Sessions
      <4>3. parts[n] = rows[u].parts[n]
        BY <3>1, <3>4, <4>1, <4>2
      <4> QED
        BY <1>0, <3>2, <3>4, <4>3 DEF Session
    <3> QED
      BY <3>2, <3>3, <3>4
  <2> QED
    BY <1>3, <1>b, <2>1, <2>2, <2>3, <2>4, <2>5 DEF PutPartStep, PutPart
<1>4. CASE CompleteStep(r)
  <2>1. Same
    BY <1>4, <1>b DEF CompleteStep, Complete, Validate, OpenPart, PutObject
  <2> QED
    BY <2>1
<1>5. CASE AbortStep(r)
  <2>1. DeleteRow(r) => (rows'[u] # NoSession => rows'[u] = rows[u]) /\ loaded' = loaded
    BY <1>0 DEF DeleteRow
  <2>2. Unload(r) => (loaded'[u] # NoSession => loaded'[u] = loaded[u]) /\ rows' = rows
    BY <1>0 DEF Unload
  <2>3. RemoveScratch(r) => Same
    BY DEF RemoveScratch
  <2> QED
    BY <1>5, <1>b, <2>1, <2>2, <2>3 DEF AbortStep, Abort
<1> QED
  BY <1>1, <1>2, <1>3, <1>4, <1>5 DEF RequestStep

\* Only a complete goes on being one, or begins to be.
LEMMA CompletingSteps ==
  ASSUME MultipartTypeOK, LifeInv, LifeInv', NEW r \in Requests, RequestStep(r),
         NEW u \in Own, CompletingOn(u, r)'
  PROVE  /\ \/ \E w \in Uploads : Complete(r, w)
            \/ SessionStep(r) \/ Validate(r) \/ OpenPart(r)
         /\ req'[r].upload = u /\ req'[r].then \in {"validate", "open"} /\ req'[r].pc # "idle"
<1> USE DEF MultipartTypeOK
<1>q. PICK q : q = req[r]
  OBVIOUS
<1>t. q \in RequestStates /\ StepOK(q) /\ StepOK(req'[r])
  BY <1>q, StepsAre DEF LifeInv
<1>1. /\ req'[r].pc \in {"lookup", "insert", "validate", "open", "assembled"}
     /\ req'[r].upload = u /\ req'[r].then \in {"validate", "open"}
  <2>1. req'[r].upload = u /\ req'[r].then \in {"validate", "open"}
    BY DEF CompletingOn, Upload
  <2>2. req'[r].pc \in Steps
    <3>1. MultipartTypeOK'
      BY TypeNext DEF MultipartNext, RequestStep
    <3> QED
      BY <3>1 DEF RequestStates
  <2> QED
    BY <1>t, <2>1, <2>2 DEF StepOK, Steps, Creating, Sending
<1>2. ASSUME NEW then, NEW w, NEW m, NEW body, Begin(r, then, w, m, body)
     PROVE  req'[r].then = then /\ req'[r].upload = w
  BY <1>2 DEF Begin, Idle
<1>3. ASSUME CreateStep(r) PROVE FALSE
  <2>1. \A w, x : CreateBegin(r, w, x) => req'[r].pc = "insertrow"
    BY DEF CreateBegin, Idle
  <2>2. CreateRow(r) => req'[r].pc = "publish"
    BY DEF CreateRow, RequestStates
  <2>3. CreateRowFails(r) \/ CreatePublish(r) => req'[r].pc = "idle"
    BY DEF CreateRowFails, CreatePublish, Idle
  <2> QED
    BY <1>1, <1>3, <2>1, <2>2, <2>3 DEF CreateStep
<1>4. ASSUME PutPartStep(r) PROVE FALSE
  <2>1. ASSUME NEW w \in Uploads, NEW part \in Sent, PutPart(r, w, part[1], part[2]) PROVE FALSE
    BY <1>1, <1>2, <2>1 DEF PutPart
  <2>2. ASSUME ~(\E w \in Uploads, part \in Sent : PutPart(r, w, part[1], part[2])) PROVE FALSE
    <3>1. ASSUME PutCreate(r) PROVE req'[r].pc = "spool"
      <4>1. PICK torn : torn = (Writers(r) # {})
        OBVIOUS
      <4>2. req'[r] = [q EXCEPT !.pc = "spool", !.at = "tmp", !.torn = torn]
        BY <1>q, <3>1, <4>1 DEF PutCreate
      <4> QED
        BY <1>t, <4>2 DEF RequestStates
    <3>2. PutSpool(r) => req'[r].pc = "reserve"
      BY DEF PutSpool, RequestStates
    <3>3. PutReserve(r) => req'[r].pc = "rename"
      BY DEF PutReserve, RequestStates
    <3>4. PutRename(r) => req'[r].pc = "save"
      BY DEF PutRename, RequestStates
    <3>5. \A from, to : r \in DOMAIN Relinked(r, from, to)
      BY DEF Relinked
    <3>6. PutDiscard(r) \/ PutRenameFails(r) \/ PutSave(r) \/ PutSaveFails(r) => req'[r].pc = "idle"
      BY <3>5 DEF PutDiscard, PutRenameFails, PutSave, PutSaveFails, SpoolRemoved, Idle
    <3> QED
      BY <1>1, <1>4, <2>2, <3>1, <3>2, <3>3, <3>4, <3>6 DEF PutPartStep
  <2> QED
    BY <2>1, <2>2
<1>5. ASSUME AbortStep(r) PROVE FALSE
  <2>1. DeleteRow(r) => req'[r].pc = "unload"
    BY DEF DeleteRow, RequestStates
  <2>2. Unload(r) => req'[r].pc = "removeall"
    BY DEF Unload, RequestStates
  <2>3. RemoveScratch(r) => req'[r].pc = "idle"
    BY DEF RemoveScratch, Idle
  <2> QED
    BY <1>1, <1>5, <1>2, <2>1, <2>2, <2>3 DEF AbortStep, Abort
<1>6. ~Fail(r)
  BY <1>1 DEF Fail, Idle
<1>7. ~PutObject(r)
  <2>1. PutObject(r) => req'[r].then = "deleterow"
    BY DEF PutObject, Idle
  <2> QED
    BY <1>1, <2>1
<1> QED
  BY <1>1, <1>3, <1>4, <1>5, <1>6, <1>7 DEF RequestStep, CompleteStep

\* A complete that begins finds no part being sent that is not counted as sent
\* at the same time.
LEMMA WhoCompletes ==
  ASSUME MultipartTypeOK, LifeInv, LifeInv', NEW r \in Requests, RequestStep(r),
         NEW v \in Uploads, LifeStep(r, v), NEW u \in Own, NEW n \in Numbers,
         <<u, n>> \notin contended', \E p \in Requests : SendingOn(u, n, p)
  PROVE  \A p \in Requests : CompletingOn(u, p)' => CompletingOn(u, p)
<1> USE DEF MultipartTypeOK
<1>q. PICK q : q = req[r]
  OBVIOUS
<1>t. q \in RequestStates /\ StepOK(q)
  BY <1>q, StepsAre
<1>1. ASSUME NEW p \in Requests \ {r}, CompletingOn(u, p)' PROVE CompletingOn(u, p)
  <2>1. SameButLink(req[p], req'[p])
    BY DEF LifeStep
  <2> QED
    BY <1>1, <2>1 DEF SameButLink, CompletingOn, Upload
<1>2. ASSUME CompletingOn(u, r)' PROVE CompletingOn(u, r)
  <2>1. /\ (\E w \in Uploads : Complete(r, w)) \/ SessionStep(r) \/ Validate(r) \/ OpenPart(r)
        /\ req'[r].upload = u /\ req'[r].then \in {"validate", "open"} /\ req'[r].pc # "idle"
    BY <1>2, CompletingSteps
  <2>u. u = v
    BY <2>1, Constants DEF Own, LifeStep, Draws, Inserts, GivesUp, Publishes, Begins, Works, Idle
  <2>w. q.pc # "idle" => Upload(r) = u
    BY <1>q, <2>u DEF LifeStep, Draws, Inserts, GivesUp, Publishes, Begins, Works
  <2>3. ASSUME SessionStep(r) PROVE q.then = req'[r].then /\ q.pc # "idle"
    <3>1. ASSUME NEW session, req'[r] = Answer(q, session)
          PROVE  req'[r].then = q.then
      <4>1. PICK kept, pc : pc = q.then /\ kept = IF q.then \in {"validate", "open"} THEN session ELSE NoSession
        OBVIOUS
      <4>2. req'[r] = [q EXCEPT !.pc = pc, !.session = kept]
        BY <3>1, <4>1 DEF Answer
      <4> QED
        BY <1>t, <4>2 DEF RequestStates
    <3>2. SessionFound(r) => req'[r] = Answer(q, loaded[Upload(r)])
      BY <1>q DEF SessionFound
    <3>3. SessionRead(r) => req'[r].then = q.then
      BY <1>q DEF SessionRead, RequestStates
    <3>4. ASSUME SessionInsert(r) PROVE \E session : req'[r] = Answer(q, session)
      <4>1. PICK session : session = IF loaded[Upload(r)] # NoSession THEN loaded[Upload(r)]
                                     ELSE req[r].session
        OBVIOUS
      <4>2. req'[r] = Answer(q, session)
        BY <1>q, <3>4, <4>1 DEF SessionInsert
      <4> QED
        BY <4>2
    <3> QED
      BY <1>q, <2>3, <3>1, <3>2, <3>3, <3>4 DEF SessionStep, SessionFound, SessionRead, SessionInsert
  <2>4. ASSUME NEW w \in Uploads, Complete(r, w) PROVE FALSE
    <3>1. w = u
      BY <2>1, <2>4 DEF Complete, Begin, Idle
    <3>2. PICK p \in Requests : SendingOn(u, n, p)
      OBVIOUS
    <3>3. Putting(p) /\ Upload(p) = u /\ Number(p) = n
      BY <3>2 DEF SendingOn, Sending, Putting
    <3> QED
      BY <2>4, <3>1, <3>3 DEF Complete
  <2>5. Validate(r) \/ OpenPart(r) => q.then \in {"validate", "open"} /\ q.pc # "idle"
    BY <1>q, <1>t DEF Validate, OpenPart, StepOK
  <2> QED
    BY <1>q, <2>1, <2>3, <2>4, <2>5, <2>w DEF CompletingOn
<1> QED
  BY <1>1, <1>2

\* A step that sends the part.
LEMMA PartSent ==
  ASSUME MultipartTypeOK, LifeInv, LifeInv', NEW r \in Requests, RequestStep(r),
         NEW v \in Uploads, LifeStep(r, v), NEW u \in Own, NEW n \in Numbers,
         <<u, n>> \notin contended', PartOK(u, n), Sends(r, u, n)
  PROVE  PartOK(u, n)'
<1> USE DEF MultipartTypeOK, tables, disk
<1>q. PICK q : q = req[r]
  OBVIOUS
<1>t. q \in RequestStates /\ StepOK(q) /\ LifeOK(r) /\ UploadOK(u) /\ phase = "serve"
  BY <1>q, StepsAre DEF LifeInv, Own, LifeStep
<1>u. /\ u \in Uploads /\ Upload(r) = u /\ Number(r) = n /\ q.upload = u /\ q.number = n
      /\ q.pc \in {"create"} \cup Sending /\ q.body \in Bodies /\ q.then = "create"
  BY <1>q, <1>t, FieldsOf DEF Sends, StepOK, Own, Upload, Number
<1>p. \A p \in Requests \ {r} :
        /\ SameButLink(req[p], req'[p])
        /\ SendingOn(u, n, p)' <=> SendingOn(u, n, p)
        /\ CompletingOn(u, p)' <=> CompletingOn(u, p)
  BY DEF LifeStep, SameButLink, SendingOn, CompletingOn, Upload, Number
<1>s. q.pc \in Sending =>
        /\ SendingOn(u, n, r) /\ SendingOK(u, n, r)
        /\ \A p \in Requests \ {r} : ~SendingOn(u, n, p) /\ ~SendingOn(u, n, p)'
  BY <1>p, <1>q, <1>u DEF SendingOn, PartOK, SendingOK
<1>c. q.pc \in Sending => \A p \in Requests : ~CompletingOn(u, p)'
  <2> SUFFICES ASSUME q.pc \in Sending PROVE \A p \in Requests : ~CompletingOn(u, p)'
    OBVIOUS
  <2>1. \A p \in Requests : ~CompletingOn(u, p)
    BY <1>s DEF SendingOK
  <2>2. \E p \in Requests : SendingOn(u, n, p)
    BY <1>s
  <2> QED
    BY <2>1, <2>2, WhoCompletes
<1>r. rows[u] # NoSession => rows[u] \in Sessions /\ rows[u].parts \in [Numbers -> Bodies \cup {NoPart}]
  <2>1. rows[u] # NoSession => rows[u] \in Sessions
    BY <1>u
  <2> QED
    BY <2>1 DEF Sessions
<1>m. loaded[u] # NoSession => loaded[u] \in Sessions /\ loaded[u].parts \in [Numbers -> Bodies \cup {NoPart}]
  <2>1. loaded[u] # NoSession => loaded[u] \in Sessions
    BY <1>u
  <2> QED
    BY <2>1 DEF Sessions
<1>n. NoPart \notin Bodies
  BY Constants
<1>1. CASE PutCreate(r)
  <2>1. ~Resent(r)
    BY <1>1, <1>u DEF PutCreate
  <2>2. \A p \in Requests \ {r} : ~SendingOn(u, n, p)
    BY <1>u, <2>1 DEF Resent, SamePart, SendingOn, Putting, Sending
  <2>3. \A p \in Requests : ~CompletingOn(u, p)
    BY <1>u, <2>1 DEF Resent, CompletingOn
  <2>4. Writers(r) = {}
    <3>1. ASSUME NEW p \in Writers(r) PROVE FALSE
      <4>1. p \in Requests \ {r} /\ SamePart(r, p) /\ req[p].at = "tmp"
        BY <3>1 DEF Writers, SamePart
      <4>2. req[p].pc = "spool"
        BY <4>1, StepsAre DEF StepOK
      <4> QED
        BY <1>u, <2>2, <4>1, <4>2 DEF SamePart, SendingOn, Sending
    <3> QED
      BY <3>1
  <2>5. req'[r] = [q EXCEPT !.pc = "spool", !.at = "tmp", !.torn = FALSE]
    <3>1. PICK torn : torn = (Writers(r) # {})
      OBVIOUS
    <3>2. torn = FALSE
      BY <2>4, <3>1, Zenon
    <3>3. req'[r] = [q EXCEPT !.pc = "spool", !.at = "tmp", !.torn = torn]
      BY <1>1, <1>q, <3>1 DEF PutCreate
    <3> QED
      BY <3>2, <3>3
  <2>6. /\ req'[r].pc = "spool" /\ req'[r].at = "tmp" /\ ~req'[r].torn /\ req'[r].then = "create"
        /\ req'[r].upload = u /\ req'[r].number = n
    BY <1>t, <1>u, <2>5 DEF RequestStates
  <2>7. loaded' = loaded /\ rows' = rows /\ file' = file /\ q.pc = "create"
    BY <1>1, <1>q DEF PutCreate
  <2>8. loaded[u] # NoSession => loaded[u].parts[n] = NoPart
    BY <1>u, <2>1 DEF Resent
  <2>9. \A p \in Requests : ~(SendingOn(u, n, p) /\ req[p].pc \in Counting)
    BY <1>q, <2>2, <2>7 DEF Counting
  <2>10. rows[u] # NoSession => loaded[u] # NoSession
    <3>1. SUFFICES ASSUME rows[u] # NoSession, loaded[u] = NoSession PROVE FALSE
      OBVIOUS
    <3>2. PICK p \in Requests : Upload(p) = u /\ req[p].pc = "publish"
      BY <1>t, <3>1 DEF UploadOK
    <3>3. p # r
      BY <1>q, <2>7, <3>2
    <3> QED
      BY <1>u, <3>2, <3>3, StepsAre DEF LifeOK, Creating
  <2>11. rows[u] # NoSession => rows[u].parts[n] = NoPart
    BY <2>8, <2>9, <2>10 DEF PartOK
  <2>12. SendingOn(u, n, r)' /\ \A p \in Requests : SendingOn(u, n, p)' => p = r
    BY <1>p, <2>2, <2>6 DEF SendingOn, Upload, Number, Sending
  <2>13. \A p \in Requests : ~CompletingOn(u, p)'
    BY <1>p, <2>3, <2>6 DEF CompletingOn
  <2>14. SendingOK(u, n, r)'
    BY <2>6, <2>7, <2>8, <2>11, <2>12, <2>13 DEF SendingOK, Counting
  <2> QED
    BY <2>7, <2>8, <2>11, <2>12, <2>14 DEF PartOK
<1>2. CASE PutSpool(r)
  <2>1. PICK content : content = IF q.torn THEN Torn ELSE q.body
    OBVIOUS
  <2>2. /\ spool' = IF q.at = "tmp" THEN [spool EXCEPT ![u][n] = content] ELSE spool
        /\ file' = IF q.at = "path" THEN [file EXCEPT ![u][n] = content] ELSE file
    BY <1>2, <1>q, <1>u, <2>1 DEF PutSpool
  <2>3. req'[r] = [q EXCEPT !.pc = "reserve", !.at = "none", !.torn = FALSE]
    BY <1>2, <1>q DEF PutSpool
  <2>4. /\ req'[r].pc = "reserve" /\ req'[r].body = q.body /\ req'[r].upload = u /\ req'[r].number = n
    BY <1>t, <1>u, <2>3 DEF RequestStates
  <2>5. loaded' = loaded /\ rows' = rows /\ q.pc = "spool" /\ q.pc \in Sending /\ q.pc \notin Counting
    BY <1>2, <1>q DEF PutSpool, Sending, Counting
  <2>6. /\ loaded[u] # NoSession => loaded[u].parts[n] = NoPart
        /\ rows[u] # NoSession => rows[u].parts[n] = NoPart /\ q.at = "tmp" /\ ~q.torn
    BY <1>q, <1>s, <2>5 DEF SendingOK
  <2>7. rows[u] # NoSession => spool'[u][n] = q.body
    BY <1>u, <2>1, <2>2, <2>6
  <2>8. SendingOn(u, n, r)' /\ \A p \in Requests : SendingOn(u, n, p)' => p = r
    BY <1>s, <2>4, <2>5 DEF SendingOn, Upload, Number, Sending
  <2>9. SendingOK(u, n, r)'
    BY <1>c, <2>4, <2>5, <2>6, <2>7, <2>8 DEF SendingOK, Counting
  <2> QED
    BY <2>5, <2>6, <2>8, <2>9 DEF PartOK
<1>i. ASSUME req'[r].pc = "idle", q.pc \in Sending PROVE \A p \in Requests : ~SendingOn(u, n, p)'
  BY <1>i, <1>s DEF SendingOn, Sending
<1>d. \A from, to : r \in DOMAIN Relinked(r, from, to)
  BY DEF Relinked
<1>3. CASE PutDiscard(r)
  <2>1. /\ req'[r].pc = "idle" /\ loaded' = loaded /\ rows' = rows
        /\ q.pc \in Sending /\ q.pc \notin Counting
    BY <1>3, <1>d, <1>q DEF PutDiscard, SpoolRemoved, Idle, Sending, Counting
  <2>2. /\ loaded[u] # NoSession => loaded[u].parts[n] = NoPart
        /\ rows[u] # NoSession => rows[u].parts[n] = NoPart
    BY <1>q, <1>s, <2>1 DEF SendingOK
  <2> QED
    BY <1>i, <2>1, <2>2, PartQuiet
<1>4. CASE PutReserve(r)
  <2>a. PICK s, parts, t, d :
          /\ s = loaded[u] /\ parts = [s.parts EXCEPT ![n] = q.body]
          /\ t = Total(parts) /\ d = t - s.reserved
    OBVIOUS
  <2>b. PICK x, b : x = s.parts[n] /\ b = s.reserved
    OBVIOUS
  <2>1. /\ loaded' = [loaded EXCEPT ![u] = Session(t, parts)]
        /\ req'[r] = [q EXCEPT !.pc = "rename", !.delta = d, !.total = t, !.previous = x, !.before = b]
        /\ rows' = rows /\ file' = file /\ spool' = spool /\ s # NoSession
    BY <1>4, <1>q, <1>u, <2>a, <2>b DEF PutReserve
  <2>2. q.pc = "reserve" /\ q.pc \in Sending /\ q.pc \notin Counting
    BY <1>4, <1>q DEF PutReserve, Sending, Counting
  <2>3. /\ req'[r].pc = "rename" /\ req'[r].body = q.body /\ req'[r].upload = u
        /\ req'[r].number = n /\ req'[r].previous = x
    BY <1>t, <1>u, <2>1 DEF RequestStates
  <2>4. /\ x = NoPart
        /\ rows[u] # NoSession => rows[u].parts[n] = NoPart /\ spool[u][n] = q.body
    BY <1>q, <1>s, <2>1, <2>2, <2>a, <2>b DEF SendingOK
  <2>5. loaded'[u].parts[n] = q.body
    <3>1. parts[n] = q.body
      BY <1>m, <2>1, <2>a
    <3> QED
      BY <1>u, <2>1, <3>1 DEF Session
  <2>6. SendingOn(u, n, r)' /\ \A p \in Requests : SendingOn(u, n, p)' => p = r
    BY <1>s, <2>2, <2>3 DEF SendingOn, Upload, Number, Sending
  <2>7. SendingOK(u, n, r)'
    BY <1>c, <2>1, <2>2, <2>3, <2>4, <2>5, <2>6 DEF SendingOK, Counting
  <2> QED
    BY <2>1, <2>3, <2>4, <2>6, <2>7 DEF PartOK, Counting
<1>5. CASE PutRename(r)
  <2>1. /\ file' = [file EXCEPT ![u][n] = spool[u][n]] /\ req'[r] = [q EXCEPT !.pc = "save"]
        /\ loaded' = loaded /\ rows' = rows
        /\ q.pc = "rename" /\ q.pc \in Sending /\ q.pc \in Counting
    BY <1>5, <1>q, <1>u DEF PutRename, Sending, Counting
  <2>2. /\ req'[r].pc = "save" /\ req'[r].body = q.body /\ req'[r].upload = u
        /\ req'[r].number = n /\ req'[r].previous = q.previous
    BY <1>t, <1>u, <2>1 DEF RequestStates
  <2>3. /\ loaded[u] # NoSession => loaded[u].parts[n] = q.body
        /\ q.previous = NoPart
        /\ rows[u] # NoSession => rows[u].parts[n] = NoPart /\ spool[u][n] = q.body
    BY <1>q, <1>s, <2>1 DEF SendingOK
  <2>4. rows[u] # NoSession => file'[u][n] = q.body
    BY <1>u, <2>1, <2>3
  <2>5. SendingOn(u, n, r)' /\ \A p \in Requests : SendingOn(u, n, p)' => p = r
    BY <1>s, <2>1, <2>2 DEF SendingOn, Upload, Number, Sending
  <2>6. SendingOK(u, n, r)'
    BY <1>c, <2>1, <2>2, <2>3, <2>4, <2>5 DEF SendingOK, Counting
  <2> QED
    BY <2>1, <2>2, <2>3, <2>5, <2>6 DEF PartOK, Counting
<1>6. CASE PutRenameFails(r) \/ PutSaveFails(r)
  <2>1. /\ req'[r].pc = "idle" /\ rows' = rows /\ Rollback(r)
        /\ q.pc \in Sending /\ q.pc \in Counting
    BY <1>6, <1>d, <1>q DEF PutRenameFails, PutSaveFails, SpoolRemoved, Idle, Sending, Counting
  <2>2. /\ q.previous = NoPart
        /\ rows[u] # NoSession => rows[u].parts[n] = NoPart
    BY <1>q, <1>s, <2>1 DEF SendingOK
  <2>3. ASSUME loaded'[u] # NoSession PROVE loaded'[u].parts[n] = NoPart
    <3>1. loaded[u] # NoSession
      BY <1>u, <2>1, <2>3 DEF Rollback
    <3>2. PICK parts : parts = [loaded[u].parts EXCEPT ![n] = q.previous]
      OBVIOUS
    <3>3. loaded' = [loaded EXCEPT ![u] = Session(q.before, parts)]
      BY <1>q, <1>u, <2>1, <3>1, <3>2 DEF Rollback
    <3>4. parts[n] = NoPart
      BY <1>m, <2>2, <3>1, <3>2
    <3> QED
      BY <1>u, <3>3, <3>4 DEF Session
  <2> QED
    BY <1>i, <2>1, <2>2, <2>3, PartQuiet
<1>7. CASE PutSave(r)
  <2>1. PICK parts : parts = [rows[u].parts EXCEPT ![n] = q.body]
    OBVIOUS
  <2>2. /\ rows' = [rows EXCEPT ![u] = Session(q.total, parts)] /\ loaded' = loaded /\ file' = file
        /\ rows[u] # NoSession /\ req'[r].pc = "idle"
        /\ q.pc = "save" /\ q.pc \in Sending /\ q.pc \in Counting
    BY <1>7, <1>q, <1>u, <2>1 DEF PutSave, Idle, Sending, Counting
  <2>3. /\ loaded[u] # NoSession => loaded[u].parts[n] = q.body
        /\ file[u][n] = q.body
    BY <1>q, <1>s, <2>2 DEF SendingOK
  <2>4. rows'[u].parts[n] = q.body
    <3>1. parts[n] = q.body
      BY <1>r, <2>1, <2>2
    <3> QED
      BY <1>u, <2>2, <3>1 DEF Session
  <2> QED
    BY <1>i, <2>2, <2>3, <2>4, PartQuiet
<1>8. CASE Fail(r)
  <2>1. /\ req' = [req EXCEPT ![r] = Idle] /\ loaded' = loaded /\ rows' = rows
        /\ file' = file /\ spool' = spool /\ q.pc = "create"
    BY <1>8, <1>q, <1>u DEF Fail, Sending
  <2>2. \A p \in Requests : SameSending(u, n, req[p], req'[p]) /\ SameLink(u, n, req[p], req'[p])
    BY <1>q, <2>1 DEF SameSending, SameLink, Idle, Sending, Counting
  <2>3. (\E p \in Requests : SendingOn(u, n, p)) =>
           \A p \in Requests : CompletingOn(u, p)' => CompletingOn(u, p)
    BY WhoCompletes
  <2> QED
    BY <2>1, <2>2, <2>3, PartFrame
<1>9. ASSUME NEW w, NEW part, PutPart(r, w, part[1], part[2]) PROVE FALSE
  BY <1>9, <1>q, <1>u DEF PutPart, Begin, Sending
<1>10. PutPartStep(r) \/ Fail(r)
  BY <1>q, <1>u, WhoSends
<1> QED
  BY <1>1, <1>2, <1>3, <1>4, <1>5, <1>6, <1>7, <1>8, <1>9, <1>10 DEF PutPartStep

\* A part stays as it should be, whatever a request does.
LEMMA PartStep ==
  ASSUME MultipartTypeOK, LifeInv, LifeInv', NEW r \in Requests, RequestStep(r),
         NEW v \in Uploads, LifeStep(r, v), NEW u \in Own, NEW n \in Numbers,
         <<u, n>> \notin contended', PartOK(u, n)
  PROVE  PartOK(u, n)'
<1> USE DEF MultipartTypeOK
<1>0. u \in Uploads /\ LifeOK(r)
  BY StepsAre DEF Own
<1>a. (\E p \in Requests : SendingOn(u, n, p)) =>
        \A p \in Requests : CompletingOn(u, p)' => CompletingOn(u, p)
  BY WhoCompletes
<1>p. \A p \in Requests \ {r} : SendingOn(u, n, p)' <=> SendingOn(u, n, p)
  BY DEF LifeStep, SameButLink, SendingOn, Upload, Number
<1>1. CASE Sends(r, u, n)
  BY <1>1, PartSent
<1>2. CASE ~Sends(r, u, n) /\ ~CreateRow(r) /\ ~CreatePublish(r)
  BY <1>2, <1>a, WhoSaves, PartApart
<1>3. CASE (CreateRow(r) \/ CreatePublish(r)) /\ Upload(r) # u
  <2>1. /\ req[r].pc \in Creating /\ ~Sends(r, u, n)
        /\ rows'[u] = rows[u] /\ loaded'[u] = loaded[u]
    BY <1>0, <1>3 DEF CreateRow, CreatePublish, Sends, Creating, Sending, tables
  <2> QED
    BY <1>a, <2>1, PartApart
<1>4. CASE (CreateRow(r) \/ CreatePublish(r)) /\ Upload(r) = u
  <2>1. /\ req[r].pc \in Creating /\ loaded[u] = NoSession
        /\ \A p \in Requests \ {r} : Upload(p) # u
    BY <1>0, <1>4 DEF CreateRow, CreatePublish, Creating, LifeOK
  <2>2. ~SendingOn(u, n, r)'
    <3>1. req[r].pc \notin {"create"} \cup Sending
      BY <2>1 DEF Creating, Sending
    <3> QED
      BY <3>1, WhoSends DEF SendingOn
  <2>3. \A p \in Requests : ~SendingOn(u, n, p)'
    BY <1>p, <2>1, <2>2 DEF SendingOn
  <2>4. Session(req[r].total, NoParts).parts[n] = NoPart
    BY DEF Session, NoParts
  <2>5. CASE CreateRow(r)
    <3>1. rows'[u].parts[n] = NoPart /\ loaded'[u] = NoSession
      BY <1>0, <1>4, <2>1, <2>4, <2>5 DEF CreateRow
    <3> QED
      BY <2>3, <3>1, PartQuiet
  <2>6. CASE CreatePublish(r)
    <3>1. /\ rows[u] = Session(req[r].total, NoParts)
          /\ loaded'[u] = Session(req[r].total, NoParts) /\ rows' = rows
      BY <1>0, <1>4, <2>6 DEF CreatePublish, LifeOK, Creating
    <3> QED
      BY <2>3, <2>4, <3>1, PartQuiet
  <2> QED
    BY <1>4, <2>5, <2>6
<1> QED
  BY <1>1, <1>2, <1>3, <1>4

\* What a complete has seen of a part stays as it should be.
LEMMA CompletingStep ==
  ASSUME MultipartTypeOK, LifeInv, LifeInv', NEW r \in Requests, RequestStep(r),
         NEW v \in Uploads, LifeStep(r, v), NEW u \in Own, NEW n \in Numbers, PartOK(u, n),
         \A p \in Requests : CompletingOn(u, p) => CompletingOK(u, n, req[p]),
         NEW p \in Requests, CompletingOn(u, p)'
  PROVE  CompletingOK(u, n, req[p])'
<1> USE DEF MultipartTypeOK, disk
<1>0. u \in Uploads
  BY DEF Own
<1>q. PICK q : q = req[r]
  OBVIOUS
<1>t. q \in RequestStates /\ StepOK(q) /\ LifeOK(r)
  BY <1>q, StepsAre
<1>f. ASSUME NEW x \in Requests, CompletingOn(u, x)
      PROVE  /\ file'[u][n] \in {file[u][n], NoFile}
             /\ \A y \in Requests : ~SendingOn(u, n, y)
  <2>1. \A y \in Requests : ~SendingOn(u, n, y)
    BY <1>f DEF PartOK, SendingOK
  <2>2. CASE RemoveScratch(r)
    BY <1>0, <2>1, <2>2 DEF RemoveScratch, ScratchRemoved, NoFiles
  <2>3. CASE ~RemoveScratch(r) /\ ~Sends(r, u, n)
    BY <1>0, <2>1, <2>3, WhoWrites
  <2>4. CASE Sends(r, u, n)
    <3>1. req[r].pc = "create"
      BY <2>1, <2>4 DEF Sends, SendingOn
    <3>2. PutPartStep(r) \/ Fail(r)
      BY <3>1, WhoSends
    <3>3. PutCreate(r) \/ Fail(r)
      BY <3>1, <3>2 DEF PutPartStep, PutPart, Begin, PutSpool, PutDiscard, PutReserve, PutRename,
                        PutRenameFails, PutSave, PutSaveFails
    <3> QED
      BY <2>1, <3>3 DEF PutCreate, Fail
  <2> QED
    BY <2>2, <2>3, <2>4
<1>1. CASE p # r
  <2>1. SameButLink(req[p], req'[p])
    BY <1>1 DEF LifeStep
  <2>2. CompletingOn(u, p)
    BY <2>1 DEF SameButLink, CompletingOn, Upload
  <2> QED
    BY <1>f, <2>1, <2>2, CompletingFrame DEF SameButLink
<1>2. CASE p = r
  <2>1. /\ (\E w \in Uploads : Complete(r, w)) \/ SessionStep(r) \/ Validate(r) \/ OpenPart(r)
        /\ req'[r].upload = u /\ req'[r].then \in {"validate", "open"} /\ req'[r].pc # "idle"
    BY <1>2, CompletingSteps
  <2>u. u = v
    BY <2>1, Constants DEF Own, LifeStep, Draws, Inserts, GivesUp, Publishes, Begins, Works, Idle
  <2>w. q.pc # "idle" => Upload(r) = u
    BY <1>q, <2>u DEF LifeStep, Draws, Inserts, GivesUp, Publishes, Begins, Works
  <2>2. ASSUME NEW w \in Uploads, Complete(r, w) PROVE CompletingOK(u, n, req[r])'
    <3>1. req'[r].pc = "lookup" /\ req'[r].then = "validate"
      BY <2>2 DEF Complete, Begin, Idle
    <3> QED
      BY <3>1 DEF CompletingOK
  <2>3. ASSUME SessionFound(r) PROVE CompletingOK(u, n, req[r])'
    <3>1. PICK session : session = loaded[u]
      OBVIOUS
    <3>2. PICK kept, pc : pc = q.then /\ kept = IF q.then \in {"validate", "open"} THEN session ELSE NoSession
      OBVIOUS
    <3>3. req'[r] = [q EXCEPT !.pc = pc, !.session = kept] /\ session # NoSession /\ q.pc # "idle"
      BY <1>q, <2>3, <2>w, <3>1, <3>2 DEF SessionFound, Answer
    <3>4. /\ req'[r].pc = pc /\ req'[r].session = kept /\ req'[r].then = q.then
          /\ req'[r].want = q.want /\ req'[r].got = q.got
      BY <1>t, <3>3 DEF RequestStates
    <3>5. q.then \in {"validate", "open"} /\ kept = session /\ CompletingOn(u, r)
      BY <1>q, <2>1, <2>w, <3>2, <3>3, <3>4 DEF CompletingOn
    <3>6. session.parts[n] # NoPart => file[u][n] \in {session.parts[n], NoFile}
      BY <1>f, <3>1, <3>3, <3>5 DEF PartOK
    <3>7. CompletingOK(u, n, q) /\ file'[u][n] \in {file[u][n], NoFile}
      BY <1>f, <1>q, <3>5
    <3> QED
      BY <3>4, <3>5, <3>6, <3>7 DEF CompletingOK
  <2>4. ASSUME SessionRead(r) PROVE CompletingOK(u, n, req[r])'
    <3>1. PICK row : row = rows[Upload(r)]
      OBVIOUS
    <3>2. req'[r] = [q EXCEPT !.pc = "insert", !.session = row] /\ q.pc = "lookup"
      BY <1>q, <2>4, <3>1 DEF SessionRead
    <3>3. /\ req'[r].pc = "insert" /\ req'[r].then = q.then
          /\ req'[r].want = q.want /\ req'[r].got = q.got
      BY <1>t, <3>2 DEF RequestStates
    <3>4. CompletingOn(u, r)
      BY <1>q, <2>1, <2>w, <3>2, <3>3 DEF CompletingOn
    <3> QED
      BY <1>f, <1>q, <3>3, <3>4, CompletingFrame
  <2>5. ~SessionInsert(r)
    BY <1>q, <1>t, <2>w DEF SessionInsert, LifeOK, Own
  <2>6. ASSUME Validate(r) PROVE CompletingOK(u, n, req[r])'
    <3>1. PICK chosen \in (SUBSET Numbers) \ {{}} :
            req' = [req EXCEPT ![r].pc = "lookup", ![r].then = "open", ![r].session = NoSession,
                      ![r].want = [m \in Numbers |-> IF m \in chosen THEN req[r].session.parts[m]
                                                     ELSE NoPart]]
      BY <2>6 DEF Validate
    <3>2. PICK want : want = [m \in Numbers |-> IF m \in chosen THEN q.session.parts[m] ELSE NoPart]
      OBVIOUS
    <3>3. req'[r] = [q EXCEPT !.pc = "lookup", !.then = "open", !.session = NoSession, !.want = want]
      BY <1>q, <3>1, <3>2
    <3>4. /\ req'[r].pc = "lookup" /\ req'[r].then = "open"
          /\ req'[r].want = want /\ req'[r].got = q.got
      BY <1>t, <3>3 DEF RequestStates
    <3>5. q.pc = "validate" /\ q.then = "validate" /\ q.got = NoFiles
      BY <1>q, <1>t, <2>6 DEF Validate, StepOK
    <3>6. CompletingOn(u, r)
      BY <1>q, <2>w, <3>5 DEF CompletingOn
    <3>7. CompletingOK(u, n, q) /\ file'[u][n] \in {file[u][n], NoFile}
      BY <1>f, <1>q, <3>6
    <3>8. want[n] # NoPart => want[n] = q.session.parts[n]
      BY <3>2
    <3> QED
      BY <3>4, <3>5, <3>7, <3>8 DEF CompletingOK, NoFiles
  <2>7. ASSUME OpenPart(r) PROVE CompletingOK(u, n, req[r])'
    <3>a. PICK m, x : m = Min(Unopened(r)) /\ x = file[u][m]
      OBVIOUS
    <3>b. PICK pc, session : /\ pc = IF Unopened(r) = {m} THEN "assembled" ELSE "open"
                             /\ session = IF Unopened(r) = {m} THEN NoSession ELSE q.session
      OBVIOUS
    <3>c. PICK got : got = [q.got EXCEPT ![m] = x]
      OBVIOUS
    <3>0. q.pc = "open" /\ Upload(r) = u /\ q.then = "open"
      BY <1>q, <1>t, <2>7, <2>w DEF OpenPart, StepOK
    <3>1. /\ req'[r] = [q EXCEPT !.got = got, !.pc = pc, !.session = session] /\ file' = file
      BY <1>q, <2>7, <3>0, <3>a, <3>b, <3>c DEF OpenPart
    <3>2. /\ req'[r].pc = pc /\ req'[r].then = q.then /\ req'[r].want = q.want
          /\ req'[r].got = got
      BY <1>t, <3>1 DEF RequestStates
    <3>3. got[n] = IF m = n THEN x ELSE q.got[n]
      BY <1>t, <3>c, FieldsOf
    <3>4. CompletingOK(u, n, q)
      BY <1>q, <3>0 DEF CompletingOn
    <3>5. pc # "validate"
      BY <3>b
    <3> QED
      BY <3>0, <3>1, <3>2, <3>3, <3>4, <3>5, <3>a DEF CompletingOK
  <2> QED
    BY <1>2, <2>1, <2>2, <2>3, <2>4, <2>5, <2>6, <2>7 DEF SessionStep
<1> QED
  BY <1>1, <1>2

\* A crash, a restart and the other gateways keep a part and what completes have of it.
LEMMA PartElsewhere ==
  ASSUME MultipartTypeOK, LifeInv, NEW u \in Own, NEW n \in Numbers, PartOK(u, n),
         \A p \in Requests : CompletingOn(u, p) => CompletingOK(u, n, req[p]),
         Crash \/ Restart \/ Elsewhere
  PROVE  PartOK(u, n)' /\ \A p \in Requests : CompletingOn(u, p)' => CompletingOK(u, n, req[p])'
<1> USE DEF MultipartTypeOK, tables, disk
<1>0. u \in Uploads /\ UploadOK(u)
  BY DEF Own, LifeInv
<1>i. phase # "serve" => \A p \in Requests : req[p].pc = "idle" /\ req[p].then = "none"
  BY StepsAre DEF LifeOK, StepOK
<1>1. CASE Crash
  <2>1. /\ loaded'[u] = NoSession /\ rows' = rows /\ file' = file
        /\ \A p \in Requests : req'[p].pc = "idle" /\ req'[p].then = "none"
    BY <1>0, <1>1 DEF Crash, Idle
  <2>2. \A p \in Requests : ~SendingOn(u, n, p)' /\ ~CompletingOn(u, p)'
    BY <2>1 DEF SendingOn, CompletingOn, Sending
  <2>3. rows[u] # NoSession /\ rows[u].parts[n] # NoPart => file[u][n] = rows[u].parts[n]
    BY DEF PartOK
  <2> QED
    BY <2>1, <2>2, <2>3, PartQuiet
<1>2. CASE Restart
  <2>0. phase # "serve" /\ req' = req
    BY <1>2 DEF Restart, CleanupStale, LoadActive, StartLoading, StartServing
  <2>1. \A p \in Requests : ~SendingOn(u, n, p)' /\ ~CompletingOn(u, p)' /\ ~SendingOn(u, n, p)
    BY <1>i, <2>0 DEF SendingOn, CompletingOn, Sending
  <2>2. /\ rows[u] # NoSession /\ rows[u].parts[n] # NoPart => file[u][n] = rows[u].parts[n]
        /\ loaded[u] # NoSession =>
             /\ rows[u] # NoSession => loaded[u].parts[n] = rows[u].parts[n]
             /\ loaded[u].parts[n] # NoPart => file[u][n] \in {loaded[u].parts[n], NoFile}
    BY <2>1 DEF PartOK
  <2>3. ASSUME NEW w \in Uploads, CleanupStale(w) PROVE PartOK(u, n)'
    <3>1. loaded' = loaded /\ loaded[u] = NoSession
      BY <1>0, <2>3 DEF CleanupStale, UploadOK
    <3>2. rows'[u] # NoSession => rows'[u] = rows[u] /\ file'[u] = file[u]
      BY <1>0, <2>3 DEF CleanupStale, ScratchRemoved
    <3> QED
      BY <2>1, <2>2, <3>1, <3>2, PartQuiet
  <2>4. ASSUME NEW w \in Uploads, LoadActive(w) PROVE PartOK(u, n)'
    <3>1. rows' = rows /\ file' = file /\ loaded'[u] \in {loaded[u], rows[u]}
      BY <1>0, <2>4 DEF LoadActive
    <3> QED
      BY <2>1, <2>2, <3>1, PartQuiet
  <2>5. ASSUME StartLoading \/ StartServing PROVE PartOK(u, n)'
    <3>1. rows' = rows /\ file' = file /\ loaded' = loaded
      BY <2>5 DEF StartLoading, StartServing
    <3> QED
      BY <2>1, <2>2, <3>1, PartQuiet
  <2> QED
    BY <1>2, <2>1, <2>3, <2>4, <2>5 DEF Restart
<1>3. CASE Elsewhere
  <2>1. loaded' = loaded /\ req' = req /\ file' = file /\ spool' = spool
    BY <1>3 DEF Elsewhere, CreateElsewhere, SaveElsewhere, EndElsewhere
  <2>2. rows'[u] = rows[u]
    <3>1. ASSUME NEW v \in Uploads, NEW x \in ExpectedSizes, CreateElsewhere(v, x)
          PROVE  rows'[u] = rows[u]
      BY <3>1 DEF CreateElsewhere, Own
    <3>2. ASSUME NEW v \in Uploads, NEW part \in Sent, SaveElsewhere(v, part[1], part[2])
          PROVE  rows'[u] = rows[u]
      BY <3>2 DEF SaveElsewhere, Own
    <3>3. ASSUME NEW v \in Uploads, EndElsewhere(v)
          PROVE  rows'[u] = rows[u]
      BY <3>3 DEF EndElsewhere, Own
    <3> QED
      BY <1>3, <3>1, <3>2, <3>3 DEF Elsewhere
  <2>3. \A p \in Requests : /\ SameSending(u, n, req[p], req'[p]) /\ SameLink(u, n, req[p], req'[p])
                            /\ CompletingOn(u, p)' <=> CompletingOn(u, p)
    BY <2>1 DEF SameSending, SameLink, CompletingOn, Counting, Sending, Upload
  <2>4. PartOK(u, n)'
    BY <2>1, <2>2, <2>3, PartFrame
  <2> QED
    BY <2>1, <2>3, <2>4, CompletingFrame
<1> QED
  BY <1>1, <1>2, <1>3

\* Parts that were sent at the same time or again stay counted as that.
LEMMA ContendedStay ==
  ASSUME [MultipartNext]_multipartVars
  PROVE  contended \subseteq contended'
<1> USE DEF tables, disk, history, multipartVars
<1>1. ASSUME NEW r \in Requests, RequestStep(r) PROVE contended \subseteq contended'
  <2>1. CreateStep(r) \/ SessionStep(r) \/ Fail(r) => contended \subseteq contended'
    BY DEF CreateStep, CreateBegin, CreateRow, CreateRowFails, CreatePublish,
           SessionStep, SessionFound, SessionRead, SessionInsert, Fail
  <2>2. PutPartStep(r) => contended \subseteq contended'
    BY DEF PutPartStep, PutPart, PutCreate, PutSpool, PutDiscard, PutReserve, PutRename,
           PutRenameFails, PutSave, PutSaveFails
  <2>3. CompleteStep(r) \/ AbortStep(r) => contended \subseteq contended'
    BY DEF CompleteStep, Complete, Validate, OpenPart, PutObject, AbortStep, Abort,
           DeleteRow, Unload, RemoveScratch
  <2> QED
    BY <1>1, <2>1, <2>2, <2>3 DEF RequestStep
<1>2. Crash \/ Restart \/ Elsewhere => contended' = contended
  BY DEF Crash, Restart, CleanupStale, LoadActive, StartLoading, StartServing,
         Elsewhere, CreateElsewhere, SaveElsewhere, EndElsewhere
<1> QED
  BY <1>1, <1>2 DEF MultipartNext, RequestStep

\* Every step keeps PartsInv.
LEMMA PartsNext == Lives /\ PartsInv /\ [MultipartNext]_multipartVars => PartsInv'
<1> SUFFICES ASSUME MultipartTypeOK, LifeInv, PartsInv, [MultipartNext]_multipartVars,
                    NEW u \in Own, NEW n \in Numbers, <<u, n>> \notin contended'
             PROVE  PartOK(u, n)' /\ \A p \in Requests : CompletingOn(u, p)' => CompletingOK(u, n, req[p])'
  BY DEF Lives, PartsInv, Plain
<1>0. PartOK(u, n) /\ \A p \in Requests : CompletingOn(u, p) => CompletingOK(u, n, req[p])
  BY ContendedStay DEF PartsInv, Plain
<1>l. LifeInv'
  BY LifeNext DEF Lives
<1>1. ASSUME NEW r \in Requests, RequestStep(r)
      PROVE  PartOK(u, n)' /\ \A p \in Requests : CompletingOn(u, p)' => CompletingOK(u, n, req[p])'
  <2>1. PICK v \in Uploads : LifeStep(r, v)
    BY <1>1, StepIsLife
  <2>2. PartOK(u, n)'
    BY <1>0, <1>1, <1>l, <2>1, PartStep
  <2>3. ASSUME NEW p \in Requests, CompletingOn(u, p)' PROVE CompletingOK(u, n, req[p])'
    BY <1>0, <1>1, <1>l, <2>1, <2>3, CompletingStep
  <2> QED
    BY <2>2, <2>3
<1>2. CASE UNCHANGED multipartVars
  <2>1. /\ loaded' = loaded /\ rows' = rows /\ req' = req /\ file' = file /\ spool' = spool
    BY <1>2 DEF multipartVars, tables, disk
  <2>2. \A p \in Requests : /\ SameSending(u, n, req[p], req'[p]) /\ SameLink(u, n, req[p], req'[p])
                            /\ CompletingOn(u, p)' <=> CompletingOn(u, p)
    BY <2>1 DEF SameSending, SameLink, CompletingOn, Counting, Sending, Upload
  <2>3. PartOK(u, n)'
    BY <1>0, <2>1, <2>2, PartFrame
  <2> QED
    BY <1>0, <2>1, <2>2, <2>3, CompletingFrame
<1>3. CASE Crash \/ Restart \/ Elsewhere
  BY <1>0, <1>3, PartElsewhere
<1> QED
  BY <1>1, <1>2, <1>3 DEF MultipartNext, RequestStep

\* No part is listed at first.
LEMMA PartsInit == MultipartInit => PartsInv
BY DEF MultipartInit, PartsInv, Plain, PartOK, SendingOn, Sending, CompletingOn, Idle, Own

\* For any uploads, parts, requests, crashes and other gateways: a part the
\* metadata lists is in scratch, whole and with the content its ETag was
\* computed from, unless it was sent again.  (PutPart's rename before its row,
\* Abort's row before its scratch, LoadActive.)
THEOREM PartsAreIntact == MultipartSpec => []PartsIntact
<1>1. MultipartInit => Lives /\ PartsInv
  BY TypeInit, LifeInit, PartsInit DEF Lives
<1>2. Lives /\ PartsInv /\ [MultipartNext]_multipartVars => Lives' /\ PartsInv'
  BY LifeNext, PartsNext
<1>3. PartsInv => PartsIntact
  BY DEF PartsInv, Plain, PartOK, PartsIntact, Own
<1> QED
  BY <1>1, <1>2, <1>3, PTL DEF MultipartSpec

\* A completed object is assembled from the parts and the contents that were
\* validated, unless one of them was sent again or through another gateway.
\* (validateCompletedParts and Manager.Open look the session up on their own.)
THEOREM CompletesAssembleWhatTheyValidated == MultipartSpec => []AssembledAsValidated
<1>1. MultipartInit => Lives /\ PartsInv
  BY TypeInit, LifeInit, PartsInit DEF Lives
<1>2. Lives /\ PartsInv /\ [MultipartNext]_multipartVars => Lives' /\ PartsInv'
  BY LifeNext, PartsNext
<1>3. Lives /\ PartsInv => AssembledAsValidated
  <2> SUFFICES ASSUME MultipartTypeOK, LifeInv, PartsInv, NEW r \in Requests,
                      req[r].pc = "assembled", Upload(r) \notin Foreign, NEW n \in Numbers,
                      <<Upload(r), n>> \notin contended, req[r].want[n] # NoPart
               PROVE  req[r].want[n] = req[r].got[n]
    BY DEF Lives, AssembledAsValidated
  <2>1. StepOK(req[r]) /\ req[r] \in RequestStates
    BY StepsAre DEF MultipartTypeOK
  <2>2. req[r].then = "open" /\ req[r].got[n] # NoFile
    BY <2>1 DEF StepOK
  <2>3. Upload(r) \in Own
    BY <2>1, FieldsOf DEF StepOK, Own, Upload
  <2>4. CompletingOK(Upload(r), n, req[r])
    BY <2>2, <2>3 DEF PartsInv, Plain, CompletingOn
  <2> QED
    BY <2>2, <2>4 DEF CompletingOK
<1> QED
  BY <1>1, <1>2, <1>3, PTL DEF MultipartSpec

-----------------------------------------------------------------------------
(* Bytes reserved.                                                         *)

Live(sessions) == {u \in Uploads : sessions[u] # NoSession}

Size(session) == IF session = NoSession THEN 0 ELSE session.reserved

Sizes(sessions) == [u \in Uploads |-> Size(sessions[u])]

Hand(q) ==
  IF q.pc \in Creating THEN q.total
  ELSE IF q.pc \in Counting THEN Positive(-q.delta) ELSE 0

Hands(requests) == [r \in Requests |-> Hand(requests[r])]

TotalOf(sessions) == SumOf(Sizes(sessions), Live(sessions))

TotalInHand == SumOf(Hands(req), Requests)

(* What is reserved is what the sessions in memory and the requests under  *)
(* way have reserved, and within the capacity.                             *)
BytesInv ==
  /\ IsFiniteSet(Live(loaded)) /\ IsFiniteSet(Live(rows))
  /\ overlapped = {} => used = TotalOf(loaded) + TotalInHand
  /\ Capacity > 0 => used <= Capacity

(* While the gateway is down the rows it will load fit.                    *)
FitsInv ==
  (phase # "serve" /\ overlapped = {} /\ (\A u \in Foreign : issued[u] = "new") /\ Capacity > 0)
    => TotalOf(rows) <= Capacity

\* Sizes are numbers.
LEMMA SizesAre ==
  ASSUME NEW sessions \in [Uploads -> Sessions \cup {NoSession}]
  PROVE  /\ \A u \in Uploads : Sizes(sessions)[u] = Size(sessions[u]) /\ Size(sessions[u]) \in Nat
         /\ Live(sessions) \subseteq Uploads
         /\ \A u \in Uploads : u \notin Live(sessions) => Size(sessions[u]) = 0
         /\ IsFiniteSet(Live(sessions)) => TotalOf(sessions) \in Nat
<1>1. ASSUME NEW u \in Uploads
      PROVE  Sizes(sessions)[u] = Size(sessions[u]) /\ Size(sessions[u]) \in Nat
  <2>1. sessions[u] # NoSession => sessions[u].reserved \in Nat
    BY DEF Sessions
  <2> QED
    BY <2>1 DEF Sizes, Size
<1>2. Live(sessions) \subseteq Uploads
  BY DEF Live
<1>3. IsFiniteSet(Live(sessions)) => TotalOf(sessions) \in Nat
  BY <1>1, <1>2, SumType DEF TotalOf
<1> QED
  BY <1>1, <1>2, <1>3 DEF Live, Size

\* What requests have in hand are numbers.
LEMMA HandsAre ==
  ASSUME NEW requests \in [Requests -> RequestStates]
  PROVE  /\ \A r \in Requests : Hands(requests)[r] = Hand(requests[r]) /\ Hand(requests[r]) \in Nat
         /\ SumOf(Hands(requests), Requests) \in Nat
<1>1. ASSUME NEW r \in Requests
      PROVE  Hands(requests)[r] = Hand(requests[r]) /\ Hand(requests[r]) \in Nat
  <2>1. requests[r].total \in Nat /\ requests[r].delta \in Int
    BY FieldsOf
  <2> QED
    BY <2>1 DEF Hands, Hand, Positive
<1>2. IsFiniteSet(Requests)
  BY Constants
<1> QED
  BY <1>1, <1>2, SumType

\* The sessions' bytes are summed in any order.
LEMMA ReservedByIs ==
  ASSUME NEW sessions
  PROVE  ReservedBy(sessions) = TotalOf(sessions)
<1>1. PICK L, f : L = Live(sessions) /\ f = Sizes(sessions)
  OBVIOUS
<1>2. \A x \in L : f[x] = sessions[x].reserved
  BY <1>1 DEF Live, Sizes, Size
<1>3. \A s \in SUBSET L : s # {} => f[Chosen(s)] = sessions[Chosen(s)].reserved
  BY <1>2, ChosenIn
<1>4. ReservedBy(sessions) =
        (CHOOSE g : g = [s \in SUBSET L |->
            IF s = {} THEN 0 ELSE sessions[Chosen(s)].reserved + g[s \ {Chosen(s)}]])[L]
  BY <1>1 DEF ReservedBy, Live, MapThenSumSet, MapThenFoldSet, Chosen
<1>5. \A g : [s \in SUBSET L |->
               IF s = {} THEN 0 ELSE sessions[Chosen(s)].reserved + g[s \ {Chosen(s)}]]
           = [s \in SUBSET L |-> IF s = {} THEN 0 ELSE f[Chosen(s)] + g[s \ {Chosen(s)}]]
  BY <1>3
<1>6. (CHOOSE g : g = [s \in SUBSET L |->
            IF s = {} THEN 0 ELSE sessions[Chosen(s)].reserved + g[s \ {Chosen(s)}]])
    = (CHOOSE g : g = [s \in SUBSET L |->
            IF s = {} THEN 0 ELSE f[Chosen(s)] + g[s \ {Chosen(s)}]])
  BY <1>5
<1>7. SumOf(f, L) = (CHOOSE g : g = [s \in SUBSET L |->
            IF s = {} THEN 0 ELSE f[Chosen(s)] + g[s \ {Chosen(s)}]])[L]
  BY SumIs DEF Sums
<1> QED
  BY <1>1, <1>4, <1>6, <1>7 DEF TotalOf

\* So are the bytes in hand.
LEMMA InHandIs == MapThenSumSet(InHand, Requests) = TotalInHand
<1>1. PICK f : f = Hands(req)
  OBVIOUS
<1>2. \A r \in Requests : f[r] = InHand(r)
  BY <1>1 DEF Hands, Hand, InHand, Creating, Counting, Reserving
<1>3. \A s \in SUBSET Requests : s # {} => f[Chosen(s)] = InHand(Chosen(s))
  BY <1>2, ChosenIn
<1>4. MapThenSumSet(InHand, Requests) =
        (CHOOSE g : g = [s \in SUBSET Requests |->
            IF s = {} THEN 0 ELSE InHand(Chosen(s)) + g[s \ {Chosen(s)}]])[Requests]
  BY DEF MapThenSumSet, MapThenFoldSet, Chosen
<1>5. \A g : [s \in SUBSET Requests |->
               IF s = {} THEN 0 ELSE InHand(Chosen(s)) + g[s \ {Chosen(s)}]]
           = [s \in SUBSET Requests |-> IF s = {} THEN 0 ELSE f[Chosen(s)] + g[s \ {Chosen(s)}]]
  BY <1>3
<1>6. (CHOOSE g : g = [s \in SUBSET Requests |->
            IF s = {} THEN 0 ELSE InHand(Chosen(s)) + g[s \ {Chosen(s)}]])
    = (CHOOSE g : g = [s \in SUBSET Requests |->
            IF s = {} THEN 0 ELSE f[Chosen(s)] + g[s \ {Chosen(s)}]])
  BY <1>5
<1>7. SumOf(f, Requests) = (CHOOSE g : g = [s \in SUBSET Requests |->
            IF s = {} THEN 0 ELSE f[Chosen(s)] + g[s \ {Chosen(s)}]])[Requests]
  BY SumIs DEF Sums
<1> QED
  BY <1>1, <1>4, <1>6, <1>7 DEF TotalInHand

\* One session changes, and the sum with it.
LEMMA SessionMoves ==
  ASSUME NEW old \in [Uploads -> Sessions \cup {NoSession}],
         NEW new \in [Uploads -> Sessions \cup {NoSession}], NEW u \in Uploads,
         \A v \in Uploads \ {u} : new[v] = old[v], IsFiniteSet(Live(old))
  PROVE  /\ IsFiniteSet(Live(new))
         /\ TotalOf(new) = TotalOf(old) - Size(old[u]) + Size(new[u])
<1>1. PICK f, g, S, T : f = Sizes(old) /\ g = Sizes(new) /\ S = Live(old) /\ T = Live(new)
  OBVIOUS
<1>2. /\ IsFiniteSet(S) /\ S \ {u} = T \ {u}
      /\ \A x \in S : x # u => f[x] = g[x]
  BY <1>1 DEF Live, Sizes
<1>3. (\A x \in S : f[x] \in Int) /\ (\A x \in T : g[x] \in Int)
  <2>1. S \subseteq Uploads /\ T \subseteq Uploads
    BY <1>1 DEF Live
  <2>2. \A x \in Uploads : f[x] \in Nat /\ g[x] \in Nat
    BY <1>1, SizesAre
  <2> QED
    BY <2>1, <2>2
<1>4. /\ IsFiniteSet(T)
      /\ SumOf(g, T) = SumOf(f, S) - (IF u \in S THEN f[u] ELSE 0) + (IF u \in T THEN g[u] ELSE 0)
  BY <1>2, <1>3, SumMoves
<1>5. /\ (IF u \in S THEN f[u] ELSE 0) = Size(old[u])
      /\ (IF u \in T THEN g[u] ELSE 0) = Size(new[u])
  BY <1>1, SizesAre
<1> QED
  BY <1>1, <1>4, <1>5 DEF TotalOf

\* One request moves, and what is in hand with it.
LEMMA HandMoves ==
  ASSUME NEW old \in [Requests -> RequestStates], NEW new \in [Requests -> RequestStates],
         NEW r \in Requests, \A p \in Requests \ {r} : Hand(new[p]) = Hand(old[p])
  PROVE  SumOf(Hands(new), Requests) = SumOf(Hands(old), Requests) - Hand(old[r]) + Hand(new[r])
<1>1. PICK f, g : f = Hands(old) /\ g = Hands(new)
  OBVIOUS
<1>2. /\ \A p \in Requests : f[p] \in Int
      /\ g[r] \in Int /\ g[r] = Hand(new[r]) /\ f[r] = Hand(old[r])
      /\ \A p \in Requests : p # r => g[p] = f[p]
  BY <1>1, HandsAre
<1>3. IsFiniteSet(Requests)
  BY Constants
<1>4. SumOf(g, Requests) = SumOf(f, Requests) - f[r] + g[r]
  BY <1>2, <1>3, SumChanges
<1> QED
  BY <1>1, <1>2, <1>4

\* What a request's step reserves or gives back is what its upload and it have
\* more or less afterwards.  (TryReserve, Release and their callers.)
BytesStep(r, u) ==
  used' = used + Size(loaded'[u]) - Size(loaded[u]) + Hand(req'[r]) - Hand(req[r])

\* Bytes are given back as long as there are any.
LEMMA ReleasedIs ==
  ASSUME used \in Nat, NEW bytes \in Int
  PROVE  /\ Released(bytes) <= used
         /\ bytes <= 0 => Released(bytes) = used
         /\ 0 <= bytes /\ bytes <= used => Released(bytes) = used - bytes
BY DEF Released, Positive

\* Every step of a request reserves what it takes.
LEMMA StepBytes ==
  ASSUME MultipartTypeOK, LifeInv, NEW r \in Requests, RequestStep(r),
         NEW u \in Uploads, LifeStep(r, u), MemoryOK(u), Size(loaded[u]) + Hand(req[r]) <= used
  PROVE  BytesStep(r, u)
<1> USE DEF MultipartTypeOK, tables, disk, history
<1>q. PICK q : q = req[r]
  OBVIOUS
<1>t. q \in RequestStates /\ StepOK(q) /\ LifeOK(r)
  BY <1>q, StepsAre
<1>u. q.pc # "idle" => Upload(r) = u
  BY <1>q DEF LifeStep, Draws, Inserts, GivesUp, Publishes, Begins, Works
<1>n. Size(loaded[u]) \in Nat /\ Hand(q) \in Nat /\ used \in Nat
      /\ q.total \in Nat /\ q.delta \in Int /\ q.before \in Nat
  BY <1>q, <1>t, SizesAre, HandsAre, FieldsOf
<1>h. Size(loaded[u]) + Hand(q) <= used
  BY <1>q
<1>i. Hand(Idle) = 0
  BY DEF Hand, Idle, Creating, Counting
<1>p. ASSUME used' = used, loaded'[u] = loaded[u], issued' = issued,
             q.pc \notin Creating \cup Counting, ~PutReserve(r), ~PutRename(r)
      PROVE  BytesStep(r, u)
  <2>1. req'[r].pc \notin Counting
    BY <1>p, WhoCounts
  <2>2. req'[r].pc \notin Creating
    BY <1>p, <1>q DEF LifeStep, Draws, Inserts, GivesUp, Publishes, Begins, Works, Creating
  <2>3. Hand(q) = 0 /\ Hand(req'[r]) = 0
    BY <1>p, <2>1, <2>2 DEF Hand
  <2> QED
    BY <1>n, <1>p, <1>q, <2>3 DEF BytesStep
<1>b. ASSUME NEW then, NEW v, NEW n, NEW body, Begin(r, then, v, n, body)
      PROVE  BytesStep(r, u)
  BY <1>b, <1>p, <1>q DEF Begin, PutReserve, PutRename, Creating, Counting
<1>1. CASE CreateStep(r)
  <2>1. ASSUME NEW v \in Uploads, NEW expected \in ExpectedSizes, CreateBegin(r, v, expected)
        PROVE  BytesStep(r, u)
    <3>1. expected \in Nat
      BY Constants
    <3>2. used' = used + expected /\ loaded' = loaded /\ q.pc = "idle"
      BY <1>n, <1>q, <2>1, <3>1 DEF CreateBegin, Reserved, Positive
    <3>3. req'[r].pc = "insertrow" /\ req'[r].total = expected
      BY <2>1 DEF CreateBegin, Idle
    <3>4. Hand(q) = 0 /\ Hand(req'[r]) = expected
      BY <3>2, <3>3 DEF Hand, Creating, Counting
    <3> QED
      BY <1>n, <1>q, <3>1, <3>2, <3>4 DEF BytesStep
  <2>2. ASSUME CreateRow(r) PROVE BytesStep(r, u)
    <3>1. req'[r] = [q EXCEPT !.pc = "publish"] /\ q.pc = "insertrow"
          /\ used' = used /\ loaded' = loaded
      BY <1>q, <2>2 DEF CreateRow
    <3>2. req'[r].pc = "publish" /\ req'[r].total = q.total
      BY <1>t, <3>1 DEF RequestStates
    <3>3. Hand(q) = q.total /\ Hand(req'[r]) = q.total
      BY <3>1, <3>2 DEF Hand, Creating
    <3> QED
      BY <1>n, <1>q, <3>1, <3>3 DEF BytesStep
  <2>3. ASSUME CreateRowFails(r) PROVE BytesStep(r, u)
    <3>1. req'[r] = Idle /\ q.pc = "insertrow" /\ used' = Released(q.total) /\ loaded' = loaded
      BY <1>q, <2>3 DEF CreateRowFails
    <3>2. Hand(q) = q.total
      BY <3>1 DEF Hand, Creating
    <3>3. used' = used - q.total
      BY <1>h, <1>n, <3>1, <3>2, ReleasedIs
    <3> QED
      BY <1>i, <1>n, <1>q, <3>1, <3>2, <3>3 DEF BytesStep
  <2>4. ASSUME CreatePublish(r) PROVE BytesStep(r, u)
    <3>1. req'[r] = Idle /\ q.pc = "publish" /\ used' = used
          /\ loaded'[u] = Session(q.total, NoParts)
      BY <1>q, <1>u, <2>4 DEF CreatePublish
    <3>2. loaded[u] = NoSession
      BY <1>q, <1>t, <1>u, <3>1 DEF LifeOK, Creating
    <3>3. Session(q.total, NoParts) \in Sessions
      BY <1>n, SessionIs
    <3>4. Size(loaded'[u]) = q.total /\ Size(loaded[u]) = 0
      BY <3>1, <3>2, <3>3, Constants DEF Size, Session
    <3>5. Hand(q) = q.total
      BY <3>1 DEF Hand, Creating
    <3> QED
      BY <1>i, <1>n, <1>q, <3>1, <3>4, <3>5 DEF BytesStep
  <2> QED
    BY <1>1, <2>1, <2>2, <2>3, <2>4 DEF CreateStep
<1>2. CASE SessionStep(r)
  <2>1. ASSUME SessionFound(r) \/ SessionRead(r) PROVE BytesStep(r, u)
    BY <1>p, <1>q, <2>1
       DEF SessionFound, SessionRead, PutReserve, PutRename, Creating, Counting
  <2>2. ASSUME SessionInsert(r) PROVE BytesStep(r, u)
    <3>1. ~PutReserve(r) /\ ~PutRename(r) /\ q.pc = "insert" /\ Upload(r) = u
      BY <1>q, <1>u, <2>2 DEF SessionInsert, PutReserve, PutRename
    <3>2. issued' = issued
      BY <2>2 DEF SessionInsert
    <3>3. CASE loaded[u] # NoSession
      <4>1. used' = used /\ loaded'[u] = loaded[u]
        BY <2>2, <3>1, <3>3 DEF SessionInsert
      <4> QED
        BY <1>p, <3>1, <3>2, <4>1 DEF Creating, Counting
    <3>4. CASE loaded[u] = NoSession
      <4>1. PICK s : s = q.session
        OBVIOUS
      <4>2. s \in Sessions /\ s # NoSession
        BY <1>t, <3>1, <4>1, FieldsOf, Constants DEF StepOK
      <4>3. used' = Reserved(s.reserved) /\ loaded'[u] = s
        BY <1>q, <2>2, <3>1, <3>4, <4>1 DEF SessionInsert
      <4>4. s.reserved \in Nat
        BY <4>2 DEF Sessions
      <4>5. Size(loaded'[u]) = s.reserved /\ Size(loaded[u]) = 0
        BY <3>4, <4>2, <4>3 DEF Size
      <4>6. used' = used + s.reserved
        BY <1>n, <4>3, <4>4 DEF Reserved, Positive
      <4>7. req'[r].pc \notin Counting \cup Creating
        <5>1. req'[r].pc \notin Counting
          BY <3>1, WhoCounts
        <5>2. req'[r].pc \notin Creating
          BY <1>q, <3>1
             DEF LifeStep, Draws, Inserts, GivesUp, Publishes, Begins, Works, Creating
        <5> QED
          BY <5>1, <5>2
      <4>8. Hand(q) = 0 /\ Hand(req'[r]) = 0
        BY <3>1, <4>7 DEF Hand, Creating, Counting
      <4> QED
        BY <1>n, <1>q, <4>4, <4>5, <4>6, <4>8 DEF BytesStep
    <3> QED
      BY <3>3, <3>4
  <2> QED
    BY <1>2, <2>1, <2>2 DEF SessionStep
<1>r. ASSUME Rollback(r), q.pc \in Counting, req'[r].pc = "idle" PROVE BytesStep(r, u)
  <2>1. CountingOn(u, r) /\ CountingOK(r) /\ Upload(r) = u
    BY <1>q, <1>r, <1>u DEF MemoryOK, CountingOn, Counting
  <2>2. loaded[u] # NoSession /\ loaded[u].reserved = q.total /\ q.delta = q.total - q.before
    BY <1>q, <2>1 DEF CountingOK
  <2>3. PICK parts : parts = [loaded[u].parts EXCEPT ![Number(r)] = q.previous]
    OBVIOUS
  <2>4. loaded'[u] = Session(q.before, parts) /\ used' = Released(q.delta)
    BY <1>q, <1>r, <2>1, <2>2, <2>3 DEF Rollback
  <2>5. parts \in [Numbers -> Bodies \cup {NoPart}]
    <3>1. loaded[u] \in Sessions
      BY <2>2
    <3>2. q.previous \in Bodies \cup {NoPart}
      BY <1>t, FieldsOf
    <3> QED
      BY <2>3, <3>1, <3>2 DEF Sessions
  <2>6. Session(q.before, parts) \in Sessions
    BY <1>n, <2>5, SessionIs
  <2>7. Size(loaded'[u]) = q.before /\ Size(loaded[u]) = q.total
    BY <2>2, <2>4, <2>6, Constants DEF Size, Session
  <2>8. Hand(q) = Positive(-q.delta) /\ Hand(req'[r]) = 0
    BY <1>r DEF Hand, Creating, Counting
  <2>9. used' = used - Positive(q.delta)
    BY <1>h, <1>n, <2>2, <2>4, <2>7, ReleasedIs DEF Positive
  <2> QED
    BY <1>n, <1>q, <2>2, <2>7, <2>8, <2>9 DEF BytesStep, Positive
<1>3. CASE PutPartStep(r)
  <2>1. ASSUME PutCreate(r) \/ PutSpool(r) \/ PutDiscard(r) PROVE BytesStep(r, u)
    <3>1. /\ q.pc \in {"create", "spool", "reserve"}
          /\ loaded' = loaded /\ used' = used /\ issued' = issued
      BY <1>q, <2>1 DEF PutCreate, PutSpool, PutDiscard
    <3>2. ~PutReserve(r)
      BY <2>1, NotReserving
    <3>3. ~PutRename(r)
      BY <1>q, <3>1 DEF PutRename
    <3> QED
      BY <1>p, <3>1, <3>2, <3>3 DEF Creating, Counting
  <2>2. ASSUME PutReserve(r) PROVE BytesStep(r, u)
    <3>a. PICK s, parts, t, d :
            /\ s = loaded[u] /\ parts = [s.parts EXCEPT ![Number(r)] = q.body]
            /\ t = Total(parts) /\ d = t - s.reserved
      OBVIOUS
    <3>b. PICK x, b : x = s.parts[Number(r)] /\ b = s.reserved
      OBVIOUS
    <3>u. Upload(r) = u /\ q.pc = "reserve"
      BY <1>q, <1>u, <2>2 DEF PutReserve
    <3>1. /\ loaded' = [loaded EXCEPT ![u] = Session(t, parts)]
          /\ req' = [req EXCEPT ![r] = [q EXCEPT !.pc = "rename", !.delta = d, !.total = t,
                                                 !.previous = x, !.before = b]]
          /\ used' = Reserved(d)
      BY <1>q, <2>2, <3>a, <3>b, <3>u DEF PutReserve
    <3>2. req'[r].pc = "rename" /\ req'[r].delta = d
      BY <1>q, <1>t, <3>1, <3>u DEF RequestStates
    <3>3. s \in Sessions /\ s # NoSession
      BY <2>2, <3>a, <3>u, Constants DEF PutReserve
    <3>4. Number(r) \in Numbers /\ q.body \in Bodies
      BY <1>q, <1>t, <3>u DEF StepOK, Sending, Number
    <3>5. parts \in [Numbers -> Bodies \cup {NoPart}] /\ s.reserved \in Nat
      BY <3>3, <3>4, <3>a DEF Sessions
    <3>6. t \in Nat
      BY <3>5, <3>a, TotalIs
    <3>7. Session(t, parts) \in Sessions /\ Session(t, parts) # NoSession
      BY <3>5, <3>6, SessionIs, Constants
    <3>8. Size(loaded'[u]) = t /\ Size(loaded[u]) = s.reserved
      BY <3>1, <3>3, <3>7, <3>a DEF Size, Session
    <3>9. Hand(q) = 0 /\ Hand(req'[r]) = Positive(-d)
      BY <3>2, <3>u DEF Hand, Creating, Counting
    <3> QED
      BY <1>n, <1>q, <3>1, <3>5, <3>6, <3>8, <3>9, <3>a DEF BytesStep, Reserved, Positive
  <2>3. ASSUME PutRename(r) PROVE BytesStep(r, u)
    <3>1. req'[r] = [q EXCEPT !.pc = "save"] /\ q.pc = "rename"
      BY <1>q, <2>3 DEF PutRename
    <3>2. req'[r].pc = "save" /\ req'[r].delta = q.delta
      BY <1>t, <3>1 DEF RequestStates
    <3>3. Hand(req'[r]) = Hand(q)
      BY <3>1, <3>2 DEF Hand, Creating, Counting
    <3>4. loaded' = loaded /\ used' = used
      BY <2>3 DEF PutRename
    <3> QED
      BY <1>n, <1>q, <3>3, <3>4 DEF BytesStep
  <2>4. ASSUME PutRenameFails(r) \/ PutSaveFails(r) PROVE BytesStep(r, u)
    <3>1. Rollback(r) /\ q.pc \in Counting
      BY <2>4, <1>q DEF PutRenameFails, PutSaveFails, Counting
    <3>2. req'[r].pc = "idle"
      <4>1. \A from, to : r \in DOMAIN Relinked(r, from, to)
        BY DEF Relinked
      <4> QED
        BY <2>4, <4>1 DEF PutRenameFails, PutSaveFails, SpoolRemoved, Idle
    <3> QED
      BY <1>r, <3>1, <3>2
  <2>5. ASSUME PutSave(r) PROVE BytesStep(r, u)
    <3>1. q.pc = "save" /\ req'[r] = Idle /\ loaded' = loaded /\ used' = Released(-q.delta)
      BY <1>q, <2>5 DEF PutSave
    <3>2. Hand(q) = Positive(-q.delta)
      BY <3>1 DEF Hand, Creating, Counting
    <3>3. used' = used - Positive(-q.delta)
      BY <1>h, <1>n, <3>1, <3>2, ReleasedIs DEF Positive
    <3> QED
      BY <1>i, <1>n, <1>q, <3>1, <3>2, <3>3 DEF BytesStep
  <2> QED
    BY <1>3, <1>b, <2>1, <2>2, <2>3, <2>4, <2>5 DEF PutPartStep, PutPart
<1>4. CASE CompleteStep(r)
  <2>1. ASSUME Validate(r) \/ OpenPart(r) \/ PutObject(r) PROVE BytesStep(r, u)
    BY <1>p, <1>q, <2>1
       DEF Validate, OpenPart, PutObject, PutReserve, PutRename, Creating, Counting
  <2> QED
    BY <1>4, <1>b, <2>1 DEF CompleteStep, Complete
<1>5. CASE AbortStep(r) \/ Fail(r)
  <2>1. ASSUME DeleteRow(r) \/ RemoveScratch(r) \/ Fail(r) PROVE BytesStep(r, u)
    BY <1>p, <1>q, <2>1
       DEF DeleteRow, RemoveScratch, Fail, PutReserve, PutRename, Creating, Counting
  <2>2. ASSUME Unload(r) PROVE BytesStep(r, u)
    <3>1. Upload(r) = u /\ loaded'[u] = NoSession /\ q.pc = "unload"
          /\ used' = IF loaded[u] = NoSession THEN used ELSE Released(loaded[u].reserved)
      BY <1>q, <1>u, <2>2 DEF Unload
    <3>2. req'[r] = [q EXCEPT !.pc = "removeall"]
      BY <1>q, <2>2 DEF Unload
    <3>3. req'[r].pc = "removeall"
      BY <1>t, <3>2 DEF RequestStates
    <3>4. Hand(q) = 0 /\ Hand(req'[r]) = 0
      BY <3>1, <3>3 DEF Hand, Creating, Counting
    <3>5. used' = used - Size(loaded[u]) /\ Size(loaded'[u]) = 0
      BY <1>h, <1>n, <3>1, <3>4, ReleasedIs DEF Size
    <3> QED
      BY <1>n, <1>q, <3>4, <3>5 DEF BytesStep
  <2> QED
    BY <1>5, <1>b, <2>1, <2>2 DEF AbortStep, Abort
<1> QED
  BY <1>1, <1>2, <1>3, <1>4, <1>5 DEF RequestStep

\* What one session has reserved is within the sum.
LEMMA SizeWithin ==
  ASSUME NEW sessions \in [Uploads -> Sessions \cup {NoSession}], IsFiniteSet(Live(sessions)),
         NEW u \in Uploads
  PROVE  Size(sessions[u]) <= TotalOf(sessions)
<1>1. PICK f, S : f = Sizes(sessions) /\ S = Live(sessions)
  OBVIOUS
<1>2. IsFiniteSet(S) /\ (\A x \in S : f[x] \in Nat) /\ f[u] = Size(sessions[u])
  BY <1>1, SizesAre
<1>3. CASE u \in S
  BY <1>1, <1>2, <1>3, SumHas DEF TotalOf
<1>4. CASE u \notin S
  BY <1>1, <1>4, SizesAre
<1> QED
  BY <1>3, <1>4

\* So is what one request has in hand.
LEMMA HandWithin ==
  ASSUME NEW requests \in [Requests -> RequestStates], NEW r \in Requests
  PROVE  Hand(requests[r]) <= SumOf(Hands(requests), Requests)
<1>1. PICK h : h = Hands(requests)
  OBVIOUS
<1>2. (\A x \in Requests : h[x] \in Nat) /\ h[r] = Hand(requests[r]) /\ IsFiniteSet(Requests)
  BY <1>1, HandsAre, Constants
<1> QED
  BY <1>1, <1>2, SumHas

\* A request's step keeps the sums.
LEMMA BytesUpload ==
  ASSUME MultipartTypeOK, MultipartTypeOK', LifeInv, MemoryInv, [MultipartNext]_multipartVars,
         NEW r \in Requests, RequestStep(r), BytesInv
  PROVE  /\ IsFiniteSet(Live(loaded))' /\ IsFiniteSet(Live(rows))'
         /\ overlapped' = {} => used' = TotalOf(loaded)' + TotalInHand'
<1>1. PICK u \in Uploads : LifeStep(r, u)
  BY StepIsLife
<1>2. /\ loaded \in [Uploads -> Sessions \cup {NoSession}]
      /\ loaded' \in [Uploads -> Sessions \cup {NoSession}]
      /\ rows \in [Uploads -> Sessions \cup {NoSession}]
      /\ rows' \in [Uploads -> Sessions \cup {NoSession}]
      /\ req \in [Requests -> RequestStates] /\ req' \in [Requests -> RequestStates]
      /\ used \in Nat
  BY DEF MultipartTypeOK
<1>3. \A v \in Uploads \ {u} : loaded'[v] = loaded[v] /\ rows'[v] = rows[v]
  BY <1>1 DEF LifeStep, TouchesOnly
<1>4. IsFiniteSet(Live(loaded)) /\ IsFiniteSet(Live(rows))
  BY DEF BytesInv
<1>5. /\ IsFiniteSet(Live(loaded'))
      /\ TotalOf(loaded') = TotalOf(loaded) - Size(loaded[u]) + Size(loaded'[u])
  BY <1>2, <1>3, <1>4, SessionMoves
<1>6. IsFiniteSet(Live(rows'))
  BY <1>2, <1>3, <1>4, SessionMoves
<1>7. \A p \in Requests \ {r} : Hand(req'[p]) = Hand(req[p])
  BY <1>1 DEF LifeStep, SameButLink, Hand
<1>8. SumOf(Hands(req'), Requests) = SumOf(Hands(req), Requests) - Hand(req[r]) + Hand(req'[r])
  BY <1>2, <1>7, HandMoves
<1>9. ASSUME overlapped' = {} PROVE used' = TotalOf(loaded') + SumOf(Hands(req'), Requests)
  <2>1. overlapped = {}
    BY <1>9, OverlapsStay
  <2>2. MemoryOK(u)
    BY <2>1 DEF MemoryInv
  <2>3. PICK L, H : L = TotalOf(loaded) /\ H = SumOf(Hands(req), Requests)
    OBVIOUS
  <2>4. used = L + H
    BY <2>1, <2>3 DEF BytesInv, TotalInHand
  <2>5. /\ Size(loaded[u]) \in Nat /\ Size(loaded'[u]) \in Nat
        /\ Hand(req[r]) \in Nat /\ Hand(req'[r]) \in Nat /\ L \in Nat /\ H \in Nat
    BY <1>2, <1>4, <2>3, SizesAre, HandsAre
  <2>6. Size(loaded[u]) <= L
    BY <1>2, <1>4, <2>3, SizeWithin
  <2>7. Hand(req[r]) <= H
    BY <1>2, <2>3, HandWithin
  <2>8. Size(loaded[u]) + Hand(req[r]) <= used
    BY <2>4, <2>5, <2>6, <2>7
  <2>9. BytesStep(r, u)
    BY <1>1, <2>2, <2>8, StepBytes
  <2>10. used' = used + Size(loaded'[u]) - Size(loaded[u]) + Hand(req'[r]) - Hand(req[r])
    BY <2>9 DEF BytesStep
  <2>11. /\ TotalOf(loaded') = L - Size(loaded[u]) + Size(loaded'[u])
         /\ SumOf(Hands(req'), Requests) = H - Hand(req[r]) + Hand(req'[r])
    BY <1>5, <1>8, <2>3
  <2> QED
    BY <2>4, <2>5, <2>10, <2>11
<1> QED
  BY <1>5, <1>6, <1>9 DEF TotalInHand

\* So do a crash, which takes everything away, a restart and the other gateways.
LEMMA BytesElsewhere ==
  ASSUME MultipartTypeOK, MultipartTypeOK', LifeInv, Crash \/ Restart \/ Elsewhere, BytesInv
  PROVE  /\ IsFiniteSet(Live(loaded))' /\ IsFiniteSet(Live(rows))'
         /\ overlapped' = {} => used' = TotalOf(loaded)' + TotalInHand'
<1> USE DEF tables, disk, history
<1>2. /\ loaded \in [Uploads -> Sessions \cup {NoSession}]
      /\ loaded' \in [Uploads -> Sessions \cup {NoSession}]
      /\ rows \in [Uploads -> Sessions \cup {NoSession}]
      /\ rows' \in [Uploads -> Sessions \cup {NoSession}]
      /\ req \in [Requests -> RequestStates] /\ req' \in [Requests -> RequestStates]
      /\ used \in Nat
  BY DEF MultipartTypeOK
<1>4. IsFiniteSet(Live(loaded)) /\ IsFiniteSet(Live(rows))
  BY DEF BytesInv
<1>5. ASSUME used' = used, loaded' = loaded, req' = req, overlapped' = overlapped
      PROVE  /\ IsFiniteSet(Live(loaded'))
             /\ overlapped' = {} => used' = TotalOf(loaded') + SumOf(Hands(req'), Requests)
  BY <1>4, <1>5 DEF BytesInv, TotalInHand
<1>6. ASSUME Crash
      PROVE  /\ IsFiniteSet(Live(loaded')) /\ IsFiniteSet(Live(rows'))
             /\ used' = TotalOf(loaded') + SumOf(Hands(req'), Requests)
  <2>1. used' = 0 /\ rows' = rows /\ Live(loaded') = {}
        /\ \A r \in Requests : req'[r] = Idle
    BY <1>6 DEF Crash, Live
  <2>2. TotalOf(loaded') = 0 /\ IsFiniteSet(Live(loaded'))
    <3>1. SumOf(Sizes(loaded'), {}) = 0
      BY FS_EmptySet, SumTakesChosen
    <3> QED
      BY <2>1, <3>1, FS_EmptySet DEF TotalOf
  <2>3. SumOf(Hands(req'), Requests) = 0
    <3>1. PICK h : h = Hands(req')
      OBVIOUS
    <3>2. \A r \in Requests : h[r] = 0
      BY <2>1, <3>1 DEF Hands, Hand, Idle, Creating, Counting
    <3>3. IsFiniteSet(Requests)
      BY Constants
    <3>4. SumOf(h, Requests) = SumOf(h, {})
      BY <3>2, <3>3, SumSupport
    <3>5. SumOf(h, {}) = 0
      BY FS_EmptySet, SumTakesChosen
    <3> QED
      BY <3>1, <3>4, <3>5
  <2> QED
    BY <1>4, <2>1, <2>2, <2>3
<1>7. ASSUME NEW u \in Uploads, LoadActive(u)
      PROVE  /\ IsFiniteSet(Live(loaded')) /\ IsFiniteSet(Live(rows'))
             /\ overlapped' = {} => used' = TotalOf(loaded') + SumOf(Hands(req'), Requests)
  <2>1. /\ rows' = rows /\ req' = req /\ overlapped' = overlapped
        /\ rows[u] \in Sessions /\ rows[u] # NoSession /\ loaded[u] = NoSession
        /\ loaded' = [loaded EXCEPT ![u] = rows[u]] /\ used' = Reserved(rows[u].reserved)
    BY <1>2, <1>7 DEF LoadActive, Unloaded
  <2>2. /\ loaded'[u] = rows[u] /\ \A v \in Uploads \ {u} : loaded'[v] = loaded[v]
    BY <1>2, <2>1
  <2>3. /\ IsFiniteSet(Live(loaded'))
        /\ TotalOf(loaded') = TotalOf(loaded) - Size(loaded[u]) + Size(loaded'[u])
    BY <1>2, <1>4, <2>2, SessionMoves
  <2>4. Size(loaded[u]) = 0 /\ Size(loaded'[u]) = rows[u].reserved /\ rows[u].reserved \in Nat
    BY <2>1, <2>2 DEF Size, Sessions
  <2>5. used' = used + rows[u].reserved
    BY <1>2, <2>1, <2>4 DEF Reserved, Positive
  <2>6. TotalOf(loaded) \in Nat /\ SumOf(Hands(req), Requests) \in Nat
    BY <1>2, <1>4, SizesAre, HandsAre
  <2>7. overlapped = {} => used = TotalOf(loaded) + SumOf(Hands(req), Requests)
    BY DEF BytesInv, TotalInHand
  <2> QED
    BY <1>4, <2>1, <2>3, <2>4, <2>5, <2>6, <2>7
<1>8. ASSUME (Restart /\ ~(\E u \in Uploads : LoadActive(u))) \/ Elsewhere
      PROVE  /\ used' = used /\ loaded' = loaded /\ req' = req /\ overlapped' = overlapped
             /\ rows' = rows \/ \E u \in Uploads : \A v \in Uploads \ {u} : rows'[v] = rows[v]
  <2>1. CASE \E u \in Uploads : CleanupStale(u)
    BY <1>2, <2>1 DEF CleanupStale
  <2>2. CASE StartLoading \/ StartServing
    BY <2>2 DEF StartLoading, StartServing
  <2>3. CASE Elsewhere
    BY <1>2, <2>3 DEF Elsewhere, CreateElsewhere, SaveElsewhere, EndElsewhere
  <2> QED
    BY <1>8, <2>1, <2>2, <2>3 DEF Restart
<1>9. ASSUME rows' = rows \/ \E u \in Uploads : \A v \in Uploads \ {u} : rows'[v] = rows[v]
      PROVE  IsFiniteSet(Live(rows'))
  <2>1. CASE rows' = rows
    BY <1>4, <2>1
  <2>2. CASE \E u \in Uploads : \A v \in Uploads \ {u} : rows'[v] = rows[v]
    <3>1. PICK u \in Uploads : \A v \in Uploads \ {u} : rows'[v] = rows[v]
      BY <2>2
    <3> QED
      BY <1>2, <1>4, <3>1, SessionMoves
  <2> QED
    BY <1>9, <2>1, <2>2
<1> QED
  BY <1>5, <1>6, <1>7, <1>8, <1>9 DEF TotalInHand

-----------------------------------------------------------------------------
(* The capacity.                                                           *)

\* A step reserves within the capacity or gives back.
LEMMA FitsIs ==
  ASSUME used \in Nat, Capacity > 0, used <= Capacity, NEW bytes \in Int
  PROVE  /\ Fits(bytes) => Reserved(bytes) <= Capacity
         /\ Released(bytes) <= Capacity
BY Constants DEF Fits, Reserved, Released, Positive

\* What is reserved stays within the capacity.  (TryReserve.)
LEMMA CapacityNext ==
  ASSUME MultipartTypeOK, LifeInv, [MultipartNext]_multipartVars, Capacity > 0, used <= Capacity
  PROVE  used' <= Capacity
<1> USE DEF MultipartTypeOK, tables, disk, history
<1>n. used \in Nat /\ Capacity \in Nat
  BY Constants
<1>1. ASSUME NEW r \in Requests, RequestStep(r) PROVE used' <= Capacity
  <2>q. PICK q : q = req[r]
    OBVIOUS
  <2>t. q \in RequestStates /\ StepOK(q) /\ q.total \in Nat /\ q.delta \in Int
    BY <2>q, StepsAre, FieldsOf
  <2>u. q.pc # "idle" => Upload(r) \in Uploads
    BY <2>q, <2>t, FieldsOf DEF StepOK, Upload
  <2>1. CASE CreateStep(r)
    <3>1. ASSUME NEW u \in Uploads, NEW expected \in ExpectedSizes, CreateBegin(r, u, expected)
          PROVE  used' <= Capacity
      <4>1. expected \in Int
        BY Constants
      <4> QED
        BY <1>n, <3>1, <4>1, FitsIs DEF CreateBegin
    <3>2. CASE CreateRowFails(r)
      BY <1>n, <2>q, <2>t, <3>2, FitsIs DEF CreateRowFails
    <3>3. CASE CreateRow(r) \/ CreatePublish(r)
      BY <3>3 DEF CreateRow, CreatePublish
    <3> QED
      BY <2>1, <3>1, <3>2, <3>3 DEF CreateStep
  <2>b. ASSUME NEW then, NEW v, NEW n, NEW body, Begin(r, then, v, n, body) PROVE used' <= Capacity
    BY <2>b DEF Begin
  <2>2. CASE SessionStep(r)
    <3>1. CASE SessionFound(r) \/ SessionRead(r)
      BY <3>1 DEF SessionFound, SessionRead
    <3>2. CASE SessionInsert(r)
      <4>1. q.session \in Sessions
        BY <2>q, <2>t, <3>2, FieldsOf DEF SessionInsert, StepOK
      <4>2. q.session.reserved \in Int
        BY <4>1 DEF Sessions
      <4>3. Fits(q.session.reserved) /\ used' \in {used, Reserved(q.session.reserved)}
        BY <2>q, <3>2 DEF SessionInsert
      <4> QED
        BY <1>n, <4>2, <4>3, FitsIs
    <3> QED
      BY <2>2, <3>1, <3>2 DEF SessionStep
  <2>3. CASE PutPartStep(r)
    <3>1. CASE PutCreate(r) \/ PutSpool(r) \/ PutDiscard(r) \/ PutRename(r)
      BY <3>1 DEF PutCreate, PutSpool, PutDiscard, PutRename
    <3>2. CASE PutReserve(r)
      <4>a. PICK s, parts, d :
              /\ s = loaded[Upload(r)] /\ parts = [s.parts EXCEPT ![Number(r)] = q.body]
              /\ d = Total(parts) - s.reserved
        OBVIOUS
      <4>1. Fits(d) /\ used' = Reserved(d)
        BY <2>q, <3>2, <4>a DEF PutReserve
      <4>2. s \in Sessions
        BY <2>q, <2>u, <3>2, <4>a DEF PutReserve
      <4>3. Number(r) \in Numbers /\ q.body \in Bodies
        BY <2>q, <2>t, <3>2 DEF PutReserve, StepOK, Sending, Number
      <4>4. parts \in [Numbers -> Bodies \cup {NoPart}] /\ s.reserved \in Nat
        BY <4>2, <4>3, <4>a DEF Sessions
      <4>5. d \in Int
        BY <4>4, <4>a, TotalIs
      <4> QED
        BY <1>n, <4>1, <4>5, FitsIs
    <3>3. CASE PutRenameFails(r) \/ PutSaveFails(r)
      BY <1>n, <2>q, <2>t, <3>3, FitsIs DEF PutRenameFails, PutSaveFails, Rollback
    <3>4. CASE PutSave(r)
      <4>1. -q.delta \in Int /\ used' = Released(-q.delta)
        BY <2>q, <2>t, <3>4 DEF PutSave
      <4> QED
        BY <1>n, <4>1, FitsIs
    <3> QED
      BY <2>3, <2>b, <3>1, <3>2, <3>3, <3>4 DEF PutPartStep, PutPart
  <2>4. CASE CompleteStep(r) \/ Fail(r)
    BY <2>4, <2>b DEF CompleteStep, Complete, Validate, OpenPart, PutObject, Fail
  <2>5. CASE AbortStep(r)
    <3>1. CASE Unload(r)
      <4>1. q.pc = "unload"
        BY <2>q, <3>1 DEF Unload
      <4>2. loaded[Upload(r)] # NoSession => loaded[Upload(r)].reserved \in Int
        BY <2>u, <4>1 DEF Sessions
      <4>3. used' = used \/ (loaded[Upload(r)] # NoSession
                               /\ used' = Released(loaded[Upload(r)].reserved))
        BY <3>1 DEF Unload
      <4> QED
        BY <1>n, <4>2, <4>3, FitsIs
    <3>2. CASE DeleteRow(r) \/ RemoveScratch(r)
      BY <3>2 DEF DeleteRow, RemoveScratch
    <3> QED
      BY <2>5, <2>b, <3>1, <3>2 DEF AbortStep, Abort
  <2> QED
    BY <1>1, <2>1, <2>2, <2>3, <2>4, <2>5 DEF RequestStep
<1>2. CASE Crash
  BY <1>2, <1>n DEF Crash
<1>3. CASE Restart
  <2>1. ASSUME NEW u \in Uploads, LoadActive(u) PROVE used' <= Capacity
    <3>1. rows[u].reserved \in Int
      BY <2>1 DEF LoadActive, Unloaded, Sessions
    <3> QED
      BY <1>n, <2>1, <3>1, FitsIs DEF LoadActive
  <2> QED
    BY <1>3, <2>1 DEF Restart, CleanupStale, StartLoading, StartServing
<1>4. CASE Elsewhere
  BY <1>4 DEF Elsewhere, CreateElsewhere, SaveElsewhere, EndElsewhere
<1>5. CASE UNCHANGED multipartVars
  BY <1>5 DEF multipartVars
<1> QED
  BY <1>1, <1>2, <1>3, <1>4, <1>5 DEF MultipartNext, RequestStep

\* While the gateway serves, the rows have not more than is reserved: what a
\* row has and the session in memory has not, a request has in hand.
LEMMA RowsCovered ==
  ASSUME MultipartTypeOK, LifeInv, MemoryInv, BytesInv, phase = "serve", overlapped = {},
         \A u \in Foreign : issued[u] = "new"
  PROVE  TotalOf(rows) <= used
<1>0. /\ loaded \in [Uploads -> Sessions \cup {NoSession}]
      /\ rows \in [Uploads -> Sessions \cup {NoSession}]
      /\ req \in [Requests -> RequestStates] /\ used \in Nat
  BY DEF MultipartTypeOK
<1>1. PICK f, g, h, at, S, L, R :
        /\ f = Sizes(rows) /\ g = Sizes(loaded) /\ h = Hands(req)
        /\ at = [r \in Requests |-> Upload(r)]
        /\ S = Live(rows) /\ L = Live(loaded)
        /\ R = {r \in Requests : req[r].pc \in Counting \cup {"publish"}}
  OBVIOUS
<1>2. IsFiniteSet(S) /\ IsFiniteSet(L) /\ S \subseteq Uploads /\ L \subseteq Uploads
  BY <1>1 DEF BytesInv, Live
<1>3. IsFiniteSet(Requests) /\ R \in SUBSET Requests
  BY <1>1, Constants
<1>4. IsFiniteSet(R)
  BY <1>3, FS_Subset
<1>5. (\A u \in Uploads : f[u] \in Nat /\ g[u] \in Nat) /\ \A r \in Requests : h[r] \in Nat
  BY <1>0, <1>1, SizesAre, HandsAre
<1>6. ASSUME NEW u \in S PROVE u \in Own /\ u \in Uploads /\ rows[u] # NoSession /\ MemoryOK(u) /\ UploadOK(u)
  <2>1. u \in Uploads /\ rows[u] # NoSession
    BY <1>1, <1>6 DEF Live
  <2>2. UploadOK(u) /\ MemoryOK(u)
    BY <2>1 DEF LifeInv, MemoryInv
  <2>3. issued[u] # "new"
    BY <2>1, <2>2 DEF UploadOK
  <2> QED
    BY <2>1, <2>2, <2>3 DEF Own
<1>7. ASSUME NEW p \in R, NEW q \in R, at[p] = at[q], at[p] \in S PROVE p = q
  <2>1. Upload(p) = Upload(q) /\ p \in Requests /\ q \in Requests /\ MemoryOK(Upload(p))
    BY <1>1, <1>3, <1>6, <1>7
  <2>2. LifeOK(p) /\ LifeOK(q)
    BY <2>1, StepsAre
  <2>3. CASE req[p].pc = "publish" \/ req[q].pc = "publish"
    BY <2>1, <2>2, <2>3 DEF LifeOK, Creating
  <2>4. CASE req[p].pc \in Counting /\ req[q].pc \in Counting
    <3>1. CountingOn(Upload(p), p) /\ CountingOn(Upload(p), q)
      BY <2>1, <2>4 DEF CountingOn
    <3> QED
      BY <2>1, <3>1 DEF MemoryOK, CountingOK
  <2> QED
    BY <1>1, <2>3, <2>4
<1>8. ASSUME NEW u \in S PROVE f[u] <= g[u] \/ \E r \in R : at[r] = u /\ f[u] <= g[u] + h[r]
  <2>1. u \in Own /\ u \in Uploads /\ rows[u] # NoSession /\ MemoryOK(u) /\ UploadOK(u)
    BY <1>6
  <2>2. f[u] = rows[u].reserved /\ g[u] = Size(loaded[u])
    BY <1>1, <2>1 DEF Sizes, Size
  <2>3. ASSUME NEW r \in Requests, CountingOn(u, r) PROVE r \in R /\ at[r] = u /\ f[u] <= g[u] + h[r]
    <3>1. CountingOK(r) /\ Upload(r) = u /\ req[r].pc \in Counting
      BY <2>1, <2>3 DEF MemoryOK, CountingOn
    <3>2. /\ loaded[u] # NoSession /\ loaded[u].reserved = req[r].total
          /\ req[r].delta = req[r].total - req[r].before /\ rows[u].reserved = req[r].before
      BY <2>1, <3>1 DEF CountingOK
    <3>3. h[r] = Positive(-req[r].delta)
      BY <1>1, <3>1 DEF Hands, Hand, Counting, Creating
    <3>4. g[u] = req[r].total /\ req[r].total \in Nat /\ req[r].before \in Nat
      BY <1>0, <2>2, <3>2, FieldsOf DEF Size
    <3>5. f[u] <= g[u] + h[r]
      BY <2>2, <3>2, <3>3, <3>4 DEF Positive
    <3> QED
      BY <1>1, <3>1, <3>5
  <2>4. ASSUME NEW r \in Requests, Upload(r) = u, req[r].pc = "publish"
        PROVE  r \in R /\ at[r] = u /\ f[u] <= g[u] + h[r]
    <3>1. rows[u] = Session(req[r].total, NoParts)
      BY <2>4, StepsAre DEF LifeOK, Creating
    <3>2. f[u] = req[r].total /\ h[r] = req[r].total
      BY <1>1, <2>2, <2>4, <3>1 DEF Session, Hands, Hand, Creating
    <3> QED
      BY <1>1, <1>5, <2>1, <2>4, <3>2
  <2>5. CASE \A r \in Requests : ~CountingOn(u, r) /\ ~(Upload(r) = u /\ req[r].pc = "publish")
    <3>1. loaded[u] # NoSession
      BY <2>1, <2>5 DEF UploadOK
    <3>2. loaded[u] = rows[u]
      BY <2>1, <2>5, <3>1 DEF MemoryOK
    <3> QED
      BY <1>5, <2>1, <2>2, <3>2 DEF Size
  <2> QED
    BY <2>3, <2>4, <2>5
<1>9. SumOf(f, S) <= SumOf(g, S) + SumOf(h, R)
  BY <1>2, <1>3, <1>4, <1>5, <1>7, <1>8, SumCovered
<1>10. PICK W : W = S \cup L
  OBVIOUS
<1>11. IsFiniteSet(W) /\ S \in SUBSET W /\ L \in SUBSET W /\ W \subseteq Uploads
  BY <1>2, <1>10, FS_Union
<1>12. SumOf(g, S) <= SumOf(g, W)
  BY <1>5, <1>11, SumPart
<1>13. SumOf(g, W) = SumOf(g, L)
  <2>1. \A x \in W : g[x] \in Int
    BY <1>5, <1>11
  <2>2. \A x \in W : x \notin L => g[x] = 0
    BY <1>1, <1>11 DEF Live, Sizes, Size
  <2> QED
    BY <1>11, <2>1, <2>2, SumSupport
<1>14. SumOf(h, R) <= SumOf(h, Requests)
  BY <1>3, <1>5, SumPart
<1>15. used = SumOf(g, L) + SumOf(h, Requests)
  BY <1>1 DEF BytesInv, TotalOf, TotalInHand
<1>16. /\ SumOf(f, S) \in Nat /\ SumOf(g, S) \in Nat /\ SumOf(g, L) \in Nat
       /\ SumOf(h, R) \in Nat /\ SumOf(h, Requests) \in Nat
  BY <1>2, <1>3, <1>4, <1>5, SumType
<1>17. SumOf(f, S) <= used
  BY <1>9, <1>12, <1>13, <1>14, <1>15, <1>16
<1> QED
  BY <1>1, <1>17 DEF TotalOf

\* A crash finds rows that fit, and nothing adds to them until the gateway serves.
LEMMA FitsNext ==
  ASSUME MultipartTypeOK, MultipartTypeOK', LifeInv, MemoryInv, BytesInv, FitsInv, [MultipartNext]_multipartVars
  PROVE  FitsInv'
<1> USE DEF tables, disk, history
<1> SUFFICES ASSUME phase' # "serve", overlapped' = {}, \A u \in Foreign : issued'[u] = "new",
                    Capacity > 0
             PROVE  TotalOf(rows') <= Capacity
  BY DEF FitsInv
<1>0. /\ rows \in [Uploads -> Sessions \cup {NoSession}]
      /\ rows' \in [Uploads -> Sessions \cup {NoSession}] /\ used \in Nat
      /\ issued \in [Uploads -> {"new", "drawn", "answered"}] /\ Capacity \in Nat
      /\ Foreign \subseteq Uploads
  BY Constants DEF MultipartTypeOK
<1>1. overlapped = {}
  BY OverlapsStay
<1>2. ASSUME issued' = issued PROVE TotalOf(rows) <= Capacity
  <2>1. CASE phase = "serve"
    <3>1. TotalOf(rows) <= used
      BY <1>1, <1>2, <2>1, RowsCovered
    <3>2. used <= Capacity /\ TotalOf(rows) \in Nat
      BY <1>0, SizesAre DEF BytesInv
    <3> QED
      BY <1>0, <3>1, <3>2
  <2>2. CASE phase # "serve"
    BY <1>1, <1>2, <2>2 DEF FitsInv
  <2> QED
    BY <2>1, <2>2
<1>3. CASE Crash
  BY <1>2, <1>3 DEF Crash
<1>4. ASSUME NEW u \in Uploads, CleanupStale(u) PROVE TotalOf(rows') <= Capacity
  <2>1. issued' = issued /\ rows'[u] = NoSession /\ \A v \in Uploads \ {u} : rows'[v] = rows[v]
    BY <1>0, <1>4 DEF CleanupStale
  <2>2. TotalOf(rows') = TotalOf(rows) - Size(rows[u]) + Size(rows'[u])
    BY <1>0, <2>1, SessionMoves DEF BytesInv
  <2>3. Size(rows'[u]) = 0 /\ Size(rows[u]) \in Nat /\ TotalOf(rows) \in Nat
    BY <1>0, <2>1, SizesAre DEF BytesInv, Size
  <2>4. TotalOf(rows) <= Capacity
    BY <1>2, <2>1
  <2> QED
    BY <1>0, <2>2, <2>3, <2>4
<1>5. ASSUME NEW u \in Uploads, LoadActive(u) PROVE TotalOf(rows') <= Capacity
  BY <1>2, <1>5 DEF LoadActive
<1>6. CASE StartLoading
  BY <1>2, <1>6 DEF StartLoading
<1>7. CASE Elsewhere
  <2>1. \A u \in Foreign : issued[u] = "new" => rows[u] = NoSession
    BY <1>0 DEF LifeInv, UploadOK
  <2>2. ASSUME NEW u \in Uploads, NEW expected \in ExpectedSizes, CreateElsewhere(u, expected)
        PROVE  FALSE
    BY <1>0, <2>2 DEF CreateElsewhere
  <2>3. ASSUME NEW u \in Uploads, NEW part \in Sent, SaveElsewhere(u, part[1], part[2])
        PROVE  FALSE
    BY <1>0, <2>1, <2>3 DEF SaveElsewhere
  <2>4. ASSUME NEW u \in Uploads, EndElsewhere(u) PROVE FALSE
    BY <1>0, <2>1, <2>4 DEF EndElsewhere
  <2> QED
    BY <1>7, <2>2, <2>3, <2>4 DEF Elsewhere
<1>8. ASSUME NEW r \in Requests, RequestStep(r) PROVE FALSE
  BY <1>8, StepIsLife DEF LifeStep
<1>9. CASE UNCHANGED multipartVars
  BY <1>2, <1>9 DEF multipartVars
<1>10. ~StartServing
  BY DEF StartServing
<1> QED
  BY <1>3, <1>4, <1>5, <1>6, <1>7, <1>8, <1>9, <1>10 DEF MultipartNext, RequestStep, Restart

\* Every step keeps the sums.
LEMMA BytesNext == Lives /\ MemoryInv /\ BytesInv /\ [MultipartNext]_multipartVars => BytesInv'
<1> SUFFICES ASSUME MultipartTypeOK, LifeInv, MemoryInv, BytesInv, [MultipartNext]_multipartVars PROVE BytesInv'
  BY DEF Lives
<1>0. MultipartTypeOK'
  BY TypeNext
<1>1. Capacity > 0 => used' <= Capacity
  BY CapacityNext DEF BytesInv
<1>2. /\ IsFiniteSet(Live(loaded))' /\ IsFiniteSet(Live(rows))'
      /\ overlapped' = {} => used' = TotalOf(loaded)' + TotalInHand'
  <2>1. ASSUME NEW r \in Requests, RequestStep(r)
        PROVE  /\ IsFiniteSet(Live(loaded))' /\ IsFiniteSet(Live(rows))'
               /\ overlapped' = {} => used' = TotalOf(loaded)' + TotalInHand'
    BY <1>0, <2>1, BytesUpload
  <2>2. ASSUME Crash \/ Restart \/ Elsewhere
        PROVE  /\ IsFiniteSet(Live(loaded))' /\ IsFiniteSet(Live(rows))'
               /\ overlapped' = {} => used' = TotalOf(loaded)' + TotalInHand'
    BY <1>0, <2>2, BytesElsewhere
  <2>3. CASE UNCHANGED multipartVars
    BY <2>3 DEF multipartVars, tables, history, BytesInv, TotalInHand
  <2> QED
    BY <2>1, <2>2, <2>3 DEF MultipartNext, RequestStep
<1> QED
  BY <1>1, <1>2 DEF BytesInv

\* Nothing is reserved at first.
LEMMA BytesInit == MultipartInit => BytesInv /\ FitsInv
<1> SUFFICES ASSUME MultipartInit PROVE BytesInv /\ FitsInv
  OBVIOUS
<1>1. /\ Live(loaded) = {} /\ Live(rows) = {} /\ used = 0 /\ phase = "serve"
      /\ \A r \in Requests : req[r] = Idle
  BY DEF MultipartInit, Live
<1>2. TotalOf(loaded) = 0
  <2>1. SumOf(Sizes(loaded), {}) = 0
    BY FS_EmptySet, SumTakesChosen
  <2> QED
    BY <1>1, <2>1 DEF TotalOf
<1>3. TotalInHand = 0
  <2>1. PICK h : h = Hands(req)
    OBVIOUS
  <2>2. \A r \in Requests : h[r] = 0
    BY <1>1, <2>1 DEF Hands, Hand, Idle, Creating, Counting
  <2>3. IsFiniteSet(Requests)
    BY Constants
  <2>4. SumOf(h, Requests) = SumOf(h, {})
    BY <2>2, <2>3, SumSupport
  <2>5. SumOf(h, {}) = 0
    BY FS_EmptySet, SumTakesChosen
  <2> QED
    BY <2>1, <2>4, <2>5 DEF TotalInHand
<1> QED
  BY <1>1, <1>2, <1>3, FS_EmptySet, Constants DEF BytesInv, FitsInv

Accounts == Lives /\ MemoryInv /\ BytesInv /\ FitsInv

\* The accounts hold in every reachable state.
LEMMA AccountsAlways == MultipartSpec => []Accounts
<1>1. MultipartInit => Accounts
  BY TypeInit, LifeInit, MemoryInit, BytesInit DEF Accounts, Lives
<1>2. Accounts /\ [MultipartNext]_multipartVars => Accounts'
  <2> SUFFICES ASSUME Lives, MemoryInv, BytesInv, FitsInv, [MultipartNext]_multipartVars PROVE Accounts'
    BY DEF Accounts
  <2>1. Lives' /\ MemoryInv' /\ BytesInv'
    BY LifeNext, MemoryNext, BytesNext
  <2>2. FitsInv'
    BY <2>1, FitsNext DEF Lives
  <2> QED
    BY <2>1, <2>2 DEF Accounts
<1> QED
  BY <1>1, <1>2, PTL DEF MultipartSpec

\* Unless two requests were inside the reservation of one upload at a time, the
\* bytes counted as reserved are those of the sessions in memory and of the
\* requests in progress: nothing leaks and nothing is given back twice.
\* (TryReserve, Release and their callers in manager.go.)
THEOREM NothingLeaks == MultipartSpec => []ReservationsExact
<1>1. Accounts => ReservationsExact
  <2> SUFFICES ASSUME BytesInv, overlapped = {}
               PROVE  used = ReservedBy(loaded) + MapThenSumSet(InHand, Requests)
    BY DEF Accounts, ReservationsExact
  <2>1. used = TotalOf(loaded) + TotalInHand
    BY DEF BytesInv
  <2>2. ReservedBy(loaded) = TotalOf(loaded)
    BY ReservedByIs
  <2>3. MapThenSumSet(InHand, Requests) = TotalInHand
    BY InHandIs
  <2> QED
    BY <2>1, <2>2, <2>3
<1> QED
  BY <1>1, AccountsAlways, PTL

\* The durable sessions fit in the capacity, so the LoadActive of the next start
\* is not refused, whenever the process ends.
THEOREM RestartsFit == MultipartSpec => []RestartFits
<1>1. Accounts => RestartFits
  <2> SUFFICES ASSUME Accounts, overlapped = {}, \A u \in Foreign : issued[u] = "new", Capacity > 0
               PROVE  ReservedBy(rows) <= Capacity
    BY DEF RestartFits
  <2>0. MultipartTypeOK /\ LifeInv /\ MemoryInv /\ BytesInv /\ FitsInv
    BY DEF Accounts, Lives
  <2>1. ReservedBy(rows) = TotalOf(rows)
    BY ReservedByIs
  <2>2. CASE phase = "serve"
    <3>1. TotalOf(rows) <= used /\ used <= Capacity
      BY <2>0, <2>2, RowsCovered DEF BytesInv
    <3>2. TotalOf(rows) \in Nat /\ used \in Nat /\ Capacity \in Nat
      BY <2>0, SizesAre, Constants DEF MultipartTypeOK, BytesInv
    <3> QED
      BY <2>1, <3>1, <3>2
  <2>3. CASE phase # "serve"
    BY <2>0, <2>1, <2>3 DEF FitsInv
  <2> QED
    BY <2>2, <2>3
<1> QED
  BY <1>1, AccountsAlways, PTL

=============================================================================
