---------------------------- MODULE BlockBackends ----------------------------
(***************************************************************************)
(* The block stores that keep blocks in a cloud service: S3 through minio  *)
(* and through the client for endpoints with a base path, Azure, GCS and   *)
(* Swift.  A call makes attempts under DoWithRetry; an attempt is one      *)
(* request, which the service may carry out, refuse, or carry out without  *)
(* its answer arriving, and which may still be carried out after the       *)
(* attempt was given up.  Deletes go in batches, by one request for all or *)
(* by one for each.                                                        *)
(*                                                                         *)
(* Left out: what an SDK repeats inside of one attempt, the body of a get  *)
(* (a get is answered when its reader is), and missing buckets.            *)
(***************************************************************************)
EXTENDS Integers, FiniteSets

CONSTANTS
  Providers,       \* the stores a behaviour may be about
  CloudBlocks,     \* blocks, by tenant and hash
  DeleteSets,      \* the lists a DeleteBlocks may be given, as sets
  CloudCallers,    \* requests and sweeps, each making one call at a time
  CloudRetries,    \* options.MaxRetries
  BatchLimit,      \* deleteBatchSize, bulkDeleteSize
  Workers,         \* fallback deletes that run together
  MaxCloudFaults   \* bound: refusals, failed items, resets and cancellations

S3Stores == {"s3", "s3path"}

ASSUME CloudAssumption ==
  /\ Providers \subseteq S3Stores \cup {"azure", "gcs", "swift"}
  /\ DeleteSets \subseteq (SUBSET CloudBlocks) \ {{}}
  /\ \A keys \in DeleteSets : IsFiniteSet(keys)
  /\ CloudRetries \in Nat /\ BatchLimit \in Nat \ {0} /\ Workers \in Nat \ {0}
  /\ MaxCloudFaults \in Nat

VARIABLES
  provider,     \* the store of this process
  remote,       \* the blocks the service holds
  calls,        \* per caller, the call in progress, or the answer of the last
  task,         \* per caller, its requests under DoWithRetry, by the blocks they name
  late,         \* requests whose attempt was given up before they were carried out
  acked,        \* history: blocks acknowledged, no delete of which has begun since
  cloudFaults

cloudVars == <<provider, remote, calls, task, late, acked, cloudFaults>>

(* What a task asks for: "put", "stat", "open" (the stat before a get of   *)
(* the S3 stores), "get", "delete", or "purge", the delete of a batch.     *)
Fresh(asks) == [asks |-> asks, pc |-> "ready", attempt |-> 0, err |-> "none"]
Tasks(units, asks) == [u \in units |-> Fresh(asks)]
NoTasks == Tasks({}, "none")

(* A call: mode is "single", "between" batches, "bulk" or "each"; todo are *)
(* the blocks in no batch yet, jobs those of the batch no worker has yet.  *)
(* History: was and wasnt are the blocks that were stored, and that were   *)
(* not, at some moment of the call; dropped says that items of a batch     *)
(* failed and nobody looked; unopposed are the blocks of a put no delete   *)
(* of which was in progress at any moment of it, and undeleted those of    *)
(* them that no request or goroutine of an earlier delete could still      *)
(* remove when it began.                                                   *)
NoCall == [op |-> "none", keys |-> {}, mode |-> "single", todo |-> {}, batch |-> {},
           jobs |-> {}, canceled |-> FALSE, stopped |-> FALSE, answer |-> "none",
           was |-> {}, wasnt |-> {}, dropped |-> FALSE, undeleted |-> {},
           unopposed |-> {}]

CloudInit ==
  /\ provider \in Providers
  /\ remote \in SUBSET CloudBlocks
  /\ late = {} /\ acked = {} /\ cloudFaults = 0
  /\ calls = [c \in CloudCallers |-> NoCall]
  /\ task = [c \in CloudCallers |-> NoTasks]

InProgress(c) == calls[c].op # "none"

-----------------------------------------------------------------------------
(* What the stores make of an error.                                       *)

NotFoundOrDenied(err) == err \in {"missing", "denied"}

(* isS3NotFound, isAzureBlobNotFound, isGCSObjectNotFound, isSwiftNotFound *)
NotFound(err) == err = "missing"

(* "busy" is a status of 5xx, 429 or 408 or a code that says so; Azure     *)
(* counts failed authentication among them.                                *)
Unavailable(err) == err = "busy" \/ (provider = "azure" /\ err = "unauth")

(* retryableAzureError, retryableGCSError, retryableSwiftError            *)
RetryableByStatus(err) == ~NotFound(err) /\ (err = "deadline" \/ Unavailable(err))

(* retryableS3Error asks minio for the response in the error, and takes an *)
(* error without one for a broken connection; the errors of the path       *)
(* client never have one.                                                  *)
RetryableS3(c, err) ==
  /\ ~calls[c].canceled
  /\ provider = "s3path" \/ err \in {"deadline", "reset"} \/ Unavailable(err)

Retryable(c, err) ==
  /\ err # "canceled"
  /\ IF provider \in S3Stores THEN RetryableS3(c, err) ELSE RetryableByStatus(err)

(* wrapS3Error, wrapAzureError, wrapGCSError, wrapSwiftError               *)
Wrapped(err) ==
  CASE err = "canceled" -> "canceled"
    [] NotFound(err) -> "notfound"
    [] err = "deadline" \/ Unavailable(err) -> "unavailable"
    [] OTHER -> "failed"

-----------------------------------------------------------------------------
(* Attempts.                                                               *)

Update(c, u, t) == task' = [task EXCEPT ![c] = [@ EXCEPT ![u] = t]]

Running(c) == {u \in DOMAIN task[c] : task[c][u].pc # "done"}

AttemptOverEarly(c, t) ==
  [t EXCEPT !.pc = IF t.err = "none" \/ ~Retryable(c, t.err) \/ t.attempt = CloudRetries
                     THEN "done" ELSE "ready"]

(* The end of one attempt: the last one, or one more after the backoff.    *)
AttemptOver(c, t) ==
  [t EXCEPT !.pc = IF t.err = "none" \/ ~Retryable(c, t.err) \/ t.attempt = CloudRetries + 1
                     THEN "done" ELSE "ready",
            !.asks = IF t.asks = "get" /\ provider \in S3Stores THEN "open" ELSE @]

(* The top of the loop of DoWithRetry, or of GetBlock: a cancelled context *)
(* ends it, there or in waitRetryDelay.                                    *)
Attempt(c, u) ==
  LET t == task[c][u] IN
  /\ t.pc = "ready"
  /\ Update(c, u, IF calls[c].canceled
                    THEN [t EXCEPT !.pc = "done", !.err = "canceled"]
                    ELSE [t EXCEPT !.pc = "sent", !.attempt = @ + 1, !.err = "none"])
  /\ UNCHANGED <<provider, remote, calls, late, acked, cloudFaults>>

(* The answer is in: success, or another attempt, or the end.  After the   *)
(* stat of a get the path client asks for the body; minio does when the    *)
(* body is read.                                                           *)
Receive(c, u) ==
  LET t == task[c][u] IN
  /\ t.pc = "executed"
  /\ Update(c, u, IF t.err = "none" /\ t.asks = "open" /\ provider = "s3path"
                    THEN [t EXCEPT !.pc = "sent", !.asks = "get"]
                    ELSE AttemptOver(c, t))
  /\ UNCHANGED <<provider, remote, calls, late, acked, cloudFaults>>

(* What may still be carried out of a request: minio is fed the keys of a  *)
(* delete one by one, until the context ends.                              *)
Rest(t, u) ==
  CASE t.pc = "executed" \/ t.asks \notin {"put", "delete", "purge"} -> {}
    [] provider = "s3" /\ t.asks = "purge" -> (SUBSET u) \ {{}}
    [] OTHER -> {u}

(* The attempt ends without an answer.                                     *)
AbandonAttempt(c, u, why) ==
  LET t == task[c][u] IN
  /\ t.pc \in {"sent", "executed"}
  /\ Update(c, u, AttemptOver(c, [t EXCEPT !.err = why]))
  /\ \/ late' = late
     \/ \E part \in Rest(t, u) :
          late' = late \cup {[caller |-> c, asks |-> t.asks, blocks |-> part, attempt |-> t.attempt]}
  /\ UNCHANGED <<provider, remote, calls, acked>>

NeverTimesOut(c, u) ==
  calls[c].canceled /\ AbandonAttempt(c, u, "deadline") /\ UNCHANGED cloudFaults

(* context.WithTimeout.  Every attempt has a deadline: the constructors    *)
(* take 30 seconds for a timeout of 0.                                     *)
TimesOut(c, u) == AbandonAttempt(c, u, "deadline") /\ UNCHANGED cloudFaults

CutOff(c, u) == calls[c].canceled /\ AbandonAttempt(c, u, "canceled") /\ UNCHANGED cloudFaults

CloudFault == cloudFaults < MaxCloudFaults /\ cloudFaults' = cloudFaults + 1

Reset(c, u) == AbandonAttempt(c, u, "reset") /\ CloudFault

(* The caller's context ends: the client has gone, or the process stops.   *)
CancelCall(c) ==
  /\ InProgress(c) /\ ~calls[c].canceled
  /\ CloudFault
  /\ calls' = [calls EXCEPT ![c].canceled = TRUE]
  /\ UNCHANGED <<provider, remote, task, late, acked>>

-----------------------------------------------------------------------------
(* The service.                                                            *)

Effect(asks, blocks) ==
  CASE asks = "put" -> remote \cup blocks
    [] asks \in {"delete", "purge"} -> remote \ blocks
    [] OTHER -> remote

(* The calls in progress see what the service holds now.                   *)
Seen(stored) ==
  [c \in CloudCallers |->
     IF InProgress(c) THEN [calls[c] EXCEPT !.was = @ \cup (calls[c].keys \cap stored),
                                           !.wasnt = @ \cup (calls[c].keys \ stored)]
                      ELSE calls[c]]

(* A bulk delete does not mind blocks that are gone.                       *)
Execute(c, u) ==
  LET t == task[c][u] IN
  /\ t.pc = "sent"
  /\ remote' = Effect(t.asks, u)
  /\ calls' = Seen(remote')
  /\ Update(c, u, [t EXCEPT !.pc = "executed",
                            !.err = IF t.asks \in {"put", "purge"} \/ u \subseteq remote
                                      THEN "none" ELSE "missing"])
  /\ UNCHANGED <<provider, late, acked, cloudFaults>>

(* Nothing is done: too much to do, not allowed, or not known.             *)
Refuse(c, u, why) ==
  LET t == task[c][u] IN
  /\ t.pc = "sent"
  /\ CloudFault
  /\ Update(c, u, [t EXCEPT !.pc = "executed", !.err = why])
  /\ UNCHANGED <<provider, remote, calls, late, acked>>

(* What a client makes of a bulk delete that has failed in part.  The S3   *)
(* clients return the error of an item and Swift an error of its own, but  *)
(* Swift looks at the list of errors only, and so takes a response whose   *)
(* status says that it failed for success if the list is empty; Azure does *)
(* not look at the response of SubmitBatch.                                *)
BatchErrors(why) ==
  CASE provider = "azure" -> {"none"}
    [] provider = "swift" -> {"items", "none"}
    [] OTHER -> {why}

(* Some items of a bulk delete fail.                                       *)
ItemsFail(c, u, why) ==
  LET t == task[c][u] IN
  /\ t.pc = "sent" /\ t.asks = "purge"
  /\ CloudFault
  /\ \E failed \in (SUBSET u) \ {{}} : remote' = Effect("purge", u \ failed)
  /\ \E err \in BatchErrors(why) :
       /\ calls' = [Seen(remote') EXCEPT ![c].dropped = @ \/ err = "none"]
       /\ Update(c, u, [t EXCEPT !.pc = "executed", !.err = err])
  /\ UNCHANGED <<provider, late, acked>>

(* A request of an attempt long given up is carried out after all.         *)
ArrivesLate(r) ==
  /\ r \in late
  /\ remote' = Effect(r.asks, r.blocks)
  /\ calls' = Seen(remote')
  /\ late' = late \ {r}
  /\ UNCHANGED <<provider, task, acked, cloudFaults>>

-----------------------------------------------------------------------------
(* Calls.                                                                  *)

BeingDeleted(b) == \E c \in CloudCallers : calls[c].op = "delete" /\ b \in calls[c].keys

(* A delete of b may still remove it: its call is in progress, or one of   *)
(* its attempts was given up, or Azure went away from its goroutines.      *)
MayStillRemove(b) ==
  \/ BeingDeleted(b)
  \/ \E r \in late : r.asks # "put" /\ b \in r.blocks
  \/ provider = "azure" /\ \E c \in CloudCallers : {b} \in Running(c) /\ task[c][{b}].asks = "delete"

(* The caller's last call is over, and so is what it left behind.          *)
Idle(c) == ~InProgress(c) /\ Running(c) = {} /\ \A r \in late : r.caller # c

BeginSingle(c, op, b, asks) ==
  /\ Idle(c)
  /\ calls' = [calls EXCEPT ![c] =
                [NoCall EXCEPT !.op = op, !.keys = {b},
                               !.was = {b} \cap remote, !.wasnt = {b} \ remote,
                               !.undeleted = {x \in {b} : op = "put" /\ ~MayStillRemove(x)},
                               !.unopposed = {x \in {b} : op = "put" /\ ~BeingDeleted(x)}]]
  /\ task' = [task EXCEPT ![c] = Tasks({{b}}, asks)]
  /\ UNCHANGED <<provider, remote, late, acked, cloudFaults>>

BeginPut(c, b) == BeginSingle(c, "put", b, "put")
BeginHas(c, b) == BeginSingle(c, "has", b, "stat")
BeginGet(c, b) == BeginSingle(c, "get", b, IF provider \in S3Stores THEN "open" ELSE "get")

BeginDelete(c, keys) ==
  /\ Idle(c)
  /\ calls' = [d \in CloudCallers |->
                IF d = c THEN [NoCall EXCEPT !.op = "delete", !.keys = keys, !.mode = "between",
                                             !.todo = keys, !.was = keys \cap remote,
                                             !.wasnt = keys \ remote]
                         ELSE [calls[d] EXCEPT !.undeleted = @ \ keys, !.unopposed = @ \ keys]]
  /\ task' = [task EXCEPT ![c] = NoTasks]
  /\ acked' = acked \ keys
  /\ UNCHANGED <<provider, remote, late, cloudFaults>>

(* A call returns: what is left of it is its answer and, to goroutines it  *)
(* did not wait for, its context.                                          *)
Return(c, answer) ==
  /\ calls' = [calls EXCEPT ![c] = [NoCall EXCEPT !.answer = answer,
                                                !.canceled = Running(c) # {} /\ calls[c].canceled]]
  /\ task' = [task EXCEPT ![c] = IF Running(c) = {} THEN NoTasks ELSE @]

ItemsInBatch(todo) ==
  IF provider = "gcs" \/ Cardinality(todo) < BatchLimit THEN Cardinality(todo) ELSE BatchLimit

(* GCS has no batches; Azure and Swift delete a batch of one by itself.    *)
NextBatch(c) ==
  /\ InProgress(c) /\ calls[c].mode = "between"
  /\ \E batch \in SUBSET calls[c].todo :
       LET alone == provider \in {"azure", "swift"} /\ Cardinality(batch) = 1
       IN /\ Cardinality(batch) = ItemsInBatch(calls[c].todo)
          /\ calls' = [calls EXCEPT ![c] =
               [@ EXCEPT !.todo = calls[c].todo \ batch, !.batch = batch,
                         !.mode = IF provider = "gcs" \/ alone THEN "each" ELSE "bulk",
                         !.jobs = IF provider = "gcs" THEN batch ELSE {}]]
          /\ task' = [task EXCEPT ![c] = IF provider = "gcs" THEN NoTasks
                                         ELSE Tasks({batch}, IF alone THEN "delete" ELSE "purge")]
  /\ UNCHANGED <<provider, remote, late, acked, cloudFaults>>

(* deleteIndividually gives a worker its next block ...                    *)
Dispatch(c, b) ==
  /\ InProgress(c) /\ b \in calls[c].jobs
  /\ Cardinality(Running(c)) < Workers
  /\ calls' = [calls EXCEPT ![c].jobs = @ \ {b}]
  /\ task' = [task EXCEPT ![c] = [u \in DOMAIN @ \cup {{b}} |->
                                    IF u = {b} THEN Fresh("delete") ELSE @[u]]]
  /\ UNCHANGED <<provider, remote, late, acked, cloudFaults>>

StopDispatchAtOnce(c) ==
  /\ InProgress(c) /\ calls[c].jobs # {} /\ calls[c].canceled
  /\ Return(c, "canceled")
  /\ UNCHANGED <<provider, remote, late, acked, cloudFaults>>

(* ... or finds the context ended: GCS and Swift then wait for their       *)
(* workers, Azure does not.                                                *)
StopDispatch(c) ==
  /\ InProgress(c) /\ calls[c].jobs # {} /\ calls[c].canceled
  /\ IF provider = "azure"
       THEN Return(c, "canceled")
       ELSE /\ calls' = [calls EXCEPT ![c] = [@ EXCEPT !.jobs = {}, !.stopped = TRUE]]
            /\ UNCHANGED task
  /\ UNCHANGED <<provider, remote, late, acked, cloudFaults>>

TasksOver(c) ==
  InProgress(c) /\ calls[c].mode # "between" /\ calls[c].jobs = {} /\ Running(c) = {}

(* deleteBlob and deleteObject take a missing block for deleted.           *)
Failures(c) ==
  {task[c][u].err : u \in {v \in DOMAIN task[c] : task[c][v].asks = "purge"
                                                    \/ ~NotFound(task[c][v].err)}} \ {"none"}

EndBatch(c) ==
  /\ TasksOver(c) /\ calls[c].op = "delete"
  /\ CASE calls[c].stopped -> Return(c, "canceled")
       [] ~calls[c].stopped /\ Failures(c) = {} ->
            IF calls[c].todo = {} THEN Return(c, "ok")
            ELSE /\ calls' = [calls EXCEPT ![c].mode = "between"]
                 /\ UNCHANGED task
       [] OTHER ->
            IF calls[c].mode = "bulk" /\ provider \in {"azure", "swift"}
              THEN /\ calls' = [calls EXCEPT ![c] = [@ EXCEPT !.mode = "each", !.jobs = calls[c].batch]]
                   /\ task' = [task EXCEPT ![c] = NoTasks]
              ELSE \E err \in Failures(c) : Return(c, Wrapped(err))
  /\ UNCHANGED <<provider, remote, late, acked, cloudFaults>>

EndSingle(c, op, answer) ==
  /\ TasksOver(c) /\ calls[c].op = op
  /\ Return(c, answer)
  /\ UNCHANGED <<provider, remote, late, cloudFaults>>

Outcome(c) == task[c][calls[c].keys].err

Answer(err) == IF err = "none" THEN "ok" ELSE Wrapped(err)

EndPut(c) ==
  /\ EndSingle(c, "put", Answer(Outcome(c)))
  /\ acked' = IF Outcome(c) = "none" THEN acked \cup calls[c].undeleted ELSE acked

EndHas(c) ==
  /\ EndSingle(c, "has", IF NotFound(Outcome(c)) THEN "no" ELSE Answer(Outcome(c)))
  /\ UNCHANGED acked

EndGet(c) == EndSingle(c, "get", Answer(Outcome(c))) /\ UNCHANGED acked

-----------------------------------------------------------------------------
(* What the process does by itself, timers included.                       *)
Proceed(c) ==
  \/ \E u \in DOMAIN task[c] : Attempt(c, u) \/ Receive(c, u) \/ TimesOut(c, u)
  \/ NextBatch(c)
  \/ \E b \in CloudBlocks : Dispatch(c, b)
  \/ StopDispatch(c)
  \/ EndBatch(c)
  \/ EndPut(c) \/ EndHas(c) \/ EndGet(c)

Service(c) ==
  \E u \in DOMAIN task[c] :
    \/ Execute(c, u)
    \/ \E why \in {"busy", "denied"} : Refuse(c, u, why) \/ ItemsFail(c, u, why)
    \/ provider = "azure" /\ Refuse(c, u, "unauth")

CloudNext ==
  \/ \E c \in CloudCallers :
       \/ \E b \in CloudBlocks : BeginPut(c, b) \/ BeginHas(c, b) \/ BeginGet(c, b)
       \/ \E keys \in DeleteSets : BeginDelete(c, keys)
       \/ CancelCall(c)
       \/ Proceed(c)
       \/ Service(c)
       \/ \E u \in DOMAIN task[c] : CutOff(c, u) \/ Reset(c, u)
  \/ \E r \in late : ArrivesLate(r)

CloudSpec == CloudInit /\ [][CloudNext]_cloudVars /\ \A c \in CloudCallers : WF_cloudVars(Proceed(c))

-----------------------------------------------------------------------------
Ends(c) == InProgress(c) /\ ~InProgress(c)'

(* A call is answered with what was so at some moment while it was in      *)
(* progress, however its attempts and those of other callers met: a block  *)
(* it says is stored was stored, a block it says is missing, or deleted,   *)
(* was gone.  Excepted are the deletes of Azure and Swift in which items   *)
(* of a batch failed and nobody looked.                                    *)
Truthful(c, a) ==
  /\ a.op # "delete" /\ calls[c].answer' = "ok" => a.keys \subseteq a.was
  /\ a.op = "delete" /\ calls[c].answer' = "ok" => a.keys \subseteq a.wasnt
  /\ calls[c].answer' \in {"no", "notfound"} => a.keys \subseteq a.wasnt

AnswersAreTrue ==
  [][\A c \in CloudCallers : Ends(c) /\ ~calls[c].dropped => Truthful(c, calls[c])]_cloudVars

(* Of the garbage collector docs/gc.md:21 says that it deletes the objects *)
(* of the backend first and forgets their rows only after the delete has   *)
(* succeeded: a delete answered with success has removed its blocks.       *)
SuccessfulDeletesRemove ==
  [][\A c \in CloudCallers : Ends(c) => Truthful(c, calls[c])]_cloudVars

(* A block whose put was answered stays until a delete of it begins, if    *)
(* none was in progress at any moment of the put and nothing that an       *)
(* earlier one had left behind could still remove it: workers do not       *)
(* outlive the call that started them, where it waits for them, and what   *)
(* is over does not come back.                                             *)
AcknowledgedBlocksStay == acked \subseteq remote

(* docs/gc.md:15 says that orphans are kept long enough "to avoid deleting *)
(* data during nearby upload": a put that is answered with success, and    *)
(* during which no delete of its block was in progress, has stored it,     *)
(* whatever a delete that has ended left behind.                           *)
UnopposedPutsAreStored ==
  [][\A c \in CloudCallers :
       Ends(c) /\ calls[c].op = "put" /\ calls'[c].answer = "ok"
         => calls[c].unopposed \subseteq remote]_cloudVars

(* An attempt is followed by another one only after an error that may go   *)
(* away (docs/backend.md: transient failures are retried).                 *)
OnlyTransientRetried ==
  \A c \in CloudCallers : \A u \in DOMAIN task[c] :
    task[c][u].pc = "ready" => task[c][u].err \notin {"missing", "denied", "items"}

(* A call that nobody cancelled answers that the service is unavailable    *)
(* only after as many attempts as are configured; and none makes more, or  *)
(* repeats an attempt after an answer that is final, except that of the    *)
(* path client, which is not understood.                                   *)
RetriesAreSpent ==
  [][\A c \in CloudCallers :
       /\ Ends(c) /\ calls[c].answer' = "unavailable" /\ ~calls[c].canceled
            => \E u \in DOMAIN task[c] : task[c][u].attempt = CloudRetries + 1
       /\ \A u \in DOMAIN task[c] : task[c][u].attempt <= CloudRetries + 1
       /\ provider # "s3path" => OnlyTransientRetried]_cloudVars

(* Every call is answered, whatever the service does or does not do:       *)
(* attempts have a deadline and their number is bounded.                   *)
CallsEnd == \A c \in CloudCallers : InProgress(c) ~> ~InProgress(c)
=============================================================================
