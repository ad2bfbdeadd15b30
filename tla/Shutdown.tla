------------------------------- MODULE Shutdown -------------------------------
(***************************************************************************)
(* How the server stops (main, src/cmd/chunkgate/main.go): a signal starts *)
(* the drain, then http.Server.Shutdown closes the listener and waits for  *)
(* the connections, then Drain.Wait waits for the uploads, all of it under *)
(* one timeout.  Requests that are not uploads are not counted by the      *)
(* drain (beginUpload, src/internal/api/operations.go).                    *)
(***************************************************************************)
EXTENDS Drain

CONSTANT Others  \* goroutines that serve reads, deletes and aborts

VARIABLES
  main,     \* where main is
  expired,  \* whether CHUNKGATE_SHUTDOWN_TIMEOUT_SECONDS have passed
  other,    \* the requests in service that are not uploads
  cut       \* requests that the end of the process cut off

vars == <<drainVars, main, expired, other, cut>>

ShutdownInit ==
  /\ DrainInit
  /\ main = "serving"
  /\ expired = FALSE
  /\ other = {}
  /\ cut = {}

Alive == main \notin {"complete", "failed"}

(* net/http serves requests until Shutdown has closed every connection: a  *)
(* request may still come in over an idle one while Shutdown waits.        *)
Open == main \in {"serving", "signalled", "shutdown"}

ActiveUploads == {h \in Handlers : handler[h] # "idle"}

-----------------------------------------------------------------------------
(* Requests. *)

UploadArrives(h) ==
  /\ Open
  /\ Arrive(h)
  /\ UNCHANGED <<main, expired, other, cut>>

UploadBegins(h) ==
  /\ Alive
  /\ Begin(h)
  /\ UNCHANGED <<main, expired, other, cut>>

UploadEnds(h) ==
  /\ Alive
  /\ Finish(h)
  /\ UNCHANGED <<main, expired, other, cut>>

OtherArrives(o) ==
  /\ Open /\ o \notin other
  /\ other' = other \cup {o}
  /\ UNCHANGED <<drainVars, main, expired, cut>>

OtherEnds(o) ==
  /\ Alive /\ o \in other
  /\ other' = other \ {o}
  /\ UNCHANGED <<drainVars, main, expired, cut>>

-----------------------------------------------------------------------------
(* main, from the signal on. *)

(* The end of the process takes what is being served with it. *)
Exit(how) ==
  /\ main' = how
  /\ cut' = ActiveUploads \cup other

(* drain.Start; the sweeper's context is cancelled, and nobody waits for it. *)
Signal ==
  /\ main = "serving"
  /\ Start
  /\ main' = "signalled"
  /\ UNCHANGED <<expired, other, cut>>

(* ListenAndServe fails: the process ends at once. *)
ListenFails ==
  /\ main = "serving"
  /\ Exit("failed")
  /\ UNCHANGED <<drainVars, expired, other>>

(* The timeout starts with the call of Shutdown. *)
ShutdownCall ==
  /\ main = "signalled"
  /\ main' = "shutdown"
  /\ UNCHANGED <<drainVars, expired, other, cut>>

Timeout ==
  /\ main \in {"shutdown", "wait"} /\ ~expired
  /\ expired' = TRUE
  /\ UNCHANGED <<drainVars, main, other, cut>>

ShutdownReturnsEarly ==
  /\ main = "shutdown"
  /\ main' = "drain"
  /\ UNCHANGED <<drainVars, expired, other, cut>>

ShutdownReturns ==
  /\ main = "shutdown" /\ ActiveUploads = {} /\ other = {}
  /\ main' = "drain"
  /\ UNCHANGED <<drainVars, expired, other, cut>>

(* Wait finds the group empty (WaitGroupNeverMisused below), so WaitWoken  *)
(* is left out here.                                                       *)
DrainWait ==
  /\ main = "drain"
  /\ WaitBegin
  /\ main' = "wait"
  /\ UNCHANGED <<expired, other, cut>>

DrainWaitReturns ==
  /\ main = "wait" /\ waiter = "returned"
  /\ Exit("complete")
  /\ UNCHANGED <<drainVars, expired, other>>

(* Either wait gives up when the context ends. *)
GiveUpWaitOnly ==
  /\ main = "wait" /\ expired
  /\ Exit("failed")
  /\ UNCHANGED <<drainVars, expired, other>>

GiveUp ==
  /\ main \in {"shutdown", "wait"} /\ expired
  /\ Exit("failed")
  /\ UNCHANGED <<drainVars, expired, other>>

MainStep ==
  \/ ShutdownCall \/ Timeout \/ ShutdownReturns \/ DrainWait
  \/ DrainWaitReturns \/ GiveUp

ShutdownNext ==
  \/ \E h \in Handlers : UploadArrives(h) \/ UploadBegins(h) \/ UploadEnds(h)
  \/ \E o \in Others : OtherArrives(o) \/ OtherEnds(o)
  \/ Signal \/ ListenFails \/ MainStep

ShutdownSpec == ShutdownInit /\ [][ShutdownNext]_vars

(* main goes on when it can, and the timer fires.  Clients and backends    *)
(* may keep a handler for ever.                                            *)
FairShutdownSpec == ShutdownSpec /\ WF_vars(MainStep)

-----------------------------------------------------------------------------
(* Properties. *)

\* The variables have their types.
ShutdownTypeOK ==
  /\ DrainTypeOK
  /\ main \in {"serving", "signalled", "shutdown", "drain", "wait", "complete", "failed"}
  /\ expired \in BOOLEAN
  /\ other \in SUBSET Others
  /\ cut \in SUBSET (Handlers \cup Others)

\* A shutdown that reports success has cut no request off, be it an upload
\* the drain counts or one it does not.  (Shutdown is called before Wait.)
CleanExitCutsNothing == main = "complete" => cut = {}

\* In a server that is told to stop, Shutdown has seen the last request by the
\* time of Wait: Wait never has to block, and no handler adds to an empty wait
\* group that is waited for, which would panic.
WaitGroupNeverMisused ==
  main # "serving" =>
    /\ waiter # "waiting"
    /\ \A h \in Handlers : handler[h] # "panicked"

\* What the drain is for: after Wait no upload runs, and neither main nor the
\* handlers come to harm on the way there.
ShutdownIsClean == NothingRunsAfterWait /\ CleanExitCutsNothing /\ WaitGroupNeverMisused

\* After a signal the process ends, whatever its clients do: both waits are
\* under the timeout.
ShutdownEnds == (main = "signalled") ~> ~Alive

=============================================================================
