-------------------------------- MODULE Drain --------------------------------
(***************************************************************************)
(* Admission of uploads and the wait for them (src/internal/ops/drain.go): *)
(* a flag and a sync.WaitGroup.  Handlers call Begin and, if it admits     *)
(* them, run and finish; one goroutine calls Start and then Wait.  A step  *)
(* is one access to the flag or to the wait group.                         *)
(***************************************************************************)
EXTENDS Integers, FiniteSets

CONSTANT Handlers  \* goroutines that serve uploads

VARIABLES
  draining,  \* Drain.draining
  count,     \* the counter of Drain.wg
  waiter,    \* the goroutine of Wait: "none", "waiting" or "returned"
  handler    \* where each handler is

drainVars == <<draining, count, waiter, handler>>

DrainInit ==
  /\ draining = FALSE
  /\ count = 0
  /\ waiter = "none"
  /\ handler = [h \in Handlers |-> "idle"]

Goto(h, pc) == handler' = [handler EXCEPT ![h] = pc]

-----------------------------------------------------------------------------
(* Begin: the flag is looked at before and after the handler is counted. *)

BeginLoad(h) ==
  /\ handler[h] = "begin"
  /\ Goto(h, IF draining THEN "idle" ELSE "add")
  /\ UNCHANGED <<draining, count, waiter>>

(* WaitGroup.Add panics if it counts from zero while a goroutine waits and *)
(* has not been woken yet; net/http recovers the panic of a handler.       *)
BeginAdd(h) ==
  /\ handler[h] = "add"
  /\ count' = count + 1
  /\ Goto(h, IF count = 0 /\ waiter = "waiting" THEN "panicked" ELSE "recheck")
  /\ UNCHANGED <<draining, waiter>>

BeginRecheck(h) ==
  /\ handler[h] = "recheck"
  /\ IF draining THEN count' = count - 1 /\ Goto(h, "idle")
                 ELSE count' = count /\ Goto(h, "running")
  /\ UNCHANGED <<draining, waiter>>

(* The function Begin returned, which calls Done once however often it is  *)
(* called; one Done more than Add would be a count of -1, at which the     *)
(* wait group panics (DrainTypeOK rules it out).                           *)
Finish(h) ==
  /\ handler[h] = "running"
  /\ count' = count - 1
  /\ Goto(h, "idle")
  /\ UNCHANGED <<draining, waiter>>

-----------------------------------------------------------------------------
Start ==
  /\ ~draining
  /\ draining' = TRUE
  /\ UNCHANGED <<count, waiter, handler>>

(* Wait starts a goroutine that waits for the group. *)
WaitBegin ==
  /\ draining /\ waiter = "none"
  /\ waiter' = IF count = 0 THEN "returned" ELSE "waiting"
  /\ UNCHANGED <<draining, count, handler>>

(* The call that counted down to zero wakes the goroutine. *)
WaitWoken ==
  /\ waiter = "waiting" /\ count = 0
  /\ waiter' = "returned"
  /\ UNCHANGED <<draining, count, handler>>

(* A request for an upload arrives. *)
Arrive(h) ==
  /\ handler[h] = "idle"
  /\ Goto(h, "begin")
  /\ UNCHANGED <<draining, count, waiter>>

Begin(h) == BeginLoad(h) \/ BeginAdd(h) \/ BeginRecheck(h)

DrainNext ==
  \/ \E h \in Handlers : Arrive(h) \/ Begin(h) \/ Finish(h)
  \/ Start \/ WaitBegin \/ WaitWoken

DrainSpec == DrainInit /\ [][DrainNext]_drainVars

-----------------------------------------------------------------------------
(* Properties. *)

HandlerPcs == {"idle", "begin", "add", "recheck", "running", "panicked"}

\* The variables have their types.  count is never negative: a Done too many
\* would make the wait group panic.
DrainTypeOK ==
  /\ draining \in BOOLEAN
  /\ count \in Nat
  /\ waiter \in {"none", "waiting", "returned"}
  /\ handler \in [Handlers -> HandlerPcs]

Counted == {h \in Handlers : handler[h] \in {"recheck", "running", "panicked"}}

\* The wait group counts each handler that is between its Add and its Done,
\* which ends on every path of Begin and of the handler.
CountExact == count = Cardinality(Counted)

\* Once Wait has returned no admitted upload runs, and none will: a handler
\* that saw the flag down before Start and was counted only after Wait had
\* found the group empty is turned away by the second look at the flag.
NothingRunsAfterWait ==
  waiter = "returned" => \A h \in Handlers : handler[h] # "running"

=============================================================================
