------------------------- MODULE AdaptiveCPUSemaphore -------------------------
(***************************************************************************)
(* The limiter every upload takes before it chunks                         *)
(* (AdaptiveCPUSemaphore, src/internal/limits/reservations.go): a counter  *)
(* with compare-and-swap, callers that poll, and a limit that follows      *)
(* GOMAXPROCS, which the runtime may change while the server runs.  A step *)
(* is one access to a shared variable.                                     *)
(***************************************************************************)
EXTENDS Integers, FiniteSets

CONSTANTS
  Callers,
  MaxLimit,    \* CHUNKGATE_MAX_CONCURRENT_CHUNKERS
  Headroom,    \* CHUNKGATE_CPU_HEADROOM_CORES
  Processors,  \* the values GOMAXPROCS takes
  MaxChanges   \* bound on the changes of GOMAXPROCS

VARIABLES
  procs,       \* GOMAXPROCS
  active,      \* slots in use
  waiting,     \* the gauge of queued callers
  call,        \* where each caller is
  changes      \* how often procs changed; bounded by MaxChanges

limiterVars == <<procs, active, waiting, call, changes>>

(* Limit: at least one slot, whatever the headroom. *)
LimitWithoutFloor(n) == IF n - Headroom > MaxLimit THEN MaxLimit ELSE n - Headroom

Limit(n) ==
  IF n - Headroom < 1 THEN 1
  ELSE IF n - Headroom > MaxLimit THEN MaxLimit ELSE n - Headroom

(* NewAdaptiveCPUSemaphore makes the maximum positive and the headroom not *)
(* negative.                                                               *)
ASSUME LimiterAssumption ==
  /\ MaxLimit \in Nat \ {0} /\ Headroom \in Nat /\ MaxChanges \in Nat
  /\ Processors \subseteq Nat \ {0}

(* seen is the value of active a caller has loaded, and queued whether it  *)
(* has counted itself in waiting.                                          *)
IdleCall == [pc |-> "idle", seen |-> 0, queued |-> FALSE]

LimiterInit ==
  /\ procs \in Processors
  /\ active = 0
  /\ waiting = 0
  /\ call = [c \in Callers |-> IdleCall]
  /\ changes = 0

Move(c, pc) == call' = [call EXCEPT ![c] = [pc |-> pc, seen |-> @.seen, queued |-> @.queued]]

-----------------------------------------------------------------------------
(* Acquire. *)

Acquire(c) ==
  /\ call[c].pc = "idle"
  /\ Move(c, "try")
  /\ UNCHANGED <<procs, active, waiting, changes>>

Load(c) ==
  /\ call[c].pc = "try"
  /\ call' = [call EXCEPT ![c] = [pc |-> "compare", seen |-> active, queued |-> @.queued]]
  /\ UNCHANGED <<procs, active, waiting, changes>>

(* A caller that sees no free slot queues; the first time it counts itself *)
(* as waiting.                                                             *)
Queue(c) ==
  /\ waiting' = IF call[c].queued THEN waiting ELSE waiting + 1
  /\ call' = [call EXCEPT ![c] = [pc |-> "sleep", seen |-> @.seen, queued |-> TRUE]]

Compare(c) ==
  /\ call[c].pc = "compare"
  /\ IF call[c].seen < Limit(procs) THEN Move(c, "swap") /\ UNCHANGED waiting ELSE Queue(c)
  /\ UNCHANGED <<procs, active, changes>>

(* The deferred decrement of the gauge, on every way out of Acquire. *)
Leave(c, pc) ==
  /\ call' = [call EXCEPT ![c] = [pc |-> pc, seen |-> 0, queued |-> FALSE]]
  /\ waiting' = IF call[c].queued THEN waiting - 1 ELSE waiting

Swap(c) ==
  /\ call[c].pc = "swap"
  /\ IF active = call[c].seen
     THEN active' = active + 1 /\ Move(c, "entered") /\ UNCHANGED waiting
     ELSE active' = active /\ Queue(c)
  /\ UNCHANGED <<procs, changes>>

(* Acquire returns with the slot. *)
Enter(c) ==
  /\ call[c].pc = "entered"
  /\ Leave(c, "held")
  /\ UNCHANGED <<procs, active, changes>>

(* The timer fires. *)
Wake(c) ==
  /\ call[c].pc = "sleep"
  /\ Move(c, "try")
  /\ UNCHANGED <<procs, active, waiting, changes>>

(* The context ends: seen at the head of the loop or instead of the timer. *)
Cancel(c) ==
  /\ call[c].pc \in {"try", "sleep"}
  /\ Leave(c, "idle")
  /\ UNCHANGED <<procs, active, changes>>

ReleaseEachTime(c) ==
  /\ call[c].pc \in {"held", "released"}
  /\ active' = active - 1
  /\ Move(c, IF call[c].pc = "held" THEN "released" ELSE "idle")
  /\ UNCHANGED <<procs, waiting, changes>>

(* The function Acquire returned; the second call of it does nothing. *)
Release(c) ==
  /\ call[c].pc = "held"
  /\ active' = active - 1
  /\ Move(c, "released")
  /\ UNCHANGED <<procs, waiting, changes>>

ReleaseAgain(c) ==
  /\ call[c].pc = "released"
  /\ Move(c, "idle")
  /\ UNCHANGED <<procs, active, waiting, changes>>

-----------------------------------------------------------------------------
(* The runtime changes GOMAXPROCS; MaxChanges is the bound of the model. *)
ChangeProcessors ==
  /\ changes < MaxChanges
  /\ changes' = changes + 1
  /\ procs' \in Processors
  /\ UNCHANGED <<active, waiting, call>>

Poll(c) == Load(c) \/ Compare(c) \/ Swap(c) \/ Enter(c) \/ Wake(c)

LimiterNext ==
  \/ \E c \in Callers :
       Acquire(c) \/ Poll(c) \/ Cancel(c) \/ Release(c) \/ ReleaseAgain(c)
  \/ ChangeProcessors

LimiterSpec == LimiterInit /\ [][LimiterNext]_limiterVars

(* A goroutine that can run does, the timer fires, and an upload that      *)
(* holds a slot gives it back (Put defers the release).                    *)
FairLimiterSpec ==
  /\ LimiterSpec
  /\ \A c \in Callers :
       /\ WF_limiterVars(Poll(c))
       /\ WF_limiterVars(Release(c)) /\ WF_limiterVars(ReleaseAgain(c))

-----------------------------------------------------------------------------
(* Properties. *)

Pcs == {"idle", "try", "compare", "swap", "sleep", "entered", "held", "released"}

Holders == {c \in Callers : call[c].pc \in {"entered", "held"}}

Queued == {c \in Callers : call[c].queued}

\* The counters and the local state of every caller have their types.
LimiterTypeOK ==
  /\ procs \in Processors /\ changes \in Nat
  /\ active \in Nat /\ waiting \in Nat
  /\ call \in [Callers -> [pc : Pcs, seen : Nat, queued : BOOLEAN]]

\* A slot is neither lost nor given twice, by a cancelled caller or by a
\* release that is called again: the counter is the number of holders.
ActiveIsHolders == active = Cardinality(Holders)

\* The slots taken never exceed the limit as long as it does not change, and
\* the configured maximum at any time, although a caller compares a value it
\* has loaded before.  (The swap fails if active has changed meanwhile.)
WithinLimit ==
  /\ active <= MaxLimit
  /\ changes = 0 => active <= Limit(procs)

\* The gauge /metrics shows counts each caller that found no slot once, until
\* it leaves Acquire in whichever way.
WaitingIsQueued == waiting = Cardinality(Queued)

\* Both counters the limiter keeps by hand are what they count, and so no more
\* callers than the limit hold a slot.
SlotsExact == ActiveIsHolders /\ WaitingIsQueued /\ WithinLimit

\* The limiter implements the semaphore it stands in for.
Semaphore == INSTANCE CPUSemaphore WITH Slots <- MaxLimit, taken <- active

ImplementsSemaphore == Semaphore!Spec

\* No caller polls for ever past free slots: as long as it tries, a slot is
\* taken again and again, by it or by another, even when the headroom exceeds
\* the processors.  (limitFloor; who of the pollers wins is left to chance.)
Trying(c) == call[c].pc \in {"try", "compare", "swap", "sleep"}

SomeoneGetsASlot == \A c \in Callers : Trying(c) ~> (Holders # {} \/ ~Trying(c))

=============================================================================
