----------------------------- MODULE ProcessProofs -----------------------------
(***************************************************************************)
(* Theorems about the process and the services it calls.                   *)
(* AdaptiveCPUSemaphore: for any number of callers and any changes of      *)
(* GOMAXPROCS slots are neither lost nor given twice, the limit holds, and *)
(* the limiter implements a semaphore.  Drain and Shutdown, for any number *)
(* of handlers: Wait returns only when no upload runs, and a clean exit    *)
(* cuts nothing off.  BlockBackends, for any callers, blocks, lists of a   *)
(* delete, retries, batch size and workers: an acknowledged block stays    *)
(* until a delete of it begins, calls are answered with what was so, and   *)
(* attempts are repeated as often as they may be.                          *)
(***************************************************************************)
EXTENDS AdaptiveCPUSemaphore, Shutdown, BlockBackends, FiniteSetTheorems, TLAPS

(* A caller that is about to swap has seen a free slot; one outside        *)
(* Acquire is not queued.                                                  *)
SwapsBelowLimit ==
  \A c \in Callers : call[c].pc = "swap" =>
    /\ call[c].seen < MaxLimit
    /\ changes = 0 => call[c].seen < Limit(procs)

QueuedInAcquire == \A c \in Callers : call[c].queued => Trying(c) \/ call[c].pc = "entered"

LimiterInv ==
  /\ LimiterTypeOK
  /\ IsFiniteSet(Holders) /\ ActiveIsHolders
  /\ IsFiniteSet(Queued) /\ WaitingIsQueued
  /\ WithinLimit /\ SwapsBelowLimit /\ QueuedInAcquire

\* Limit lies between one and the configured maximum.
LEMMA LimitBounds ==
  ASSUME NEW n \in Processors
  PROVE  Limit(n) \in 1 .. MaxLimit
BY LimiterAssumption DEF LimiterAssumption, Limit

\* One member more.
LEMMA CountIn ==
  ASSUME NEW S, IsFiniteSet(S), NEW c, c \notin S
  PROVE  IsFiniteSet(S \cup {c}) /\ Cardinality(S \cup {c}) = Cardinality(S) + 1
BY FS_AddElement

\* One member less leaves a natural number of them.
LEMMA CountOut ==
  ASSUME NEW S, IsFiniteSet(S), NEW c \in S
  PROVE  /\ IsFiniteSet(S \ {c}) /\ Cardinality(S \ {c}) = Cardinality(S) - 1
         /\ Cardinality(S) - 1 \in Nat
<1>1. /\ IsFiniteSet(S \ {c}) /\ Cardinality(S \ {c}) = Cardinality(S) - 1
  BY FS_RemoveElement
<1> QED
  BY <1>1, FS_CardinalityType

\* What a step of one caller does to the two sets that are counted.
LEMMA SetsAfter ==
  ASSUME LimiterTypeOK, NEW c \in Callers, NEW r \in [pc : Pcs, seen : Nat, queued : BOOLEAN],
         call' = [call EXCEPT ![c] = r]
  PROVE  /\ Holders' = IF r.pc \in {"entered", "held"} THEN Holders \cup {c} ELSE Holders \ {c}
         /\ Queued' = IF r.queued THEN Queued \cup {c} ELSE Queued \ {c}
         /\ call' \in [Callers -> [pc : Pcs, seen : Nat, queued : BOOLEAN]]
         /\ call'[c] = r /\ \A d \in Callers \ {c} : call'[d] = call[d]
<1>1. /\ call'[c] = r /\ \A d \in Callers \ {c} : call'[d] = call[d]
      /\ call' \in [Callers -> [pc : Pcs, seen : Nat, queued : BOOLEAN]]
  BY DEF LimiterTypeOK
<1>2. Holders' = IF r.pc \in {"entered", "held"} THEN Holders \cup {c} ELSE Holders \ {c}
  BY <1>1 DEF Holders
<1>3. Queued' = IF r.queued THEN Queued \cup {c} ELSE Queued \ {c}
  BY <1>1 DEF Queued
<1> QED
  BY <1>1, <1>2, <1>3

\* No caller holds or waits at the start.
LEMMA LimiterInitInv == LimiterInit => LimiterInv
<1> SUFFICES ASSUME LimiterInit PROVE LimiterInv
  OBVIOUS
<1>1. Holders = {} /\ Queued = {}
  BY DEF LimiterInit, IdleCall, Holders, Queued
<1>2. procs \in Processors /\ Limit(procs) \in 1 .. MaxLimit /\ MaxLimit \in Nat
  BY LimitBounds, LimiterAssumption DEF LimiterInit, LimiterAssumption
<1> QED
  BY <1>1, <1>2, FS_EmptySet
     DEF LimiterInit, IdleCall, LimiterInv, LimiterTypeOK, ActiveIsHolders, WaitingIsQueued, WithinLimit,
         SwapsBelowLimit, QueuedInAcquire, Pcs

(* The record of a caller after a step of it. *)
Moved(c, pc) == [pc |-> pc, seen |-> call[c].seen, queued |-> call[c].queued]

\* A step of one caller between two places outside of a held slot, with no
\* change of what is counted.
LEMMA QuietStep ==
  ASSUME LimiterInv, NEW c \in Callers, NEW pc \in Pcs \ {"entered", "held", "swap"}, NEW s \in Nat,
         call[c].pc \notin {"entered", "held"},
         pc \in {"try", "compare", "sleep"} \/ ~call[c].queued,
         call' = [call EXCEPT ![c] = [pc |-> pc, seen |-> s, queued |-> call[c].queued]],
         UNCHANGED <<procs, active, waiting, changes>>
  PROVE  LimiterInv'
<1> DEFINE r == [pc |-> pc, seen |-> s, queued |-> call[c].queued]
<1>1. LimiterTypeOK /\ call[c].queued \in BOOLEAN
  BY DEF LimiterInv, LimiterTypeOK
<1>2. r \in [pc : Pcs, seen : Nat, queued : BOOLEAN] /\ call' = [call EXCEPT ![c] = r]
  BY <1>1
<1> HIDE DEF r
<1>3. /\ Holders' = IF r.pc \in {"entered", "held"} THEN Holders \cup {c} ELSE Holders \ {c}
      /\ Queued' = IF r.queued THEN Queued \cup {c} ELSE Queued \ {c}
      /\ call' \in [Callers -> [pc : Pcs, seen : Nat, queued : BOOLEAN]]
      /\ call'[c] = r /\ \A d \in Callers \ {c} : call'[d] = call[d]
  BY <1>1, <1>2, SetsAfter
<1>4. r.pc = pc /\ r.queued = call[c].queued
  BY DEF r
<1>5. Holders' = Holders /\ Queued' = Queued
  BY <1>3, <1>4 DEF Holders, Queued
<1>6. LimiterTypeOK'
  BY <1>3 DEF LimiterInv, LimiterTypeOK
<1>7. SwapsBelowLimit' /\ QueuedInAcquire'
  BY <1>3, <1>4 DEF LimiterInv, SwapsBelowLimit, QueuedInAcquire, Trying
<1> QED
  BY <1>5, <1>6, <1>7 DEF LimiterInv, ActiveIsHolders, WaitingIsQueued, WithinLimit

\* A caller that finds no slot queues, counted if it was not before.
LEMMA QueueStep ==
  ASSUME LimiterInv, NEW c \in Callers, call[c].pc \in {"compare", "swap"}, Queue(c),
         UNCHANGED <<procs, active, changes>>
  PROVE  LimiterInv'
<1> DEFINE r == [pc |-> "sleep", seen |-> call[c].seen, queued |-> TRUE]
<1>1. LimiterTypeOK /\ r \in [pc : Pcs, seen : Nat, queued : BOOLEAN]
  BY DEF LimiterInv, LimiterTypeOK, Pcs
<1>2. call' = [call EXCEPT ![c] = r]
  BY DEF Queue
<1>a. r.pc = "sleep" /\ r.queued = TRUE
  OBVIOUS
<1> HIDE DEF r
<1>3. /\ Holders' = Holders \ {c} /\ Queued' = Queued \cup {c}
      /\ call' \in [Callers -> [pc : Pcs, seen : Nat, queued : BOOLEAN]]
      /\ call'[c] = r /\ \A d \in Callers \ {c} : call'[d] = call[d]
  BY <1>1, <1>2, <1>a, SetsAfter
<1>4. Holders' = Holders
  BY <1>3 DEF Holders
<1>5. IsFiniteSet(Queued') /\ waiting' = Cardinality(Queued') /\ waiting' \in Nat
  <2>1. CASE call[c].queued
    <3>1. Queued' = Queued
      BY <1>3, <2>1 DEF Queued
    <3> QED
      BY <2>1, <3>1 DEF LimiterInv, Queue, WaitingIsQueued, LimiterTypeOK
  <2>2. CASE ~call[c].queued
    <3>1. c \notin Queued
      BY <2>2 DEF Queued
    <3>2. IsFiniteSet(Queued') /\ Cardinality(Queued') = Cardinality(Queued) + 1
      BY <1>3, <3>1, CountIn DEF LimiterInv
    <3> QED
      BY <2>2, <3>2 DEF LimiterInv, Queue, WaitingIsQueued, LimiterTypeOK
  <2> QED
    BY <2>1, <2>2
<1>6. LimiterTypeOK'
  BY <1>3, <1>5 DEF LimiterInv, LimiterTypeOK
<1>7. SwapsBelowLimit' /\ QueuedInAcquire'
  BY <1>3, <1>a DEF LimiterInv, SwapsBelowLimit, QueuedInAcquire, Trying
<1> QED
  BY <1>4, <1>5, <1>6, <1>7 DEF LimiterInv, ActiveIsHolders, WaitingIsQueued, WithinLimit

\* A caller that leaves Acquire, with a slot or without, is no longer counted
\* as waiting.
LEMMA LeaveStep ==
  ASSUME LimiterInv, NEW c \in Callers, NEW pc \in {"idle", "held"},
         call[c].pc # "held", call[c].pc = "entered" <=> pc = "held",
         Leave(c, pc), UNCHANGED <<procs, active, changes>>
  PROVE  LimiterInv'
<1> DEFINE r == [pc |-> pc, seen |-> 0, queued |-> FALSE]
<1>1. LimiterTypeOK /\ r \in [pc : Pcs, seen : Nat, queued : BOOLEAN]
  BY DEF LimiterInv, Pcs
<1>2. call' = [call EXCEPT ![c] = r]
  BY DEF Leave
<1>a. r.pc = pc /\ r.queued = FALSE
  OBVIOUS
<1> HIDE DEF r
<1>3. /\ Holders' = IF pc = "held" THEN Holders \cup {c} ELSE Holders \ {c}
      /\ Queued' = Queued \ {c}
      /\ call' \in [Callers -> [pc : Pcs, seen : Nat, queued : BOOLEAN]]
      /\ call'[c] = r /\ \A d \in Callers \ {c} : call'[d] = call[d]
  BY <1>1, <1>2, <1>a, SetsAfter
<1>4. IsFiniteSet(Queued') /\ waiting' = Cardinality(Queued') /\ waiting' \in Nat
  <2>1. CASE call[c].queued
    <3>1. c \in Queued
      BY <2>1 DEF Queued
    <3>2. /\ IsFiniteSet(Queued') /\ Cardinality(Queued') = Cardinality(Queued) - 1
          /\ Cardinality(Queued) - 1 \in Nat
      BY <1>3, <3>1, CountOut DEF LimiterInv
    <3> QED
      BY <2>1, <3>2 DEF LimiterInv, Leave, WaitingIsQueued
  <2>2. CASE ~call[c].queued
    <3>1. Queued' = Queued
      BY <1>3, <2>2 DEF Queued
    <3> QED
      BY <2>2, <3>1 DEF LimiterInv, Leave, WaitingIsQueued, LimiterTypeOK
  <2> QED
    BY <2>1, <2>2
<1>5. Holders' = Holders
  BY <1>3 DEF Holders
<1>6. LimiterTypeOK'
  BY <1>3, <1>4 DEF LimiterInv, LimiterTypeOK
<1>7. SwapsBelowLimit' /\ QueuedInAcquire'
  BY <1>3, <1>a DEF LimiterInv, SwapsBelowLimit, QueuedInAcquire, Trying
<1> QED
  BY <1>4, <1>5, <1>6, <1>7 DEF LimiterInv, ActiveIsHolders, WaitingIsQueued, WithinLimit

-----------------------------------------------------------------------------
\* Every step keeps the invariant.
LEMMA LimiterNextInv == LimiterInv /\ [LimiterNext]_limiterVars => LimiterInv'
<1> SUFFICES ASSUME LimiterInv, [LimiterNext]_limiterVars PROVE LimiterInv'
  OBVIOUS
<1>t. /\ procs \in Processors /\ changes \in Nat /\ active \in Nat /\ waiting \in Nat
      /\ call \in [Callers -> [pc : Pcs, seen : Nat, queued : BOOLEAN]]
  BY DEF LimiterInv, LimiterTypeOK
<1>l. Limit(procs) \in 1 .. MaxLimit /\ MaxLimit \in Nat
  BY <1>t, LimitBounds, LimiterAssumption DEF LimiterAssumption
<1>q. \A c \in Callers :
        call[c].seen \in Nat /\ (call[c].queued => Trying(c) \/ call[c].pc = "entered")
  BY <1>t DEF LimiterInv, QueuedInAcquire
<1>1. ASSUME NEW c \in Callers, Acquire(c) PROVE LimiterInv'
  BY <1>1, <1>q, QuietStep DEF Acquire, Move, Pcs
<1>2. ASSUME NEW c \in Callers, Load(c) PROVE LimiterInv'
  BY <1>2, <1>t, QuietStep DEF Load, Pcs
<1>3. ASSUME NEW c \in Callers, Compare(c) PROVE LimiterInv'
  <2>1. CASE call[c].seen < Limit(procs)
    <3> DEFINE r == Moved(c, "swap")
    <3>1. LimiterTypeOK /\ r \in [pc : Pcs, seen : Nat, queued : BOOLEAN]
      BY <1>t DEF LimiterInv, Moved, Pcs
    <3>2. call' = [call EXCEPT ![c] = r] /\ UNCHANGED <<procs, active, waiting, changes>>
      BY <1>3, <2>1 DEF Compare, Move, Moved
    <3>a. r.pc = "swap" /\ r.queued = call[c].queued /\ r.seen = call[c].seen
      BY DEF Moved
    <3> HIDE DEF r
    <3>3. /\ Holders' = Holders \ {c}
          /\ Queued' = IF r.queued THEN Queued \cup {c} ELSE Queued \ {c}
          /\ call' \in [Callers -> [pc : Pcs, seen : Nat, queued : BOOLEAN]]
          /\ call'[c] = r /\ \A d \in Callers \ {c} : call'[d] = call[d]
      BY <3>1, <3>2, <3>a, SetsAfter
    <3>4. Holders' = Holders /\ Queued' = Queued
      BY <1>3, <3>3, <3>a DEF Compare, Holders, Queued
    <3>5. LimiterTypeOK' /\ QueuedInAcquire'
      BY <3>2, <3>3, <3>a DEF LimiterInv, LimiterTypeOK, QueuedInAcquire, Trying
    <3>6. call[c].seen < MaxLimit
      BY <1>l, <1>q, <2>1
    <3>7. SwapsBelowLimit'
      BY <2>1, <3>2, <3>3, <3>6, <3>a DEF LimiterInv, SwapsBelowLimit, Limit
    <3> QED
      BY <3>2, <3>4, <3>5, <3>7
         DEF LimiterInv, ActiveIsHolders, WaitingIsQueued, WithinLimit, Limit
  <2>2. CASE ~(call[c].seen < Limit(procs))
    BY <1>3, <2>2, QueueStep DEF Compare
  <2> QED
    BY <2>1, <2>2
<1>4. ASSUME NEW c \in Callers, Swap(c) PROVE LimiterInv'
  <2>1. CASE active = call[c].seen
    <3>1. active + 1 <= MaxLimit /\ (changes = 0 => active + 1 <= Limit(procs))
      BY <1>4, <1>t, <1>l, <2>1 DEF Swap, LimiterInv, SwapsBelowLimit
    <3>2. WithinLimit'
      BY <1>4, <2>1, <3>1 DEF Swap, WithinLimit, Limit
    <3> DEFINE r == Moved(c, "entered")
    <3>3. LimiterTypeOK /\ r \in [pc : Pcs, seen : Nat, queued : BOOLEAN]
      BY <1>t DEF LimiterInv, Moved, Pcs
    <3>4. call' = [call EXCEPT ![c] = r]
      BY <1>4, <2>1 DEF Swap, Move, Moved
    <3>a. r.pc = "entered" /\ r.queued = call[c].queued
      BY DEF Moved
    <3> HIDE DEF r
    <3>5. /\ Holders' = Holders \cup {c}
          /\ Queued' = IF r.queued THEN Queued \cup {c} ELSE Queued \ {c}
          /\ call' \in [Callers -> [pc : Pcs, seen : Nat, queued : BOOLEAN]]
          /\ call'[c] = r /\ \A d \in Callers \ {c} : call'[d] = call[d]
      BY <3>3, <3>4, <3>a, SetsAfter
    <3>6. Queued' = Queued /\ c \notin Holders
      BY <1>4, <3>5, <3>a DEF Swap, Holders, Queued
    <3>7. IsFiniteSet(Holders') /\ Cardinality(Holders') = Cardinality(Holders) + 1
      BY <3>5, <3>6, CountIn DEF LimiterInv
    <3>8. active = Cardinality(Holders) /\ active' = active + 1
      BY <1>4, <2>1 DEF Swap, LimiterInv, ActiveIsHolders
    <3>b. ActiveIsHolders' /\ active' \in Nat
      BY <1>t, <3>7, <3>8 DEF ActiveIsHolders
    <3>9. LimiterTypeOK' /\ WaitingIsQueued' /\ IsFiniteSet(Queued')
      BY <1>4, <2>1, <3>5, <3>6, <3>b DEF Swap, LimiterInv, LimiterTypeOK, WaitingIsQueued
    <3>10. SwapsBelowLimit' /\ QueuedInAcquire'
      BY <1>4, <2>1, <3>5, <3>a DEF Swap, LimiterInv, SwapsBelowLimit, QueuedInAcquire, Trying, Limit
    <3> QED
      BY <3>2, <3>7, <3>b, <3>9, <3>10 DEF LimiterInv
  <2>2. CASE active # call[c].seen
    BY <1>4, <2>2, QueueStep DEF Swap
  <2> QED
    BY <2>1, <2>2
<1>5. ASSUME NEW c \in Callers, Wake(c) PROVE LimiterInv'
  BY <1>5, <1>q, QuietStep DEF Wake, Move, Pcs
<1>6. ASSUME NEW c \in Callers, Cancel(c) PROVE LimiterInv'
  BY <1>6, LeaveStep DEF Cancel
<1>7. ASSUME NEW c \in Callers, Release(c) PROVE LimiterInv'
  <2> DEFINE r == Moved(c, "released")
  <2>1. LimiterTypeOK /\ r \in [pc : Pcs, seen : Nat, queued : BOOLEAN]
    BY <1>t DEF LimiterInv, Moved, Pcs
  <2>2. call' = [call EXCEPT ![c] = r] /\ ~call[c].queued
    BY <1>7, <1>q DEF Release, Move, Moved, Trying
  <2>a. r.pc = "released" /\ r.queued = call[c].queued
    BY DEF Moved
  <2> HIDE DEF r
  <2>3. /\ Holders' = Holders \ {c} /\ Queued' = Queued \ {c}
        /\ call' \in [Callers -> [pc : Pcs, seen : Nat, queued : BOOLEAN]]
        /\ call'[c] = r /\ \A d \in Callers \ {c} : call'[d] = call[d]
    BY <2>1, <2>2, <2>a, SetsAfter
  <2>4. Queued' = Queued /\ c \in Holders
    BY <1>7, <2>2, <2>3 DEF Release, Holders, Queued
  <2>5. /\ IsFiniteSet(Holders') /\ Cardinality(Holders') = Cardinality(Holders) - 1
        /\ Cardinality(Holders) - 1 \in Nat
    BY <2>3, <2>4, CountOut DEF LimiterInv
  <2>6. IsFiniteSet(Holders') /\ ActiveIsHolders' /\ active' \in Nat /\ active' <= active
    BY <1>7, <1>t, <2>5 DEF Release, LimiterInv, ActiveIsHolders
  <2>7. LimiterTypeOK'
    BY <1>7, <2>3, <2>6 DEF Release, LimiterInv, LimiterTypeOK
  <2>8. SwapsBelowLimit' /\ QueuedInAcquire'
    BY <1>7, <2>2, <2>3, <2>a DEF Release, LimiterInv, SwapsBelowLimit, QueuedInAcquire, Trying, Limit
  <2>9. WithinLimit'
    BY <1>7, <1>t, <1>l, <2>6 DEF Release, LimiterInv, WithinLimit, Limit
  <2> QED
    BY <1>7, <2>4, <2>6, <2>7, <2>8, <2>9 DEF Release, LimiterInv, WaitingIsQueued
<1>8. ASSUME NEW c \in Callers, ReleaseAgain(c) PROVE LimiterInv'
  BY <1>8, <1>q, QuietStep DEF ReleaseAgain, Move, Trying, Pcs
<1>9. CASE ChangeProcessors
  <2>1. changes' # 0 /\ changes' \in Nat
    BY <1>9, <1>t DEF ChangeProcessors
  <2> QED
    BY <1>9, <2>1 DEF ChangeProcessors, LimiterInv, LimiterTypeOK, ActiveIsHolders, Holders,
       WaitingIsQueued, Queued, WithinLimit, SwapsBelowLimit, QueuedInAcquire, Trying
<1>10. CASE UNCHANGED limiterVars
  BY <1>10 DEF limiterVars, LimiterInv, LimiterTypeOK, ActiveIsHolders, Holders,
     WaitingIsQueued, Queued, WithinLimit, SwapsBelowLimit, QueuedInAcquire, Trying, Limit
<1>11. ASSUME NEW c \in Callers, Enter(c) PROVE LimiterInv'
  BY <1>11, LeaveStep DEF Enter
<1> QED
  BY <1>1, <1>2, <1>3, <1>4, <1>5, <1>6, <1>7, <1>8, <1>9, <1>10, <1>11 DEF LimiterNext, Poll

-----------------------------------------------------------------------------
\* The counters and every caller's state have their types.
THEOREM LimiterTypeCorrect == LimiterSpec => []LimiterTypeOK
<1>1. LimiterInv => LimiterTypeOK
  BY DEF LimiterInv
<1> QED
  BY <1>1, LimiterInitInv, LimiterNextInv, PTL DEF LimiterSpec

\* Slots are neither lost nor given twice nor taken beyond the limit, and the
\* gauge counts who waits.
THEOREM SlotsAreExact == LimiterSpec => []SlotsExact
<1>1. LimiterInv => SlotsExact
  BY DEF LimiterInv, SlotsExact
<1> QED
  BY <1>1, LimiterInitInv, LimiterNextInv, PTL DEF LimiterSpec

\* The limiter implements the semaphore.
THEOREM LimiterImplementsSemaphore == LimiterSpec => ImplementsSemaphore
<1>1. LimiterInit => Semaphore!Init
  BY DEF LimiterInit, Semaphore!Init
<1>2. LimiterInv /\ LimiterInv' /\ [LimiterNext]_limiterVars => [Semaphore!Next]_active
  <2> SUFFICES ASSUME LimiterInv, LimiterInv', [LimiterNext]_limiterVars PROVE [Semaphore!Next]_active
    OBVIOUS
  <2>1. active \in Nat /\ active' \in Nat /\ active' <= MaxLimit /\ MaxLimit \in Nat
    BY LimiterAssumption DEF LimiterInv, LimiterTypeOK, WithinLimit, LimiterAssumption
  <2>2. active' \in {active, active + 1, active - 1}
    BY DEF LimiterNext, limiterVars, Acquire, Poll, Load, Compare, Swap, Enter, Wake, Cancel, Release, ReleaseAgain,
       ChangeProcessors
  <2> QED
    BY <2>1, <2>2 DEF Semaphore!Next, Semaphore!Acquire, Semaphore!Release
<1> QED
  BY <1>1, <1>2, LimiterInitInv, LimiterNextInv, PTL DEF LimiterSpec, ImplementsSemaphore, Semaphore!Spec

-----------------------------------------------------------------------------
(* Only a drain that has started is waited for, and its wait is over only  *)
(* while every counted handler is about to be turned away.                 *)
DrainInv ==
  /\ DrainTypeOK
  /\ IsFiniteSet(Counted) /\ CountExact
  /\ waiter # "none" => draining
  /\ NothingRunsAfterWait

\* What a handler's step does to the set of counted handlers.
LEMMA CountedAfter ==
  ASSUME handler \in [Handlers -> HandlerPcs], NEW h \in Handlers, NEW pc, Goto(h, pc)
  PROVE  /\ pc \in {"recheck", "running", "panicked"} => Counted' = Counted \cup {h}
         /\ pc \notin {"recheck", "running", "panicked"} => Counted' = Counted \ {h}
BY DEF Goto, Counted

\* No handler is counted before the first one arrives.
LEMMA DrainInitInv == DrainInit => DrainInv
<1> SUFFICES ASSUME DrainInit PROVE DrainInv
  OBVIOUS
<1>1. Counted = {}
  BY DEF DrainInit, Counted
<1> QED
  BY <1>1, FS_EmptySet DEF DrainInit, DrainInv, DrainTypeOK, CountExact, HandlerPcs, NothingRunsAfterWait

\* Every step of the drain keeps its invariant.
LEMMA DrainNextInv == DrainInv /\ [DrainNext]_drainVars => DrainInv'
<1> SUFFICES ASSUME DrainInv, [DrainNext]_drainVars PROVE DrainInv'
  OBVIOUS
<1> USE DEF DrainInv
<1>t. /\ handler \in [Handlers -> HandlerPcs] /\ count \in Nat /\ draining \in BOOLEAN
      /\ waiter \in {"none", "waiting", "returned"}
  BY DEF DrainTypeOK
<1>n. count = 0 => Counted = {}
  BY FS_EmptySet DEF CountExact
<1>1. ASSUME NEW h \in Handlers, Arrive(h) PROVE DrainInv'
  <2>1. h \notin Counted /\ Counted' = Counted \ {h}
    BY <1>1, <1>t, CountedAfter DEF Arrive, Counted
  <2>2. Counted' = Counted
    BY <2>1
  <2> QED
    BY <1>1, <1>t, <2>2 DEF Arrive, Goto, DrainTypeOK, CountExact, NothingRunsAfterWait, HandlerPcs
<1>2. ASSUME NEW h \in Handlers, BeginLoad(h) PROVE DrainInv'
  <2>1. h \notin Counted /\ Counted' = Counted \ {h}
    BY <1>2, <1>t, CountedAfter DEF BeginLoad, Counted
  <2>2. Counted' = Counted
    BY <2>1
  <2> QED
    BY <1>2, <1>t, <2>2 DEF BeginLoad, Goto, DrainTypeOK, CountExact, NothingRunsAfterWait, HandlerPcs
<1>3. ASSUME NEW h \in Handlers, BeginAdd(h) PROVE DrainInv'
  <2>1. h \notin Counted /\ Counted' = Counted \cup {h}
    BY <1>3, <1>t, CountedAfter DEF BeginAdd, Counted
  <2>2. IsFiniteSet(Counted') /\ Cardinality(Counted') = count + 1
    BY <2>1, CountIn DEF CountExact
  <2> QED
    BY <1>3, <1>t, <2>2 DEF BeginAdd, Goto, DrainTypeOK, CountExact, NothingRunsAfterWait, HandlerPcs
<1>4. ASSUME NEW h \in Handlers, BeginRecheck(h) PROVE DrainInv'
  <2>1. h \in Counted
    BY <1>4 DEF BeginRecheck, Counted
  <2>2. CASE draining
    <3>1. Counted' = Counted \ {h}
      BY <1>4, <1>t, <2>2, CountedAfter DEF BeginRecheck
    <3>2. IsFiniteSet(Counted') /\ Cardinality(Counted') = count - 1 /\ count - 1 \in Nat
      BY <2>1, <3>1, CountOut DEF CountExact
    <3> QED
      BY <1>4, <1>t, <2>2, <3>2
         DEF BeginRecheck, Goto, DrainTypeOK, CountExact, NothingRunsAfterWait, HandlerPcs
  <2>3. CASE ~draining
    <3>1. Counted' = Counted \cup {h}
      BY <1>4, <1>t, <2>3, CountedAfter DEF BeginRecheck
    <3>2. Counted' = Counted /\ waiter = "none"
      BY <2>1, <2>3, <3>1
    <3> QED
      BY <1>4, <1>t, <2>3, <3>2
         DEF BeginRecheck, Goto, DrainTypeOK, CountExact, NothingRunsAfterWait, HandlerPcs
  <2> QED
    BY <2>2, <2>3
<1>5. ASSUME NEW h \in Handlers, Finish(h) PROVE DrainInv'
  <2>1. h \in Counted /\ Counted' = Counted \ {h}
    BY <1>5, <1>t, CountedAfter DEF Finish, Counted
  <2>2. IsFiniteSet(Counted') /\ Cardinality(Counted') = count - 1 /\ count - 1 \in Nat
    BY <2>1, CountOut DEF CountExact
  <2> QED
    BY <1>5, <1>t, <2>2 DEF Finish, Goto, DrainTypeOK, CountExact, NothingRunsAfterWait, HandlerPcs
<1>6. CASE Start
  <2>1. Counted' = Counted
    BY <1>6 DEF Start, Counted
  <2> QED
    BY <1>6, <1>t, <2>1 DEF Start, DrainTypeOK, CountExact, NothingRunsAfterWait
<1>7. CASE WaitBegin \/ WaitWoken
  <2>1. Counted' = Counted /\ draining'
    BY <1>7, <1>t DEF WaitBegin, WaitWoken, Counted
  <2>2. waiter' = "returned" => \A h \in Handlers : handler'[h] # "running"
    BY <1>7, <1>n DEF WaitBegin, WaitWoken, Counted
  <2> QED
    BY <1>7, <1>t, <2>1, <2>2 DEF WaitBegin, WaitWoken, DrainTypeOK, CountExact, NothingRunsAfterWait
<1>8. CASE UNCHANGED drainVars
  <2>1. Counted' = Counted
    BY <1>8 DEF drainVars, Counted
  <2> QED
    BY <1>8, <1>t, <2>1 DEF drainVars, DrainTypeOK, CountExact, NothingRunsAfterWait
<1> QED
  BY <1>1, <1>2, <1>3, <1>4, <1>5, <1>6, <1>7, <1>8 DEF DrainNext, Begin

\* The counter of the wait group never goes negative, which would panic.
THEOREM DrainTypeCorrect == DrainSpec => []DrainTypeOK
<1>1. DrainInv => DrainTypeOK
  BY DEF DrainInv
<1> QED
  BY <1>1, DrainInitInv, DrainNextInv, PTL DEF DrainSpec

\* The wait group counts exactly the handlers between Add and Done.
THEOREM DrainCountsExactly == DrainSpec => []CountExact
<1>1. DrainInv => CountExact
  BY DEF DrainInv
<1> QED
  BY <1>1, DrainInitInv, DrainNextInv, PTL DEF DrainSpec

\* Once Wait has returned, no admitted upload runs.
THEOREM WaitIsFinal == DrainSpec => []NothingRunsAfterWait
<1>1. DrainInv => NothingRunsAfterWait
  BY DEF DrainInv
<1> QED
  BY <1>1, DrainInitInv, DrainNextInv, PTL DEF DrainSpec

-----------------------------------------------------------------------------
(* In a server it holds from the start; a drain alone would break it.      *)
NoMisuse ==
  /\ waiter # "waiting"
  /\ \A h \in Handlers : handler[h] # "panicked"

(* From the return of http.Server.Shutdown on nothing is being served, so  *)
(* Wait finds the group empty and what is left to do cuts nothing off.     *)
ShutdownInv ==
  /\ DrainInv
  /\ ShutdownTypeOK
  /\ main = "serving" => ~draining
  /\ main \in {"signalled", "shutdown", "drain", "wait"} => draining
  /\ main \in {"serving", "signalled", "shutdown", "drain"} => waiter = "none"
  /\ main \in {"drain", "wait", "complete"} => ActiveUploads = {} /\ other = {}
  /\ CleanExitCutsNothing
  /\ NoMisuse

\* Every step of the composition is a step of the drain or leaves it alone.
LEMMA StepsOfTheDrain == ShutdownNext => [DrainNext]_drainVars
BY DEF ShutdownNext, MainStep, UploadArrives, UploadBegins, UploadEnds, OtherArrives,
       OtherEnds, Signal, ListenFails, ShutdownCall, Timeout, ShutdownReturns, DrainWait,
       DrainWaitReturns, GiveUp, DrainNext

\* Nothing has been cut off or misused at the start.
LEMMA ShutdownInitInv == ShutdownInit => ShutdownInv
BY DrainInitInv
   DEF ShutdownInit, DrainInit, ShutdownInv, DrainInv, ShutdownTypeOK, CleanExitCutsNothing,
       NoMisuse

\* Every step of the composition keeps its invariant.
LEMMA ShutdownNextInv == ShutdownInv /\ [ShutdownNext]_vars => ShutdownInv'
<1> SUFFICES ASSUME ShutdownInv, [ShutdownNext]_vars PROVE ShutdownInv'
  OBVIOUS
<1> USE DEF ShutdownInv
<1>d. DrainInv' /\ DrainTypeOK'
  BY StepsOfTheDrain, DrainNextInv DEF vars, DrainInv, drainVars
<1>t. /\ handler \in [Handlers -> HandlerPcs]
      /\ waiter \in {"none", "waiting", "returned"} /\ draining \in BOOLEAN
  BY DEF ShutdownTypeOK, DrainTypeOK
<1>1. ASSUME NEW h \in Handlers, UploadArrives(h) PROVE ShutdownInv'
  BY <1>1, <1>d, <1>t DEF UploadArrives, Arrive, Goto, Open, ShutdownTypeOK,
     CleanExitCutsNothing, NoMisuse, HandlerPcs, ActiveUploads
<1>2. ASSUME NEW h \in Handlers, UploadBegins(h) \/ UploadEnds(h) PROVE ShutdownInv'
  <2>1. handler[h] # "idle" /\ h \in ActiveUploads
    BY <1>2 DEF UploadBegins, UploadEnds, Begin, BeginLoad, BeginAdd, BeginRecheck, Finish,
       ActiveUploads
  <2>2. main \in {"serving", "signalled", "shutdown"} \/ main = "failed"
    BY <2>1 DEF ShutdownTypeOK
  <2>3. main \in {"serving", "signalled", "shutdown"} /\ waiter = "none"
    BY <1>2, <2>2 DEF UploadBegins, UploadEnds, Alive
  <2>4. UNCHANGED <<draining, waiter, main, expired, other, cut>>
    BY <1>2 DEF UploadBegins, UploadEnds, Begin, BeginLoad, BeginAdd, BeginRecheck, Finish
  <2>5. \A g \in Handlers : handler'[g] # "panicked"
    BY <1>2, <1>t, <2>3 DEF UploadBegins, UploadEnds, Begin, BeginLoad, BeginAdd,
       BeginRecheck, Finish, Goto, NoMisuse
  <2> QED
    BY <1>d, <2>3, <2>4, <2>5 DEF ShutdownTypeOK, CleanExitCutsNothing, NoMisuse
<1>3. ASSUME NEW o \in Others, OtherArrives(o) \/ OtherEnds(o) PROVE ShutdownInv'
  BY <1>3, <1>d DEF OtherArrives, OtherEnds, Open, Alive, drainVars, ShutdownTypeOK,
     CleanExitCutsNothing, NoMisuse, ActiveUploads
<1>4. CASE Signal
  BY <1>4, <1>d DEF Signal, Start, ShutdownTypeOK, CleanExitCutsNothing, NoMisuse
<1>5. CASE ListenFails \/ GiveUp
  <2>1. ActiveUploads \cup other \in SUBSET (Handlers \cup Others)
    BY DEF ActiveUploads, ShutdownTypeOK
  <2> QED
    BY <1>5, <1>d, <2>1 DEF ListenFails, GiveUp, Exit, drainVars, ShutdownTypeOK,
       CleanExitCutsNothing, NoMisuse
<1>6. CASE ShutdownCall \/ Timeout
  BY <1>6, <1>d DEF ShutdownCall, Timeout, drainVars, ShutdownTypeOK, CleanExitCutsNothing,
     NoMisuse, ActiveUploads
<1>7. CASE ShutdownReturns
  BY <1>7, <1>d DEF ShutdownReturns, drainVars, ShutdownTypeOK, CleanExitCutsNothing,
     NoMisuse, ActiveUploads
<1>8. CASE DrainWait
  <2>1. Counted = {}
    BY <1>8 DEF DrainWait, ActiveUploads, Counted
  <2>2. count = 0
    BY <2>1, FS_EmptySet DEF DrainInv, CountExact
  <2> QED
    BY <1>8, <1>d, <2>2 DEF DrainWait, WaitBegin, ShutdownTypeOK, CleanExitCutsNothing,
       NoMisuse, ActiveUploads
<1>9. CASE DrainWaitReturns
  BY <1>9, <1>d DEF DrainWaitReturns, Exit, drainVars, ShutdownTypeOK, CleanExitCutsNothing,
     NoMisuse, ActiveUploads
<1>10. CASE UNCHANGED vars
  BY <1>10, <1>d DEF vars, drainVars, ShutdownTypeOK, CleanExitCutsNothing,
     NoMisuse, ActiveUploads
<1> QED
  BY <1>1, <1>2, <1>3, <1>4, <1>5, <1>6, <1>7, <1>8, <1>9, <1>10 DEF ShutdownNext, MainStep

\* The state of a server that stops is well formed.
THEOREM ShutdownTypeCorrect == ShutdownSpec => []ShutdownTypeOK
<1>1. ShutdownInv => ShutdownTypeOK
  BY DEF ShutdownInv
<1> QED
  BY <1>1, ShutdownInitInv, ShutdownNextInv, PTL DEF ShutdownSpec

\* A shutdown that reports success has cut no request off.
THEOREM CleanShutdown == ShutdownSpec => []CleanExitCutsNothing
<1>1. ShutdownInv => CleanExitCutsNothing
  BY DEF ShutdownInv
<1> QED
  BY <1>1, ShutdownInitInv, ShutdownNextInv, PTL DEF ShutdownSpec

\* Wait never blocks and no handler panics.
THEOREM WaitGroupIsUsedWell == ShutdownSpec => []WaitGroupNeverMisused
<1>1. ShutdownInv => WaitGroupNeverMisused
  BY DEF ShutdownInv, NoMisuse, WaitGroupNeverMisused
<1> QED
  BY <1>1, ShutdownInitInv, ShutdownNextInv, PTL DEF ShutdownSpec

\* All of it together: after Wait no upload runs, a clean exit has cut nothing
\* off, and neither main nor a handler has come to harm.
THEOREM ShutdownStaysClean == ShutdownSpec => []ShutdownIsClean
<1>1. ShutdownInv => ShutdownIsClean
  BY DEF ShutdownInv, DrainInv, NoMisuse, WaitGroupNeverMisused, ShutdownIsClean
<1> QED
  BY <1>1, ShutdownInitInv, ShutdownNextInv, PTL DEF ShutdownSpec

-----------------------------------------------------------------------------
(* The block backends.  The invariant says, of a call, what its tasks have *)
(* been told, what a put still vouches for and what a delete has removed;  *)
(* and that no block somebody vouches for is in danger of a removal.       *)
Removals == {"delete", "purge"}

TaskStates ==
  [asks : {"none", "put", "stat", "open", "get"} \cup Removals,
   pc : {"ready", "sent", "executed", "done"}, attempt : Nat,
   err : {"none", "missing", "busy", "unauth", "denied", "items", "deadline", "reset", "canceled"}]

CallStates ==
  [op : {"none", "put", "has", "get", "delete"}, keys : SUBSET CloudBlocks,
   mode : {"single", "between", "bulk", "each"}, todo : SUBSET CloudBlocks,
   batch : SUBSET CloudBlocks, jobs : SUBSET CloudBlocks, canceled : BOOLEAN, stopped : BOOLEAN,
   answer : {"none", "ok", "no", "notfound", "unavailable", "failed", "canceled"},
   was : SUBSET CloudBlocks, wasnt : SUBSET CloudBlocks, dropped : BOOLEAN,
   undeleted : SUBSET CloudBlocks, unopposed : SUBSET CloudBlocks]

CloudTypeOK ==
  /\ remote \in SUBSET CloudBlocks
  /\ calls \in [CloudCallers -> CallStates]
  /\ DOMAIN task = CloudCallers
  /\ \A r \in late : r.blocks \subseteq CloudBlocks

(* An error after which a call answers that the service is unavailable.    *)
Passing(store, err) == err \in {"deadline", "busy"} \/ (store = "azure" /\ err = "unauth")

(* What a task has been told of its blocks was so during its call.         *)
Told(work, t, u) ==
  /\ t.err = "none" /\ t.asks \notin Removals => u \subseteq work.was
  /\ t.err = "none" /\ t.asks \in Removals /\ ~work.dropped => u \subseteq work.wasnt
  /\ t.err = "missing" => u \subseteq work.wasnt

(* Attempts are counted, and the end of a task has its reason.             *)
TaskOK(store, work, t, u) ==
  /\ t.attempt <= CloudRetries + 1
  /\ t.pc = "ready" => t.attempt <= CloudRetries
  /\ t.pc = "ready" /\ store # "s3path" => t.err \notin {"missing", "denied", "items"}
  /\ t.pc = "done" /\ ~work.canceled /\ Passing(store, t.err) => t.attempt = CloudRetries + 1
  /\ t.asks = "purge" => t.err # "missing"
  /\ work.op # "none" /\ t.pc \in {"executed", "done"} => Told(work, t, u)

TasksOK(store, work, tasks) ==
  /\ DOMAIN tasks \subseteq SUBSET CloudBlocks
  /\ \A u \in DOMAIN tasks :
       /\ tasks[u] \in TaskStates /\ TaskOK(store, work, tasks[u], u)
       /\ tasks[u].asks # "purge" => \E b \in CloudBlocks : u = {b}

(* A call about one block has one task; a put that was told of success has *)
(* its block in place, unless a delete was under way.                      *)
SingleOK(work, tasks, held) ==
  work.op \in {"put", "has", "get"} =>
    /\ work.mode = "single" /\ work.jobs = {} /\ DOMAIN tasks = {work.keys}
    /\ tasks[work.keys].asks \notin Removals
    /\ work.op = "put" <=> tasks[work.keys].asks = "put"
    /\ work.op = "put" /\ tasks[work.keys].err = "none" /\ tasks[work.keys].pc \in {"executed", "done"}
         => work.undeleted \subseteq held

(* A delete has removed what is in no batch any more; the blocks of its    *)
(* batch have one task together or, once dispatched, one each.             *)
DeleteOK(work, tasks) ==
  work.op = "delete" =>
    /\ IsFiniteSet(work.keys) /\ work.mode # "single"
    /\ work.todo \subseteq work.keys /\ work.batch \subseteq work.keys
    /\ work.jobs \subseteq work.batch
    /\ work.jobs # {} \/ work.stopped => work.mode = "each"
    /\ \A u \in DOMAIN tasks : /\ tasks[u].asks \in Removals
                               /\ work.mode = "each" => tasks[u].asks = "delete"
    /\ ~work.dropped => /\ work.keys \ (work.todo \cup work.batch) \subseteq work.wasnt
                        /\ work.mode = "between" => work.keys \ work.todo \subseteq work.wasnt
    /\ work.mode = "bulk" => DOMAIN tasks = {work.batch}
    /\ work.mode = "each" /\ ~work.stopped => \A b \in work.batch \ work.jobs : {b} \in DOMAIN tasks

(* A call that is over has left nothing but goroutines of Azure that       *)
(* delete a block each.                                                    *)
OverOK(store, work, tasks) ==
  work.op = "none" =>
    /\ work.jobs = {} /\ work.mode = "single"
    /\ \A u \in DOMAIN tasks : tasks[u].pc # "done" => store = "azure" /\ tasks[u].asks = "delete"

CallOK(store, work, tasks, held) ==
  /\ TasksOK(store, work, tasks)
  /\ SingleOK(work, tasks, held) /\ DeleteOK(work, tasks) /\ OverOK(store, work, tasks)
  /\ work.op # "put" => work.undeleted = {}
  /\ work.op # "none" => \A u \in DOMAIN tasks : u \subseteq work.keys
  /\ work.undeleted \subseteq work.keys

CloudInv ==
  /\ CloudTypeOK
  /\ \A c \in CloudCallers : CallOK(provider, calls[c], task[c], remote)
  /\ \A b \in acked : b \in remote /\ ~MayStillRemove(b)
  /\ \A c \in CloudCallers : \A b \in calls[c].undeleted : ~MayStillRemove(b)

-----------------------------------------------------------------------------
\* Which blocks a task may still remove is known.
LEMMA RunningRemovals ==
  ASSUME CloudInv, NEW c \in CloudCallers, NEW u \in DOMAIN task[c], task[c][u].pc # "done",
         task[c][u].asks \in Removals
  PROVE  \A b \in u : MayStillRemove(b)
<1> DEFINE work == calls[c]
           t == task[c][u]
<1>1. CallOK(provider, work, task[c], remote) /\ work \in CallStates
  BY DEF CloudInv, CloudTypeOK
<1> SUFFICES ASSUME NEW b \in u PROVE MayStillRemove(b)
  OBVIOUS
<1>2. CASE work.op = "delete"
  BY <1>1, <1>2 DEF CallOK, MayStillRemove, BeingDeleted
<1>3. CASE work.op = "none"
  <2>1. provider = "azure" /\ t.asks = "delete"
    BY <1>1, <1>3 DEF CallOK, OverOK
  <2>2. u = {b}
    BY <1>1, <2>1 DEF CallOK, TasksOK
  <2>3. {b} \in Running(c) /\ task[c][{b}].asks = "delete"
    BY <2>1, <2>2 DEF Running
  <2> QED
    BY <2>1, <2>3 DEF MayStillRemove, BeingDeleted
<1>4. CASE work.op \in {"put", "has", "get"}
  BY <1>1, <1>4 DEF CallOK, SingleOK
<1> QED
  BY <1>1, <1>2, <1>3, <1>4 DEF CallStates

\* A request that may be given up without putting a block in danger that was
\* not in danger before.
KnownRequest(r) ==
  r.blocks \subseteq CloudBlocks /\ (r.asks = "put" \/ \A b \in r.blocks : MayStillRemove(b))

\* A step that begins no delete and gives up no request but one that was
\* known leaves no block in danger that was not.
LEMMA NothingNewRemoves ==
  ASSUME provider' = provider,
         \A d \in CloudCallers : calls'[d].op = "delete" =>
           calls[d].op = "delete" /\ calls'[d].keys \subseteq calls[d].keys,
         \A r \in late' : r \in late \/ KnownRequest(r),
         \A d \in CloudCallers : \A u \in DOMAIN task'[d] :
           task'[d][u].pc # "done" /\ task'[d][u].asks = "delete" =>
             \/ u \in DOMAIN task[d] /\ task[d][u].pc # "done" /\ task[d][u].asks = "delete"
             \/ \A b \in u : MayStillRemove(b)
  PROVE  \A b : MayStillRemove(b)' => MayStillRemove(b)
<1> SUFFICES ASSUME NEW b, MayStillRemove(b)' PROVE MayStillRemove(b)
  OBVIOUS
<1>1. CASE \E d \in CloudCallers : calls'[d].op = "delete" /\ b \in calls'[d].keys
  BY <1>1 DEF MayStillRemove, BeingDeleted
<1>2. CASE \E r \in late' : r.asks # "put" /\ b \in r.blocks
  BY <1>2 DEF MayStillRemove, BeingDeleted, KnownRequest
<1>3. CASE /\ provider = "azure"
           /\ \E d \in CloudCallers : {b} \in DOMAIN task'[d] /\ task'[d][{b}].pc # "done"
                                      /\ task'[d][{b}].asks = "delete"
  <2>1. PICK d \in CloudCallers : /\ {b} \in DOMAIN task'[d] /\ task'[d][{b}].pc # "done"
                                  /\ task'[d][{b}].asks = "delete"
    BY <1>3
  <2>2. CASE {b} \in DOMAIN task[d] /\ task[d][{b}].pc # "done" /\ task[d][{b}].asks = "delete"
    BY <1>3, <2>2 DEF MayStillRemove, BeingDeleted, Running
  <2>3. CASE \A x \in {b} : MayStillRemove(x)
    BY <2>3
  <2> QED
    BY <2>1, <2>2, <2>3
<1> QED
  BY <1>1, <1>2, <1>3 DEF MayStillRemove, BeingDeleted, Running

\* A call learns more of its blocks, or that its context has ended.
Grown(work, after) ==
  /\ after.op = work.op /\ after.keys = work.keys /\ after.mode = work.mode
  /\ after.todo = work.todo /\ after.batch = work.batch /\ after.jobs = work.jobs
  /\ after.stopped = work.stopped /\ after.undeleted = work.undeleted
  /\ work.canceled => after.canceled
  /\ work.dropped => after.dropped
  /\ work.was \subseteq after.was /\ work.wasnt \subseteq after.wasnt

\* What a task has been told stays so when its call learns more.
LEMMA GrownTask ==
  ASSUME NEW store, NEW work, NEW after, NEW t, NEW u, Grown(work, after), TaskOK(store, work, t, u)
  PROVE  TaskOK(store, after, t, u)
<1>1. /\ t.attempt <= CloudRetries + 1
      /\ t.pc = "ready" => t.attempt <= CloudRetries
      /\ t.pc = "ready" /\ store # "s3path" => t.err \notin {"missing", "denied", "items"}
      /\ t.asks = "purge" => t.err # "missing"
  BY DEF TaskOK
<1>2. t.pc = "done" /\ ~after.canceled /\ Passing(store, t.err) => t.attempt = CloudRetries + 1
  BY DEF TaskOK, Grown
<1>3. after.op # "none" /\ t.pc \in {"executed", "done"} => Told(after, t, u)
  BY Zenon DEF TaskOK, Told, Grown
<1> QED
  BY <1>1, <1>2, <1>3 DEF TaskOK

\* And so does what is known of the call.
LEMMA GrownCall ==
  ASSUME NEW store, NEW work, NEW after, NEW tasks, NEW held, NEW now,
         Grown(work, after), CallOK(store, work, tasks, held),
         \A b \in work.undeleted : b \in held => b \in now
  PROVE  CallOK(store, after, tasks, now)
<1>1. TasksOK(store, after, tasks)
  BY GrownTask DEF CallOK, TasksOK
<1>2. SingleOK(after, tasks, now)
  BY DEF CallOK, SingleOK, Grown
<1>3. DeleteOK(after, tasks)
  <2> SUFFICES ASSUME after.op = "delete" PROVE DeleteOK(after, tasks)
    BY DEF DeleteOK
  <2>1. work.op = "delete" /\ Grown(work, after) /\ DeleteOK(work, tasks)
    BY DEF Grown, CallOK
  <2>2. ~after.dropped => /\ after.keys \ (after.todo \cup after.batch) \subseteq after.wasnt
                          /\ after.mode = "between" => after.keys \ after.todo \subseteq after.wasnt
    BY <2>1 DEF DeleteOK, Grown
  <2> QED
    BY <2>1, <2>2 DEF DeleteOK, Grown
<1>4. OverOK(store, after, tasks)
  BY DEF CallOK, OverOK, Grown
<1>5. /\ after.op # "put" => after.undeleted = {}
      /\ after.op # "none" => \A u \in DOMAIN tasks : u \subseteq after.keys
      /\ after.undeleted \subseteq after.keys
  BY DEF CallOK, Grown
<1> QED
  BY <1>1, <1>2, <1>3, <1>4, <1>5 DEF CallOK

\* What a task asks for changes only between the stat and the body of a get.
SameKind(asks, next) == next = asks \/ (asks \in {"open", "get"} /\ next \in {"open", "get"})

\* One task of a call goes on.  The kind of what it asks for stays; success is
\* new only when it has just been carried out.
LEMMA TaskGoesOn ==
  ASSUME NEW store, NEW work, NEW tasks, NEW held, CallOK(store, work, tasks, held),
         work.op \in {"none", "put", "has", "get", "delete"},
         NEW u \in DOMAIN tasks, NEW t \in TaskStates, tasks[u].pc # "done",
         SameKind(tasks[u].asks, t.asks), TaskOK(store, work, t, u),
         work.op = "put" /\ t.pc \in {"executed", "done"} /\ t.err = "none"
           => work.undeleted \subseteq held
  PROVE  CallOK(store, work, [tasks EXCEPT ![u] = t], held)
<1> DEFINE after == [tasks EXCEPT ![u] = t]
<1>1. /\ DOMAIN after = DOMAIN tasks /\ after[u] = t
      /\ \A v \in DOMAIN tasks : v # u => after[v] = tasks[v]
  OBVIOUS
<1> HIDE DEF after
<1>2. t.asks \in Removals <=> tasks[u].asks \in Removals
  BY DEF SameKind, Removals
<1>3. \A x \in {"purge", "put", "delete"} : t.asks = x <=> tasks[u].asks = x
  BY DEF SameKind
<1>4. TasksOK(store, work, after)
  BY <1>1, <1>3 DEF CallOK, TasksOK
<1>5. SingleOK(work, after, held)
  <2> SUFFICES ASSUME work.op \in {"put", "has", "get"} PROVE SingleOK(work, after, held)
    BY DEF SingleOK
  <2>1. u = work.keys /\ SingleOK(work, tasks, held)
    BY DEF CallOK, SingleOK
  <2> QED
    BY <1>1, <1>2, <1>3, <2>1 DEF SingleOK
<1>6. DeleteOK(work, after)
  <2>1. \A v \in DOMAIN after : /\ after[v].asks \in Removals <=> tasks[v].asks \in Removals
                                /\ after[v].asks = "delete" <=> tasks[v].asks = "delete"
    BY <1>1, <1>2, <1>3
  <2> QED
    BY <1>1, <2>1 DEF CallOK, DeleteOK
<1>7. OverOK(store, work, after)
  BY <1>1, <1>3 DEF CallOK, OverOK
<1> QED
  BY <1>1, <1>4, <1>5, <1>6, <1>7 DEF CallOK, after

-----------------------------------------------------------------------------
\* What a step has to show: what holds of each call, and that no block leaves
\* the service, or comes into danger, that was acknowledged.
LEMMA StepKeeps ==
  ASSUME CloudInv, provider' = provider, remote' \in SUBSET CloudBlocks,
         calls' \in [CloudCallers -> CallStates], DOMAIN task' = CloudCallers,
         \A r \in late' : r \in late \/ KnownRequest(r), NEW keys,
         \A c \in CloudCallers : CallOK(provider, calls'[c], task'[c], remote'),
         \A b \in remote \ remote' : MayStillRemove(b),
         \A b : MayStillRemove(b)' => MayStillRemove(b) \/ b \in keys,
         \A b \in acked' : b \notin keys /\ (b \in acked \/ (b \in remote' /\ ~MayStillRemove(b))),
         \A c \in CloudCallers : \A b \in calls'[c].undeleted :
           b \notin keys /\ (b \in calls[c].undeleted \/ ~MayStillRemove(b))
  PROVE  CloudInv'
<1>1. CloudTypeOK'
  BY DEF CloudInv, CloudTypeOK, KnownRequest
<1>2. \A b \in acked' : b \in remote' /\ ~MayStillRemove(b)'
  BY DEF CloudInv
<1>3. \A c \in CloudCallers : \A b \in calls'[c].undeleted : ~MayStillRemove(b)'
  BY DEF CloudInv
<1> QED
  BY <1>1, <1>2, <1>3 DEF CloudInv

\* A call learns more, step by step.
LEMMA GrownSelf == ASSUME NEW work PROVE Grown(work, work)
BY DEF Grown

\* Growing twice is growing.
LEMMA GrownTwice ==
  ASSUME NEW work, NEW mid, NEW after, Grown(work, mid), Grown(mid, after)
  PROVE  Grown(work, after)
BY DEF Grown

\* A step of the task u of c, or of the service on it.
LEMMA TaskStep ==
  ASSUME CloudInv, NEW c \in CloudCallers, NEW u \in DOMAIN task[c], NEW t \in TaskStates,
         task[c][u].pc # "done", SameKind(task[c][u].asks, t.asks), Update(c, u, t),
         provider' = provider, acked' = acked, remote' \in SUBSET CloudBlocks,
         calls' \in [CloudCallers -> CallStates], \A d \in CloudCallers : Grown(calls[d], calls'[d]),
         TaskOK(provider, calls'[c], t, u),
         \A b \in remote \ remote' : MayStillRemove(b),
         \A r \in late' : r \in late \/ KnownRequest(r),
         calls[c].op = "put" /\ t.pc \in {"executed", "done"} /\ t.err = "none"
           => calls[c].undeleted \subseteq remote'
  PROVE  CloudInv'
<1>1. /\ CloudTypeOK
      /\ \A d \in CloudCallers : CallOK(provider, calls[d], task[d], remote)
      /\ \A d \in CloudCallers : \A b \in calls[d].undeleted : ~MayStillRemove(b)
  BY DEF CloudInv
<1>2. /\ DOMAIN task' = CloudCallers /\ task'[c] = [task[c] EXCEPT ![u] = t]
      /\ \A d \in CloudCallers : d # c => task'[d] = task[d]
  BY <1>1 DEF Update, CloudTypeOK
<1>3. ASSUME NEW d \in CloudCallers
      PROVE  CallOK(provider, calls'[d], task[d], remote')
  <2>1. \A b \in calls[d].undeleted : b \in remote => b \in remote'
    BY <1>1
  <2>2. CallOK(provider, calls[d], task[d], remote) /\ Grown(calls[d], calls'[d])
    BY <1>1
  <2> QED
    BY <2>1, <2>2, GrownCall
<1>4. CallOK(provider, calls'[c], task'[c], remote')
  <2>1. calls'[c].op = calls[c].op /\ calls'[c].undeleted = calls[c].undeleted
    BY DEF Grown
  <2>2. calls'[c].op \in {"none", "put", "has", "get", "delete"}
    BY DEF CallStates
  <2>3. CallOK(provider, calls'[c], task[c], remote')
    BY <1>3
  <2>4. calls'[c].op = "put" /\ t.pc \in {"executed", "done"} /\ t.err = "none"
           => calls'[c].undeleted \subseteq remote'
    BY <2>1
  <2>5. CallOK(provider, calls'[c], [task[c] EXCEPT ![u] = t], remote')
    BY <2>2, <2>3, <2>4, TaskGoesOn
  <2> QED
    BY <1>2, <2>5
<1>5. \A d \in CloudCallers : CallOK(provider, calls'[d], task'[d], remote')
  BY <1>2, <1>3, <1>4
<1>6. ASSUME NEW d \in CloudCallers, NEW v \in DOMAIN task'[d], task'[d][v].pc # "done",
             task'[d][v].asks = "delete"
      PROVE  v \in DOMAIN task[d] /\ task[d][v].pc # "done" /\ task[d][v].asks = "delete"
  <2>1. CASE d = c /\ v = u
    BY <1>2, <1>6, <2>1 DEF SameKind
  <2>2. CASE ~(d = c /\ v = u)
    <3>1. v \in DOMAIN task[d] /\ task'[d][v] = task[d][v]
      BY <1>2, <1>6, <2>2
    <3> QED
      BY <1>6, <3>1
  <2> QED
    BY <2>1, <2>2
<1>7. \A b : MayStillRemove(b)' => MayStillRemove(b)
  <2>1. \A d \in CloudCallers : calls'[d].op = "delete" =>
           calls[d].op = "delete" /\ calls'[d].keys \subseteq calls[d].keys
    BY DEF Grown
  <2> QED
    BY <1>6, <2>1, NothingNewRemoves
<1>8. \A d \in CloudCallers : calls'[d].undeleted \subseteq calls[d].undeleted
  BY DEF Grown
<1>9. \A b \in acked' : b \in acked
  OBVIOUS
<1> DEFINE keys == {}
<1>10. \A b : b \notin keys
  OBVIOUS
<1> HIDE DEF keys
<1> QED
  BY <1>2, <1>5, <1>7, <1>8, <1>9, <1>10, StepKeeps

\* What is known of a task that a step takes.
LEMMA TaskFacts ==
  ASSUME CloudInv, NEW c \in CloudCallers, NEW u \in DOMAIN task[c]
  PROVE  /\ task[c][u] \in TaskStates /\ TaskOK(provider, calls[c], task[c][u], u)
         /\ task[c][u].asks # "purge" => \E b \in CloudBlocks : u = {b}
         /\ calls[c] \in CallStates /\ u \subseteq CloudBlocks
         /\ calls[c].op # "none" => u \subseteq calls[c].keys
         /\ calls[c].op = "put" =>
              /\ calls[c].undeleted \subseteq u /\ task[c][u].asks = "put"
              /\ task[c][u].pc \in {"executed", "done"} /\ task[c][u].err = "none"
                   => calls[c].undeleted \subseteq remote
<1>1. CallOK(provider, calls[c], task[c], remote) /\ calls[c] \in CallStates
  BY DEF CloudInv, CloudTypeOK
<1>2. TasksOK(provider, calls[c], task[c])
  BY <1>1 DEF CallOK
<1>3. calls[c].op = "put" =>
        /\ u = calls[c].keys /\ calls[c].undeleted \subseteq calls[c].keys /\ task[c][u].asks = "put"
        /\ task[c][u].pc \in {"executed", "done"} /\ task[c][u].err = "none"
             => calls[c].undeleted \subseteq remote
  BY <1>1 DEF CallOK, SingleOK
<1>4. calls[c].op # "none" => u \subseteq calls[c].keys
  BY <1>1 DEF CallOK
<1> QED
  BY <1>1, <1>2, <1>3, <1>4 DEF TasksOK

\* A step of a task that changes nothing but the task and, perhaps, leaves a
\* request behind.
LEMMA QuietTaskStep ==
  ASSUME CloudInv, NEW c \in CloudCallers, NEW u \in DOMAIN task[c], NEW t \in TaskStates,
         task[c][u].pc # "done", SameKind(task[c][u].asks, t.asks), Update(c, u, t),
         UNCHANGED <<provider, remote, calls, acked>>, TaskOK(provider, calls[c], t, u),
         \A r \in late' : r \in late \/ KnownRequest(r),
         t.pc \in {"executed", "done"} /\ t.err = "none" =>
           task[c][u].pc = "executed" /\ task[c][u].err = "none"
  PROVE  CloudInv'
<1>1. \A d \in CloudCallers : Grown(calls[d], calls'[d])
  BY GrownSelf
<1>2. remote' \in SUBSET CloudBlocks /\ calls' \in [CloudCallers -> CallStates]
  BY DEF CloudInv, CloudTypeOK
<1>3. calls[c].op = "put" /\ t.pc \in {"executed", "done"} /\ t.err = "none"
        => calls[c].undeleted \subseteq remote'
  BY TaskFacts
<1>4. TaskOK(provider, calls'[c], t, u)
  OBVIOUS
<1>5. \A b \in remote \ remote' : MayStillRemove(b)
  OBVIOUS
<1> QED
  BY <1>1, <1>2, <1>3, <1>4, <1>5, TaskStep

\* The number of retries is a number.
LEMMA CloudRetriesIsNat == CloudRetries \in Nat
BY CloudAssumption

\* The end of an attempt: another one follows only an error that may pass, and
\* the last error that may have passed is that of the last attempt.
LEMMA AttemptEnds ==
  ASSUME NEW c \in CloudCallers, NEW t \in TaskStates, NEW u, t.attempt <= CloudRetries + 1,
         t.asks = "purge" => t.err # "missing",
         calls[c].op # "none" => Told(calls[c], t, u), NEW over, over = AttemptOver(c, t)
  PROVE  /\ over \in TaskStates /\ SameKind(t.asks, over.asks)
         /\ over.err = t.err /\ over.pc \in {"ready", "done"}
         /\ TaskOK(provider, calls[c], over, u)
<1> DEFINE last == t.err = "none" \/ ~Retryable(c, t.err) \/ t.attempt = CloudRetries + 1
           asks == IF t.asks = "get" /\ provider \in S3Stores THEN "open" ELSE t.asks
<1>1. over = [t EXCEPT !.pc = IF last THEN "done" ELSE "ready", !.asks = asks]
  BY DEF AttemptOver
<1>2. asks \in {"none", "put", "stat", "open", "get"} \cup Removals
  BY DEF TaskStates
<1>3. SameKind(t.asks, asks)
  BY DEF SameKind
<1> HIDE DEF asks, last
<1>4. /\ over \in TaskStates /\ over.asks = asks /\ over.err = t.err /\ over.attempt = t.attempt
      /\ over.pc = IF last THEN "done" ELSE "ready"
  BY <1>1, <1>2 DEF TaskStates
<1>5. t.attempt \in Nat
  BY DEF TaskStates
<1>6. ~last => /\ t.attempt <= CloudRetries
               /\ provider # "s3path" => t.err \notin {"missing", "denied", "items"}
  <2> SUFFICES ASSUME ~last
               PROVE  /\ t.attempt <= CloudRetries
                      /\ provider # "s3path" => t.err \notin {"missing", "denied", "items"}
    OBVIOUS
  <2>1. t.attempt # CloudRetries + 1 /\ Retryable(c, t.err)
    BY DEF last
  <2>2. t.attempt <= CloudRetries
    BY <1>5, <2>1, CloudRetriesIsNat
  <2>3. provider # "s3path" => t.err \notin {"missing", "denied", "items"}
    BY <2>1 DEF Retryable, RetryableS3, RetryableByStatus, Unavailable, NotFound
  <2> QED
    BY <2>2, <2>3
<1>7. last /\ ~calls[c].canceled /\ Passing(provider, t.err) => t.attempt = CloudRetries + 1
  BY DEF last, Retryable, RetryableS3, RetryableByStatus, Unavailable, NotFound, Passing
<1>8. asks \in Removals <=> t.asks \in Removals
  BY <1>3 DEF SameKind, Removals
<1>9. asks = "purge" => t.asks = "purge"
  BY <1>3 DEF SameKind
<1>10. TaskOK(provider, calls[c], over, u)
  <2>1. calls[c].op # "none" => Told(calls[c], over, u)
    BY <1>4, <1>8 DEF Told
  <2>2. over.pc = "ready" => ~last
    BY <1>4
  <2>3. over.pc = "done" => last
    BY <1>4
  <2> QED
    BY <1>4, <1>6, <1>7, <1>9, <2>1, <2>2, <2>3 DEF TaskOK
<1> QED
  BY <1>3, <1>4, <1>10

\* DoWithRetry makes an attempt, or finds its context cancelled.
LEMMA AttemptKeeps ==
  ASSUME CloudInv, NEW c \in CloudCallers, NEW u \in DOMAIN task[c], Attempt(c, u) PROVE CloudInv'
<1> DEFINE t == task[c][u]
<1>1. /\ t \in TaskStates /\ TaskOK(provider, calls[c], t, u) /\ t.pc = "ready"
      /\ UNCHANGED <<provider, remote, calls, late, acked>>
  BY TaskFacts DEF Attempt
<1>2. CASE calls[c].canceled
  <2> DEFINE after == [t EXCEPT !.pc = "done", !.err = "canceled"]
  <2>1. /\ after \in TaskStates /\ after.pc = "done" /\ after.err = "canceled" /\ after.asks = t.asks
        /\ after.attempt = t.attempt
    BY <1>1 DEF TaskStates
  <2>2. Update(c, u, after)
    BY <1>2 DEF Attempt
  <2> HIDE DEF after
  <2>3. TaskOK(provider, calls[c], after, u)
    BY <1>1, <1>2, <2>1 DEF TaskOK, Told
  <2> QED
    BY <1>1, <2>1, <2>2, <2>3, QuietTaskStep DEF SameKind
<1>3. CASE ~calls[c].canceled
  <2> DEFINE after == [t EXCEPT !.pc = "sent", !.attempt = @ + 1, !.err = "none"]
  <2>1. t.attempt \in Nat /\ t.attempt <= CloudRetries
    BY <1>1 DEF TaskStates, TaskOK
  <2>2. t.attempt + 1 \in Nat /\ t.attempt + 1 <= CloudRetries + 1
    BY <2>1, CloudRetriesIsNat
  <2>3. /\ after \in TaskStates /\ after.pc = "sent" /\ after.err = "none" /\ after.asks = t.asks
        /\ after.attempt = t.attempt + 1
    BY <1>1, <2>2 DEF TaskStates
  <2>4. Update(c, u, after)
    BY <1>3 DEF Attempt
  <2> HIDE DEF after
  <2>5. TaskOK(provider, calls[c], after, u)
    BY <2>2, <2>3 DEF TaskOK
  <2> QED
    BY <1>1, <2>3, <2>4, <2>5, QuietTaskStep DEF SameKind
<1> QED
  BY <1>2, <1>3

\* An answer arrives: the end of the attempt, or the body after the stat.
LEMMA ReceiveKeeps ==
  ASSUME CloudInv, NEW c \in CloudCallers, NEW u \in DOMAIN task[c], Receive(c, u) PROVE CloudInv'
<1> DEFINE t == task[c][u]
<1>1. /\ t \in TaskStates /\ TaskOK(provider, calls[c], t, u) /\ t.pc = "executed"
      /\ UNCHANGED <<provider, remote, calls, late, acked>>
  BY TaskFacts DEF Receive
<1>2. CASE t.err = "none" /\ t.asks = "open" /\ provider = "s3path"
  <2> DEFINE after == [t EXCEPT !.pc = "sent", !.asks = "get"]
  <2>1. /\ after \in TaskStates /\ after.pc = "sent" /\ after.err = t.err /\ after.asks = "get"
        /\ after.attempt = t.attempt
    BY <1>1 DEF TaskStates
  <2>2. Update(c, u, after)
    BY <1>2 DEF Receive
  <2> HIDE DEF after
  <2>3. TaskOK(provider, calls[c], after, u)
    BY <1>1, <2>1 DEF TaskOK
  <2> QED
    BY <1>1, <1>2, <2>1, <2>2, <2>3, QuietTaskStep DEF SameKind
<1>3. CASE ~(t.err = "none" /\ t.asks = "open" /\ provider = "s3path")
  <2> DEFINE after == AttemptOver(c, t)
  <2>1. Update(c, u, after)
    BY <1>3 DEF Receive
  <2>2. /\ t.attempt <= CloudRetries + 1 /\ (t.asks = "purge" => t.err # "missing")
        /\ calls[c].op # "none" => Told(calls[c], t, u)
    BY <1>1 DEF TaskOK
  <2>3. after = AttemptOver(c, t)
    OBVIOUS
  <2> HIDE DEF after
  <2>4. /\ after \in TaskStates /\ SameKind(t.asks, after.asks)
        /\ after.err = t.err /\ TaskOK(provider, calls[c], after, u)
    BY <1>1, <2>2, <2>3, AttemptEnds
  <2> QED
    BY <1>1, <2>1, <2>4, QuietTaskStep
<1> QED
  BY <1>2, <1>3

\* An attempt is given up, for whatever reason.
LEMMA AbandonKeeps ==
  ASSUME CloudInv, NEW c \in CloudCallers, NEW u \in DOMAIN task[c],
         NEW why \in {"deadline", "reset", "canceled"}, AbandonAttempt(c, u, why)
  PROVE  CloudInv'
<1> DEFINE t == task[c][u]
           mid == [t EXCEPT !.err = why]
           after == AttemptOver(c, mid)
<1>1. /\ t \in TaskStates /\ TaskOK(provider, calls[c], t, u) /\ t.pc \in {"sent", "executed"}
      /\ UNCHANGED <<provider, remote, calls, acked>> /\ Update(c, u, after)
  BY TaskFacts DEF AbandonAttempt
<1>2. /\ mid \in TaskStates /\ mid.err = why /\ mid.asks = t.asks /\ mid.attempt = t.attempt
  BY <1>1 DEF TaskStates
<1>3. after = AttemptOver(c, mid)
  OBVIOUS
<1>4. \A r \in late' : r \in late \/ KnownRequest(r)
  <2> SUFFICES ASSUME NEW r \in late', r \notin late PROVE KnownRequest(r)
    OBVIOUS
  <2>1. PICK part \in Rest(t, u) :
          late' = late \cup {[caller |-> c, asks |-> t.asks, blocks |-> part, attempt |-> t.attempt]}
    BY DEF AbandonAttempt
  <2>2. r.asks = t.asks /\ r.blocks = part
    BY <2>1
  <2>3. part \subseteq u /\ t.asks \in {"put", "delete", "purge"}
    BY <2>1 DEF Rest
  <2>4. t.asks = "put" \/ \A b \in u : MayStillRemove(b)
    BY <1>1, <2>3, RunningRemovals DEF Removals
  <2>5. u \subseteq CloudBlocks
    BY TaskFacts
  <2> QED
    BY <2>2, <2>3, <2>4, <2>5 DEF KnownRequest
<1> HIDE DEF after, mid
<1>5. /\ mid.attempt <= CloudRetries + 1 /\ (mid.asks = "purge" => mid.err # "missing")
      /\ calls[c].op # "none" => Told(calls[c], mid, u)
  BY <1>1, <1>2 DEF TaskOK, Told
<1>6. /\ after \in TaskStates /\ SameKind(t.asks, after.asks) /\ after.err # "none"
      /\ TaskOK(provider, calls[c], after, u)
  BY <1>2, <1>3, <1>5, AttemptEnds
<1> QED
  BY <1>1, <1>4, <1>6, QuietTaskStep

\* The service refuses a request and changes nothing.
LEMMA RefuseKeeps ==
  ASSUME CloudInv, NEW c \in CloudCallers, NEW u \in DOMAIN task[c],
         NEW why \in {"busy", "denied", "unauth"}, Refuse(c, u, why)
  PROVE  CloudInv'
<1> DEFINE t == task[c][u]
           after == [t EXCEPT !.pc = "executed", !.err = why]
<1>1. /\ t \in TaskStates /\ TaskOK(provider, calls[c], t, u) /\ t.pc = "sent"
      /\ UNCHANGED <<provider, remote, calls, late, acked>> /\ Update(c, u, after)
  BY TaskFacts DEF Refuse
<1>2. /\ after \in TaskStates /\ after.pc = "executed" /\ after.err = why /\ after.asks = t.asks
      /\ after.attempt = t.attempt
  BY <1>1 DEF TaskStates
<1> HIDE DEF after
<1>3. TaskOK(provider, calls[c], after, u)
  BY <1>1, <1>2 DEF TaskOK, Told
<1> QED
  BY <1>1, <1>2, <1>3, QuietTaskStep DEF SameKind

-----------------------------------------------------------------------------
\* What the service does is seen by the calls in progress.
LEMMA SeenGrows ==
  ASSUME CloudTypeOK, NEW stored \in SUBSET CloudBlocks, NEW after, after = Seen(stored)
  PROVE  /\ after \in [CloudCallers -> CallStates]
         /\ \A d \in CloudCallers :
              /\ Grown(calls[d], after[d]) /\ after[d].op = calls[d].op
              /\ calls[d].op # "none" => /\ calls[d].keys \cap stored \subseteq after[d].was
                                         /\ calls[d].keys \ stored \subseteq after[d].wasnt
<1>1. ASSUME NEW d \in CloudCallers
      PROVE  /\ after[d] \in CallStates /\ Grown(calls[d], after[d]) /\ after[d].op = calls[d].op
             /\ calls[d].op # "none" => /\ calls[d].keys \cap stored \subseteq after[d].was
                                        /\ calls[d].keys \ stored \subseteq after[d].wasnt
  <2> DEFINE work == calls[d]
             was == work.was \cup (work.keys \cap stored)
             wasnt == work.wasnt \cup (work.keys \ stored)
  <2>1. work \in CallStates
    BY DEF CloudTypeOK
  <2>2. CASE work.op # "none"
    <3>1. after[d] = [work EXCEPT !.was = was, !.wasnt = wasnt]
      BY <2>2 DEF Seen, InProgress
    <3>2. was \in SUBSET CloudBlocks /\ wasnt \in SUBSET CloudBlocks
      BY <2>1 DEF CallStates
    <3>3. work.was \subseteq was /\ work.wasnt \subseteq wasnt
      OBVIOUS
    <3>4. work.keys \cap stored \subseteq was /\ work.keys \ stored \subseteq wasnt
      OBVIOUS
    <3> HIDE DEF was, wasnt, work
    <3>5. after[d] \in CallStates
      BY <2>1, <3>1, <3>2 DEF CallStates
    <3>6. /\ after[d].was = was /\ after[d].wasnt = wasnt
          /\ after[d].op = work.op /\ after[d].keys = work.keys /\ after[d].mode = work.mode
          /\ after[d].todo = work.todo /\ after[d].batch = work.batch /\ after[d].jobs = work.jobs
          /\ after[d].stopped = work.stopped /\ after[d].undeleted = work.undeleted
          /\ after[d].canceled = work.canceled /\ after[d].dropped = work.dropped
      BY <2>1, <3>1 DEF CallStates
    <3>7. Grown(work, after[d])
      BY <3>3, <3>6 DEF Grown
    <3> QED
      BY <3>4, <3>5, <3>6, <3>7 DEF work
  <2>3. CASE work.op = "none"
    <3>1. after[d] = work
      BY <2>3 DEF Seen, InProgress
    <3> QED
      BY <2>1, <2>3, <3>1, GrownSelf
  <2> QED
    BY <2>2, <2>3
<1>2. after = [d \in CloudCallers |-> after[d]]
  BY DEF Seen
<1> QED
  BY <1>1, <1>2

\* The service carries out a request: what it answers is so now, and a block
\* it removes was in danger.
LEMMA ExecuteKeeps ==
  ASSUME CloudInv, NEW c \in CloudCallers, NEW u \in DOMAIN task[c], Execute(c, u) PROVE CloudInv'
<1> DEFINE t == task[c][u]
           work == calls[c]
           done == t.asks \in {"put", "purge"} \/ u \subseteq remote
           after == [t EXCEPT !.pc = "executed", !.err = IF done THEN "none" ELSE "missing"]
<1>1. /\ t \in TaskStates /\ TaskOK(provider, work, t, u) /\ t.pc = "sent" /\ u \subseteq CloudBlocks
      /\ t.asks # "purge" => \E b \in CloudBlocks : u = {b}
      /\ work.op # "none" => u \subseteq work.keys
      /\ work.op = "put" => work.undeleted \subseteq u /\ t.asks = "put"
      /\ UNCHANGED <<provider, late, acked>> /\ Update(c, u, after) /\ calls' = Seen(remote')
      /\ CloudTypeOK
  BY TaskFacts DEF Execute, CloudInv
<1>2. remote' = IF t.asks = "put" THEN remote \cup u
                ELSE IF t.asks \in Removals THEN remote \ u ELSE remote
  BY DEF Execute, Effect, Removals
<1>3. remote' \in SUBSET CloudBlocks
  BY <1>1, <1>2 DEF CloudTypeOK
<1>4. /\ calls' \in [CloudCallers -> CallStates] /\ \A d \in CloudCallers : Grown(calls[d], calls'[d])
      /\ calls'[c].op = work.op
      /\ work.op # "none" => /\ work.keys \cap remote' \subseteq calls'[c].was
                             /\ work.keys \ remote' \subseteq calls'[c].wasnt
  BY <1>1, <1>3, SeenGrows
<1>5. /\ after \in TaskStates /\ after.pc = "executed" /\ after.asks = t.asks
      /\ after.err = (IF done THEN "none" ELSE "missing") /\ after.attempt = t.attempt
  <2> HIDE DEF done
  <2> QED
    BY <1>1 DEF TaskStates
<1> HIDE DEF after
<1>6. work.op # "none" => Told(calls'[c], after, u)
  <2> SUFFICES ASSUME work.op # "none" PROVE Told(calls'[c], after, u)
    OBVIOUS
  <2>1. /\ u \subseteq work.keys /\ work.keys \cap remote' \subseteq calls'[c].was
        /\ work.keys \ remote' \subseteq calls'[c].wasnt
    BY <1>1, <1>4
  <2>2. after.err = "none" /\ after.asks \notin Removals => u \subseteq remote'
    BY <1>2, <1>5 DEF Removals
  <2>3. after.err = "none" /\ after.asks \in Removals => u \cap remote' = {}
    BY <1>2, <1>5 DEF Removals
  <2>4. after.err = "missing" => u \cap remote' = {}
    <3> SUFFICES ASSUME ~done PROVE u \cap remote' = {}
      BY <1>5
    <3>1. PICK b \in CloudBlocks : u = {b}
      BY <1>1
    <3>2. b \notin remote
      BY <3>1
    <3> QED
      BY <1>2, <3>1, <3>2
  <2> QED
    BY <2>1, <2>2, <2>3, <2>4 DEF Told
<1>7. TaskOK(provider, calls'[c], after, u)
  BY <1>1, <1>4, <1>5, <1>6 DEF TaskOK
<1>8. \A b \in remote \ remote' : MayStillRemove(b)
  <2>1. t.asks \in Removals => \A b \in u : MayStillRemove(b)
    BY <1>1, RunningRemovals
  <2> QED
    BY <1>2, <2>1
<1>9. work.op = "put" => work.undeleted \subseteq remote'
  BY <1>1, <1>2
<1> QED
  BY <1>1, <1>3, <1>4, <1>5, <1>7, <1>8, <1>9, TaskStep DEF SameKind

\* The service carries out a part of a batch; Azure does not look.
LEMMA ItemsFailKeeps ==
  ASSUME CloudInv, NEW c \in CloudCallers, NEW u \in DOMAIN task[c], NEW why \in {"busy", "denied"},
         ItemsFail(c, u, why)
  PROVE  CloudInv'
<1> PICK err \in BatchErrors(why) :
       /\ calls' = [Seen(remote') EXCEPT ![c].dropped = @ \/ err = "none"]
       /\ Update(c, u, [task[c][u] EXCEPT !.pc = "executed", !.err = err])
  BY DEF ItemsFail
<1> DEFINE t == task[c][u]
           work == calls[c]
           after == [t EXCEPT !.pc = "executed", !.err = err]
           seen == Seen(remote')
<1>1. /\ t \in TaskStates /\ TaskOK(provider, work, t, u) /\ t.pc = "sent" /\ t.asks = "purge"
      /\ u \subseteq CloudBlocks /\ work.op # "put"
      /\ UNCHANGED <<provider, late, acked>> /\ Update(c, u, after)
      /\ calls' = [seen EXCEPT ![c].dropped = @ \/ err = "none"]
      /\ CloudTypeOK
  BY TaskFacts DEF ItemsFail, CloudInv
<1>2. remote' \subseteq remote /\ remote \ remote' \subseteq u
  BY DEF ItemsFail, Effect
<1>3. remote' \in SUBSET CloudBlocks
  BY <1>1, <1>2 DEF CloudTypeOK
<1>4. seen \in [CloudCallers -> CallStates] /\ \A d \in CloudCallers : Grown(calls[d], seen[d])
  BY <1>1, <1>3, SeenGrows
<1> HIDE DEF seen
<1>5. /\ calls' \in [CloudCallers -> CallStates] /\ Grown(seen[c], calls'[c])
      /\ \A d \in CloudCallers \ {c} : calls'[d] = seen[d]
      /\ err = "none" => calls'[c].dropped
  <2> DEFINE dropped == seen[c].dropped \/ err = "none"
             now == [seen[c] EXCEPT !.dropped = dropped]
  <2>1. dropped \in BOOLEAN /\ (seen[c].dropped => dropped) /\ (err = "none" => dropped)
    BY <1>4 DEF CallStates
  <2>2. calls' = [seen EXCEPT ![c] = now]
    BY <1>1
  <2> HIDE DEF dropped
  <2>3. /\ now \in CallStates /\ now.dropped = dropped
        /\ now.op = seen[c].op /\ now.keys = seen[c].keys /\ now.mode = seen[c].mode
        /\ now.todo = seen[c].todo /\ now.batch = seen[c].batch /\ now.jobs = seen[c].jobs
        /\ now.stopped = seen[c].stopped /\ now.undeleted = seen[c].undeleted
        /\ now.canceled = seen[c].canceled /\ now.was = seen[c].was /\ now.wasnt = seen[c].wasnt
    BY <1>4, <2>1 DEF CallStates
  <2> HIDE DEF now
  <2>4. Grown(seen[c], now)
    BY <2>1, <2>3 DEF Grown
  <2> QED
    BY <1>4, <2>1, <2>2, <2>3, <2>4
<1>6. \A d \in CloudCallers : Grown(calls[d], calls'[d])
  <2>1. Grown(calls[c], calls'[c])
    BY <1>4, <1>5, GrownTwice
  <2> QED
    BY <1>4, <1>5, <2>1
<1>7. /\ after \in TaskStates /\ after.pc = "executed" /\ after.asks = t.asks
      /\ after.err = err /\ after.attempt = t.attempt
  <2>1. err \in {"none", "items", "busy", "denied"}
    BY DEF BatchErrors
  <2> QED
    BY <1>1, <2>1 DEF TaskStates
<1>8. after.err # "missing" /\ (after.err = "none" => calls'[c].dropped)
  <2>1. err # "missing"
    BY DEF BatchErrors
  <2> QED
    BY <1>5, <1>7, <2>1
<1> HIDE DEF after
<1>9. TaskOK(provider, calls'[c], after, u)
  BY <1>1, <1>5, <1>7, <1>8 DEF TaskOK, Told, Removals
<1>10. \A b \in remote \ remote' : MayStillRemove(b)
  <2>1. \A b \in u : MayStillRemove(b)
    BY <1>1, RunningRemovals DEF Removals
  <2> QED
    BY <1>2, <2>1
<1> QED
  BY <1>1, <1>3, <1>5, <1>6, <1>7, <1>9, <1>10, TaskStep DEF SameKind

\* A step that no task takes: the service catches up, or a context ends.
LEMMA GrownStep ==
  ASSUME CloudInv, UNCHANGED <<provider, task, acked>>, remote' \in SUBSET CloudBlocks,
         calls' \in [CloudCallers -> CallStates], \A d \in CloudCallers : Grown(calls[d], calls'[d]),
         \A b \in remote \ remote' : MayStillRemove(b), late' \subseteq late
  PROVE  CloudInv'
<1>1. /\ CloudTypeOK
      /\ \A d \in CloudCallers : CallOK(provider, calls[d], task[d], remote)
      /\ \A d \in CloudCallers : \A b \in calls[d].undeleted : ~MayStillRemove(b)
  BY DEF CloudInv
<1>2. ASSUME NEW d \in CloudCallers
      PROVE  CallOK(provider, calls'[d], task'[d], remote')
  <2>1. \A b \in calls[d].undeleted : b \in remote => b \in remote'
    BY <1>1
  <2>2. CallOK(provider, calls[d], task[d], remote) /\ Grown(calls[d], calls'[d])
    BY <1>1
  <2>3. CallOK(provider, calls'[d], task[d], remote')
    BY <2>1, <2>2, GrownCall
  <2> QED
    BY <2>3
<1>3. \A b : MayStillRemove(b)' => MayStillRemove(b)
  <2>1. \A d \in CloudCallers : calls'[d].op = "delete" =>
           calls[d].op = "delete" /\ calls'[d].keys \subseteq calls[d].keys
    BY DEF Grown
  <2> QED
    BY <2>1, NothingNewRemoves
<1>4. \A d \in CloudCallers : calls'[d].undeleted \subseteq calls[d].undeleted
  BY DEF Grown
<1>5. DOMAIN task' = CloudCallers /\ \A b \in acked' : b \in acked
  BY <1>1 DEF CloudTypeOK
<1> DEFINE keys == {}
<1>6. \A b : b \notin keys
  OBVIOUS
<1> HIDE DEF keys
<1> QED
  BY <1>2, <1>3, <1>4, <1>5, <1>6, StepKeeps

\* A request that had been given up is carried out: only a removal can hurt,
\* and its blocks have been in danger since.
LEMMA ArrivesLateKeeps == ASSUME CloudInv, NEW r \in late, ArrivesLate(r) PROVE CloudInv'
<1>1. CloudTypeOK /\ UNCHANGED <<provider, task, acked>> /\ late' \subseteq late /\ calls' = Seen(remote')
  BY DEF CloudInv, ArrivesLate
<1>2. /\ r.asks = "put" => remote \subseteq remote'
      /\ remote \ remote' \subseteq r.blocks
  BY DEF ArrivesLate, Effect
<1>3. \A b \in remote \ remote' : MayStillRemove(b)
  BY <1>2 DEF MayStillRemove, BeingDeleted
<1>4. remote' \in SUBSET CloudBlocks
  BY <1>1 DEF ArrivesLate, Effect, CloudTypeOK
<1>5. calls' \in [CloudCallers -> CallStates] /\ \A d \in CloudCallers : Grown(calls[d], calls'[d])
  BY <1>1, <1>4, SeenGrows
<1> QED
  BY <1>1, <1>3, <1>4, <1>5, GrownStep

\* The context of a call ends.
LEMMA CancelCallKeeps == ASSUME CloudInv, NEW c \in CloudCallers, CancelCall(c) PROVE CloudInv'
<1> DEFINE after == [calls[c] EXCEPT !.canceled = TRUE]
<1>1. /\ UNCHANGED <<provider, remote, task, late, acked>> /\ calls' = [calls EXCEPT ![c] = after]
      /\ calls \in [CloudCallers -> CallStates] /\ remote \in SUBSET CloudBlocks
  <2>1. calls \in [CloudCallers -> CallStates] /\ remote \in SUBSET CloudBlocks
    BY DEF CloudInv, CloudTypeOK
  <2> QED
    BY <2>1 DEF CancelCall
<1>2. after \in CallStates
  <2>1. calls[c] \in CallStates
    BY <1>1
  <2> QED
    BY <2>1 DEF CallStates
<1>3. Grown(calls[c], after)
  <2>1. /\ after.op = calls[c].op /\ after.keys = calls[c].keys /\ after.mode = calls[c].mode
        /\ after.todo = calls[c].todo /\ after.batch = calls[c].batch /\ after.jobs = calls[c].jobs
        /\ after.stopped = calls[c].stopped /\ after.undeleted = calls[c].undeleted
        /\ after.canceled /\ after.dropped = calls[c].dropped
        /\ after.was = calls[c].was /\ after.wasnt = calls[c].wasnt
    BY <1>1 DEF CallStates
  <2> HIDE DEF after
  <2> QED
    BY <2>1 DEF Grown
<1> HIDE DEF after
<1>4. calls' \in [CloudCallers -> CallStates]
  BY <1>1, <1>2
<1>5. \A d \in CloudCallers : Grown(calls[d], calls'[d])
  BY <1>1, <1>3, GrownSelf
<1> QED
  BY <1>1, <1>4, <1>5, GrownStep

-----------------------------------------------------------------------------
\* Tasks that have not been tried yet.
LEMMA FreshTasks ==
  ASSUME NEW store, NEW work, NEW units \in SUBSET (SUBSET CloudBlocks),
         NEW asks \in {"none", "put", "stat", "open", "get", "delete", "purge"},
         asks # "purge" => \A u \in units : \E b \in CloudBlocks : u = {b}
  PROVE  /\ TasksOK(store, work, Tasks(units, asks)) /\ DOMAIN Tasks(units, asks) = units
         /\ \A u \in units : /\ Tasks(units, asks)[u].asks = asks /\ Tasks(units, asks)[u].pc = "ready"
                             /\ Tasks(units, asks)[u].err = "none"
<1> DEFINE fresh == Fresh(asks)
<1>1. /\ fresh \in TaskStates /\ fresh.asks = asks /\ fresh.pc = "ready" /\ fresh.err = "none"
      /\ fresh.attempt = 0
  BY DEF Fresh, TaskStates, Removals
<1>2. DOMAIN Tasks(units, asks) = units /\ \A u \in units : Tasks(units, asks)[u] = fresh
  BY DEF Tasks
<1> HIDE DEF fresh
<1>3. \A u : TaskOK(store, work, fresh, u)
  BY <1>1, CloudRetriesIsNat DEF TaskOK
<1> QED
  BY <1>1, <1>2, <1>3 DEF TasksOK

\* No tasks at all.
LEMMA NoTasksAtAll ==
  ASSUME NEW store, NEW work
  PROVE  TasksOK(store, work, NoTasks) /\ DOMAIN NoTasks = {}
<1>1. DOMAIN NoTasks = {}
  BY DEF NoTasks, Tasks
<1> QED
  BY <1>1 DEF TasksOK

\* A call is over: all that may be left of it are the goroutines of Azure.
LEMMA ReturnKeeps ==
  ASSUME CloudInv, NEW c \in CloudCallers, UNCHANGED <<provider, remote, late>>,
         NEW answer \in {"ok", "no", "notfound", "unavailable", "failed", "canceled"}, Return(c, answer),
         Running(c) # {} => /\ provider = "azure" /\ calls[c].canceled
                            /\ \A u \in DOMAIN task[c] : task[c][u].asks = "delete",
         \A b \in acked' : b \in acked \/ (b \in remote /\ ~MayStillRemove(b))
  PROVE  CloudInv'
<1> DEFINE ended == Running(c) # {} /\ calls[c].canceled
           after == [NoCall EXCEPT !.answer = answer, !.canceled = ended]
           left == IF Running(c) = {} THEN NoTasks ELSE task[c]
<1>1. /\ CloudTypeOK /\ CallOK(provider, calls[c], task[c], remote)
      /\ \A d \in CloudCallers : CallOK(provider, calls[d], task[d], remote)
  BY DEF CloudInv
<1>2. calls' = [calls EXCEPT ![c] = after] /\ task' = [task EXCEPT ![c] = left]
  BY <1>1 DEF Return, CloudTypeOK
<1>3. /\ after \in CallStates /\ after.op = "none" /\ after.jobs = {} /\ after.mode = "single"
      /\ after.undeleted = {} /\ after.canceled = ended
  BY DEF NoCall, CallStates
<1>4. Running(c) # {} => after.canceled
  BY <1>3
<1> HIDE DEF after
<1>5. TasksOK(provider, after, left)
  <2>1. CASE Running(c) = {}
    BY <2>1, NoTasksAtAll
  <2>2. CASE Running(c) # {}
    <3>1. left = task[c] /\ TasksOK(provider, calls[c], task[c])
      BY <1>1, <2>2 DEF CallOK
    <3>2. ASSUME NEW u \in DOMAIN left PROVE TaskOK(provider, after, left[u], u)
      <4>1. TaskOK(provider, calls[c], left[u], u)
        BY <3>1, <3>2 DEF TasksOK
      <4> QED
        BY <1>3, <1>4, <2>2, <4>1 DEF TaskOK
    <3> QED
      BY <3>1, <3>2 DEF TasksOK
  <2> QED
    BY <2>1, <2>2
<1>6. OverOK(provider, after, left)
  <2>1. CASE Running(c) = {}
    BY <1>3, <2>1, NoTasksAtAll DEF OverOK
  <2>2. CASE Running(c) # {}
    BY <1>3, <2>2 DEF OverOK
  <2> QED
    BY <2>1, <2>2
<1>7. CallOK(provider, after, left, remote)
  BY <1>3, <1>5, <1>6 DEF CallOK, SingleOK, DeleteOK
<1>8. /\ calls'[c] = after /\ task'[c] = left /\ DOMAIN task' = CloudCallers
      /\ \A d \in CloudCallers : d # c => calls'[d] = calls[d] /\ task'[d] = task[d]
      /\ calls' \in [CloudCallers -> CallStates]
  BY <1>1, <1>2, <1>3 DEF CloudTypeOK
<1>9. \A d \in CloudCallers : CallOK(provider, calls'[d], task'[d], remote')
  BY <1>1, <1>7, <1>8
<1>10. \A b : MayStillRemove(b)' => MayStillRemove(b)
  <2>1. \A d \in CloudCallers : calls'[d].op = "delete" =>
           calls[d].op = "delete" /\ calls'[d].keys \subseteq calls[d].keys
    BY <1>3, <1>8
  <2>2. \A d \in CloudCallers : \A u \in DOMAIN task'[d] :
           u \in DOMAIN task[d] /\ task'[d][u] = task[d][u]
    BY <1>8, NoTasksAtAll
  <2> QED
    BY <2>1, <2>2, NothingNewRemoves
<1>11. \A d \in CloudCallers : calls'[d].undeleted \subseteq calls[d].undeleted
  BY <1>3, <1>8
<1>12. remote' \in SUBSET CloudBlocks
  BY <1>1 DEF CloudTypeOK
<1> DEFINE keys == {}
<1>13. \A b : b \notin keys
  OBVIOUS
<1> HIDE DEF keys, left
<1> QED
  BY <1>8, <1>9, <1>10, <1>11, <1>12, <1>13, StepKeeps

\* A delete goes on to its next batch, its next block or the rest of its batch.
LEMMA DeleteGoesOn ==
  ASSUME CloudInv, NEW c \in CloudCallers, calls[c].op = "delete", NEW after \in CallStates, NEW tasks,
         after.op = "delete", after.keys = calls[c].keys, after.undeleted = {},
         calls' = [calls EXCEPT ![c] = after],
         task' = [task EXCEPT ![c] = tasks] \/ (task' = task /\ tasks = task[c]),
         UNCHANGED <<provider, remote, late, acked>>,
         TasksOK(provider, after, tasks), DeleteOK(after, tasks),
         \A u \in DOMAIN tasks : u \subseteq after.keys
  PROVE  CloudInv'
<1>1. /\ CloudTypeOK
      /\ \A d \in CloudCallers : CallOK(provider, calls[d], task[d], remote)
  BY DEF CloudInv
<1>2. CallOK(provider, after, tasks, remote)
  BY DEF CallOK, SingleOK, OverOK
<1>3. /\ calls'[c] = after /\ task'[c] = tasks /\ DOMAIN task' = CloudCallers
      /\ \A d \in CloudCallers : d # c => calls'[d] = calls[d] /\ task'[d] = task[d]
      /\ calls' \in [CloudCallers -> CallStates] /\ remote' \in SUBSET CloudBlocks
  BY <1>1 DEF CloudTypeOK
<1>4. \A d \in CloudCallers : CallOK(provider, calls'[d], task'[d], remote')
  BY <1>1, <1>2, <1>3
<1>5. \A b : MayStillRemove(b)' => MayStillRemove(b)
  <2>1. \A d \in CloudCallers : calls'[d].op = "delete" =>
           calls[d].op = "delete" /\ calls'[d].keys \subseteq calls[d].keys
    BY <1>3
  <2>2. \A b \in calls[c].keys : MayStillRemove(b)
    BY DEF MayStillRemove, BeingDeleted
  <2>3. \A u \in DOMAIN tasks : \A b \in u : MayStillRemove(b)
    BY <2>2
  <2>4. \A d \in CloudCallers : \A u \in DOMAIN task'[d] :
           task'[d][u].pc # "done" /\ task'[d][u].asks = "delete" =>
             \/ u \in DOMAIN task[d] /\ task[d][u].pc # "done" /\ task[d][u].asks = "delete"
             \/ \A b \in u : MayStillRemove(b)
    BY <1>3, <2>3
  <2> QED
    BY <2>1, <2>4, NothingNewRemoves
<1>6. \A d \in CloudCallers : calls'[d].undeleted \subseteq calls[d].undeleted
  BY <1>3
<1> DEFINE keys == {}
<1>7. \A b : b \notin keys
  OBVIOUS
<1> HIDE DEF keys
<1> QED
  BY <1>3, <1>4, <1>5, <1>6, <1>7, StepKeeps

\* PutBlock, HasBlock and GetBlock begin.  A put vouches for its block only when
\* no delete of it is under way.
LEMMA BeginSingleKeeps ==
  ASSUME CloudInv, NEW c \in CloudCallers, NEW b \in CloudBlocks, NEW op \in {"put", "has", "get"},
         NEW asks \in {"put", "stat", "open", "get"}, op = "put" <=> asks = "put",
         BeginSingle(c, op, b, asks)
  PROVE  CloudInv'
<1> DEFINE units == {{b}}
           tasks == Tasks(units, asks)
           safe == {x \in {b} : op = "put" /\ ~MayStillRemove(x)}
           alone == {x \in {b} : op = "put" /\ ~BeingDeleted(x)}
           after == [NoCall EXCEPT !.op = op, !.keys = {b}, !.was = {b} \cap remote,
                                   !.wasnt = {b} \ remote, !.undeleted = safe,
                                   !.unopposed = alone]
<1>1. /\ CloudTypeOK /\ \A d \in CloudCallers : CallOK(provider, calls[d], task[d], remote)
      /\ UNCHANGED <<provider, remote, late, acked>>
      /\ calls' = [calls EXCEPT ![c] = after] /\ task' = [task EXCEPT ![c] = tasks]
  BY DEF BeginSingle, CloudInv
<1>2. /\ safe \in SUBSET {b} /\ (op # "put" => safe = {}) /\ \A x \in safe : ~MayStillRemove(x)
      /\ alone \in SUBSET CloudBlocks
  OBVIOUS
<1> HIDE DEF safe, alone
<1>3. /\ after \in CallStates /\ after.op = op /\ after.keys = {b} /\ after.jobs = {}
      /\ after.mode = "single" /\ after.undeleted = safe
  BY <1>2 DEF NoCall, CallStates
<1> HIDE DEF after
<1>4. /\ TasksOK(provider, after, tasks) /\ DOMAIN tasks = {{b}}
      /\ tasks[{b}].asks = asks /\ tasks[{b}].pc = "ready"
  <2>1. units \in SUBSET (SUBSET CloudBlocks) /\ \A u \in units : \E x \in CloudBlocks : u = {x}
    OBVIOUS
  <2>2. {b} \in units /\ units = {{b}}
    OBVIOUS
  <2> HIDE DEF units
  <2> QED
    BY <2>1, <2>2, FreshTasks
<1> HIDE DEF tasks
<1>5. CallOK(provider, after, tasks, remote)
  <2>1. SingleOK(after, tasks, remote)
    BY <1>3, <1>4 DEF SingleOK, Removals
  <2>2. DeleteOK(after, tasks) /\ OverOK(provider, after, tasks)
    BY <1>3 DEF DeleteOK, OverOK
  <2> QED
    BY <1>2, <1>3, <1>4, <2>1, <2>2 DEF CallOK
<1>6. /\ calls'[c] = after /\ task'[c] = tasks /\ DOMAIN task' = CloudCallers
      /\ \A d \in CloudCallers : d # c => calls'[d] = calls[d] /\ task'[d] = task[d]
      /\ calls' \in [CloudCallers -> CallStates] /\ remote' \in SUBSET CloudBlocks
  BY <1>1, <1>3 DEF CloudTypeOK
<1>7. \A d \in CloudCallers : CallOK(provider, calls'[d], task'[d], remote')
  BY <1>1, <1>5, <1>6
<1>8. \A x : MayStillRemove(x)' => MayStillRemove(x)
  <2>1. \A d \in CloudCallers : calls'[d].op = "delete" =>
           calls[d].op = "delete" /\ calls'[d].keys \subseteq calls[d].keys
    BY <1>3, <1>6
  <2>2. \A u \in DOMAIN task'[c] : task'[c][u].asks # "delete"
    BY <1>4, <1>6
  <2>3. \A d \in CloudCallers : \A u \in DOMAIN task'[d] : task'[d][u].asks = "delete" =>
           u \in DOMAIN task[d] /\ task'[d][u] = task[d][u]
    BY <1>6, <2>2
  <2> QED
    BY <1>1, <2>1, <2>3, NothingNewRemoves
<1>9. \A d \in CloudCallers : \A x \in calls'[d].undeleted :
        x \in calls[d].undeleted \/ ~MayStillRemove(x)
  BY <1>2, <1>3, <1>6
<1> DEFINE keys == {}
<1>10. \A x : x \notin keys
  OBVIOUS
<1> HIDE DEF keys
<1> QED
  BY <1>1, <1>6, <1>7, <1>8, <1>9, <1>10, StepKeeps

\* A block of a put that a delete names is no longer one the put vouches for.
LEMMA FewerUndeleted ==
  ASSUME NEW store, NEW work \in CallStates, NEW tasks, NEW held, NEW after \in CallStates,
         CallOK(store, work, tasks, held), after.undeleted \subseteq work.undeleted,
         after.op = work.op, after.keys = work.keys, after.mode = work.mode,
         after.todo = work.todo, after.batch = work.batch, after.jobs = work.jobs,
         after.stopped = work.stopped, after.canceled = work.canceled,
         after.dropped = work.dropped, after.was = work.was, after.wasnt = work.wasnt
  PROVE  CallOK(store, after, tasks, held)
<1>1. TasksOK(store, after, tasks)
  BY DEF CallOK, TasksOK, TaskOK, Told
<1>2. SingleOK(after, tasks, held)
  BY DEF CallOK, SingleOK
<1>3. DeleteOK(after, tasks) /\ OverOK(store, after, tasks)
  BY DEF CallOK, DeleteOK, OverOK
<1> QED
  BY <1>1, <1>2, <1>3 DEF CallOK

\* A delete that begins puts its blocks in danger, and no block but those.
LEMMA BeginDeleteKeeps ==
  ASSUME CloudInv, NEW c \in CloudCallers, NEW keys \in DeleteSets, BeginDelete(c, keys)
  PROVE  CloudInv'
<1> DEFINE after == [NoCall EXCEPT !.op = "delete", !.keys = keys, !.mode = "between",
                                   !.todo = keys, !.was = keys \cap remote, !.wasnt = keys \ remote]
           less(d) == [calls[d] EXCEPT !.undeleted = @ \ keys, !.unopposed = @ \ keys]
<1>1. /\ CloudTypeOK /\ \A d \in CloudCallers : CallOK(provider, calls[d], task[d], remote)
      /\ UNCHANGED <<provider, remote, late>> /\ acked' = acked \ keys
      /\ calls' = [d \in CloudCallers |-> IF d = c THEN after ELSE less(d)]
      /\ task' = [task EXCEPT ![c] = NoTasks]
  BY DEF BeginDelete, CloudInv
<1>2. keys \in SUBSET CloudBlocks /\ IsFiniteSet(keys)
  BY CloudAssumption
<1>3. /\ after \in CallStates /\ after.op = "delete" /\ after.keys = keys /\ after.jobs = {}
      /\ after.mode = "between" /\ after.undeleted = {} /\ after.todo = keys /\ after.batch = {}
      /\ after.stopped = FALSE
  BY <1>2 DEF NoCall, CallStates
<1> HIDE DEF after
<1>4. CallOK(provider, after, NoTasks, remote)
  <2>1. DeleteOK(after, NoTasks)
    BY <1>2, <1>3, NoTasksAtAll DEF DeleteOK
  <2>2. SingleOK(after, NoTasks, remote) /\ OverOK(provider, after, NoTasks)
    BY <1>3 DEF SingleOK, OverOK
  <2>3. TasksOK(provider, after, NoTasks) /\ DOMAIN NoTasks = {}
    BY NoTasksAtAll
  <2> QED
    BY <1>3, <2>1, <2>2, <2>3 DEF CallOK
<1>5. \A d \in CloudCallers :
        /\ less(d) \in CallStates /\ CallOK(provider, less(d), task[d], remote)
        /\ less(d).op = calls[d].op /\ less(d).keys = calls[d].keys
        /\ less(d).undeleted = calls[d].undeleted \ keys
  <2> TAKE d \in CloudCallers
  <2>1. calls[d] \in CallStates /\ CallOK(provider, calls[d], task[d], remote)
    BY <1>1 DEF CloudTypeOK
  <2>2. PICK fewer : fewer = less(d)
    OBVIOUS
  <2>3. fewer = [calls[d] EXCEPT !.undeleted = @ \ keys, !.unopposed = @ \ keys]
    BY <2>2
  <2> HIDE DEF less
  <2> DEFINE work == calls[d]
  <2> HIDE DEF work
  <2>4. /\ fewer \in CallStates /\ fewer.undeleted = work.undeleted \ keys
        /\ fewer.op = work.op /\ fewer.keys = work.keys /\ fewer.mode = work.mode
        /\ fewer.todo = work.todo /\ fewer.batch = work.batch /\ fewer.jobs = work.jobs
        /\ fewer.stopped = work.stopped /\ fewer.canceled = work.canceled
        /\ fewer.dropped = work.dropped /\ fewer.was = work.was /\ fewer.wasnt = work.wasnt
    BY <2>1, <2>3 DEF CallStates, work
  <2>5. CallOK(provider, fewer, task[d], remote)
    BY <2>1, <2>4, FewerUndeleted DEF work
  <2> QED
    BY <2>2, <2>4, <2>5 DEF work
<1> HIDE DEF less
<1>6. /\ calls'[c] = after /\ task'[c] = NoTasks /\ DOMAIN task' = CloudCallers
      /\ \A d \in CloudCallers : d # c => calls'[d] = less(d) /\ task'[d] = task[d]
      /\ calls' \in [CloudCallers -> CallStates] /\ remote' \in SUBSET CloudBlocks
  BY <1>1, <1>3, <1>5 DEF CloudTypeOK
<1>7. \A d \in CloudCallers : CallOK(provider, calls'[d], task'[d], remote')
  BY <1>1, <1>4, <1>5, <1>6
<1>8. ASSUME NEW x, MayStillRemove(x)'
      PROVE  MayStillRemove(x) \/ x \in keys
  <2>1. CASE \E d \in CloudCallers : calls'[d].op = "delete" /\ x \in calls'[d].keys
    BY <1>3, <1>5, <1>6, <2>1 DEF MayStillRemove, BeingDeleted
  <2>2. CASE \E r \in late' : r.asks # "put" /\ x \in r.blocks
    BY <1>1, <2>2 DEF MayStillRemove, BeingDeleted
  <2>3. CASE /\ provider = "azure"
             /\ \E d \in CloudCallers : {x} \in DOMAIN task'[d] /\ task'[d][{x}].pc # "done"
                                        /\ task'[d][{x}].asks = "delete"
    BY <1>6, <2>3, NoTasksAtAll DEF MayStillRemove, BeingDeleted, Running
  <2> QED
    BY <1>1, <1>8, <2>1, <2>2, <2>3 DEF MayStillRemove, BeingDeleted, Running
<1>9. \A d \in CloudCallers : \A x \in calls'[d].undeleted : x \notin keys /\ x \in calls[d].undeleted
  BY <1>3, <1>5, <1>6
<1>10. \A x \in acked' : x \notin keys /\ x \in acked
  BY <1>1
<1>11. provider' = provider /\ late' = late /\ remote' = remote
  BY <1>1
<1> QED
  BY <1>6, <1>7, <1>8, <1>9, <1>10, <1>11, StepKeeps

\* Only a delete has batches.
LEMMA OnlyDeletesHaveBatches ==
  ASSUME CloudInv, NEW c \in CloudCallers, calls[c].mode # "single" \/ calls[c].jobs # {}
  PROVE  calls[c].op = "delete"
<1>1. /\ calls[c] \in CallStates
      /\ SingleOK(calls[c], task[c], remote) /\ OverOK(provider, calls[c], task[c])
  BY DEF CloudInv, CloudTypeOK, CallOK
<1> QED
  BY <1>1 DEF SingleOK, OverOK, CallStates

\* The next batch leaves todo and gets its tasks, or its jobs.
LEMMA NextBatchKeeps == ASSUME CloudInv, NEW c \in CloudCallers, NextBatch(c) PROVE CloudInv'
<1> DEFINE work == calls[c]
           alone(batch) == provider \in {"azure", "swift"} /\ Cardinality(batch) = 1
           mode(batch) == IF provider = "gcs" \/ alone(batch) THEN "each" ELSE "bulk"
           jobs(batch) == IF provider = "gcs" THEN batch ELSE {}
           asks(batch) == IF alone(batch) THEN "delete" ELSE "purge"
           units(batch) == {batch}
           tasks(batch) == IF provider = "gcs" THEN NoTasks ELSE Tasks(units(batch), asks(batch))
           next(batch) == [work EXCEPT !.todo = @ \ batch, !.batch = batch, !.mode = mode(batch),
                                       !.jobs = jobs(batch)]
<1>1. /\ work \in CallStates /\ work.op = "delete" /\ work.mode = "between"
      /\ DeleteOK(work, task[c]) /\ UNCHANGED <<provider, remote, late, acked>>
      /\ work.undeleted = {} /\ DOMAIN calls = CloudCallers /\ DOMAIN task = CloudCallers
  BY OnlyDeletesHaveBatches DEF NextBatch, CloudInv, CloudTypeOK, CallOK
<1>2. PICK batch \in SUBSET work.todo :
        calls' = [calls EXCEPT ![c] = next(batch)] /\ task' = [task EXCEPT ![c] = tasks(batch)]
  BY <1>1 DEF NextBatch
<1> DEFINE after == next(batch)
           now == tasks(batch)
<1> HIDE DEF next
<1>3. calls' = [calls EXCEPT ![c] = after] /\ task' = [task EXCEPT ![c] = now]
  BY <1>2
<1> USE DEF next
<1>4. /\ batch \subseteq work.todo /\ batch \subseteq work.keys /\ batch \subseteq CloudBlocks
      /\ IsFiniteSet(batch) /\ work.jobs = {} /\ ~work.stopped /\ work.todo \subseteq work.keys
      /\ ~work.dropped => work.keys \ work.todo \subseteq work.wasnt
  BY <1>1, FS_Subset DEF DeleteOK, CallStates
<1>5. Cardinality(batch) = 1 => \E b \in CloudBlocks : batch = {b}
  BY <1>4, FS_Singleton
<1>6. /\ after \in CallStates /\ after.op = "delete" /\ after.keys = work.keys
      /\ after.undeleted = {} /\ after.todo = work.todo \ batch /\ after.batch = batch
      /\ after.mode = mode(batch) /\ after.jobs = jobs(batch) /\ after.stopped = FALSE
      /\ after.dropped = work.dropped /\ after.wasnt = work.wasnt
  <2>1. mode(batch) \in {"each", "bulk"} /\ jobs(batch) \in SUBSET CloudBlocks
    BY <1>4
  <2> HIDE DEF mode, jobs
  <2> QED
    BY <1>1, <1>4, <2>1 DEF CallStates
<1> HIDE DEF after
<1>7. CASE provider = "gcs"
  <2>1. /\ after.mode = "each" /\ after.jobs = batch /\ now = NoTasks
    BY <1>6, <1>7
  <2>2. DeleteOK(after, now)
    BY <1>1, <1>4, <1>6, <2>1, NoTasksAtAll DEF DeleteOK
  <2>3. TasksOK(provider, after, now) /\ DOMAIN now = {}
    BY <2>1, NoTasksAtAll
  <2> HIDE DEF now
  <2> QED
    BY <1>1, <1>6, <1>3, <2>2, <2>3, DeleteGoesOn
<1>8. CASE provider # "gcs"
  <2> DEFINE one == {batch}
             what == asks(batch)
  <2>1. /\ after.mode = IF alone(batch) THEN "each" ELSE "bulk"
        /\ after.jobs = {} /\ now = Tasks(one, what)
    BY <1>6, <1>8
  <2>2. /\ one = {batch} /\ one \in SUBSET (SUBSET CloudBlocks)
        /\ what \in {"delete", "purge"} /\ (alone(batch) <=> what = "delete")
        /\ what # "purge" => \A u \in one : \E b \in CloudBlocks : u = {b}
    BY <1>4, <1>5
  <2> HIDE DEF one, what, now
  <2>3. /\ TasksOK(provider, after, now) /\ DOMAIN now = {batch} /\ now[batch].asks = what
    BY <2>1, <2>2, FreshTasks
  <2>4. DeleteOK(after, now)
    <3>1. /\ \A u \in DOMAIN now : /\ now[u].asks \in Removals
                                   /\ after.mode = "each" => now[u].asks = "delete"
          /\ after.mode = "bulk" => DOMAIN now = {after.batch}
      BY <1>6, <2>1, <2>2, <2>3 DEF Removals
    <3>2. after.mode = "each" => \A b \in batch : {b} \in DOMAIN now
      BY <1>5, <2>1, <2>3
    <3>3. after.keys \ (after.todo \cup after.batch) \subseteq work.keys \ work.todo
      BY <1>6
    <3> QED
      BY <1>1, <1>4, <1>6, <2>1, <3>1, <3>2, <3>3 DEF DeleteOK
  <2>5. \A u \in DOMAIN now : u \subseteq after.keys
    BY <1>4, <1>6, <2>3
  <2> QED
    BY <1>1, <1>6, <1>3, <2>3, <2>4, <2>5, DeleteGoesOn
<1> QED
  BY <1>7, <1>8

\* What is known of the tasks does not depend on how far the call has got.
LEMMA SameTasks ==
  ASSUME NEW store, NEW work, NEW after, NEW tasks, TasksOK(store, work, tasks), after.op = work.op,
         after.canceled = work.canceled, after.dropped = work.dropped, after.was = work.was,
         after.wasnt = work.wasnt
  PROVE  TasksOK(store, after, tasks)
BY DEF TasksOK, TaskOK, Told

\* A worker takes a block of the batch.
LEMMA DispatchKeeps ==
  ASSUME CloudInv, NEW c \in CloudCallers, NEW b \in CloudBlocks, Dispatch(c, b)
  PROVE  CloudInv'
<1> DEFINE work == calls[c]
           units == {{b}}
           asks == "delete"
           new == Tasks(units, asks)
           tasks == [u \in DOMAIN task[c] \cup {{b}} |->
                       IF u = {b} THEN Fresh("delete") ELSE task[c][u]]
           after == [work EXCEPT !.jobs = @ \ {b}]
<1>1. /\ work \in CallStates /\ work.op = "delete" /\ b \in work.jobs
      /\ DeleteOK(work, task[c]) /\ TasksOK(provider, work, task[c])
      /\ \A u \in DOMAIN task[c] : u \subseteq work.keys
      /\ UNCHANGED <<provider, remote, late, acked>> /\ work.undeleted = {}
      /\ calls' = [calls EXCEPT ![c] = after] /\ task' = [task EXCEPT ![c] = tasks]
  BY OnlyDeletesHaveBatches DEF Dispatch, CloudInv, CloudTypeOK, CallOK
<1>2. /\ after \in CallStates /\ after.op = "delete" /\ after.keys = work.keys
      /\ after.undeleted = {} /\ after.todo = work.todo /\ after.batch = work.batch
      /\ after.mode = work.mode /\ after.jobs = work.jobs \ {b} /\ after.stopped = work.stopped
      /\ after.dropped = work.dropped /\ after.wasnt = work.wasnt /\ after.was = work.was
      /\ after.canceled = work.canceled
  BY <1>1 DEF CallStates
<1> HIDE DEF after
<1>3. /\ TasksOK(provider, after, new) /\ DOMAIN new = {{b}} /\ new[{b}].asks = "delete"
  <2>1. /\ units \in SUBSET (SUBSET CloudBlocks) /\ \A u \in units : \E x \in CloudBlocks : u = {x}
        /\ {b} \in units /\ units = {{b}} /\ asks = "delete"
    OBVIOUS
  <2> HIDE DEF units, asks
  <2> QED
    BY <2>1, FreshTasks
<1>4. TasksOK(provider, after, task[c])
  BY <1>1, <1>2, SameTasks
<1>5. /\ DOMAIN tasks = DOMAIN task[c] \cup {{b}} /\ tasks[{b}] = new[{b}]
      /\ \A u \in DOMAIN task[c] : u # {b} => tasks[u] = task[c][u]
  BY <1>3 DEF Tasks
<1> HIDE DEF tasks, new
<1>6. TasksOK(provider, after, tasks)
  BY <1>3, <1>4, <1>5 DEF TasksOK
<1>7. work.mode = "each" /\ b \in work.keys
  BY <1>1 DEF DeleteOK
<1>8. DeleteOK(after, tasks)
  <2>1. \A u \in DOMAIN tasks : tasks[u].asks = "delete"
    BY <1>1, <1>3, <1>5, <1>7 DEF DeleteOK
  <2>2. ~work.stopped => \A x \in work.batch \ (work.jobs \ {b}) : {x} \in DOMAIN tasks
    BY <1>1, <1>5, <1>7 DEF DeleteOK
  <2> QED
    BY <1>1, <1>2, <1>7, <2>1, <2>2 DEF DeleteOK, Removals
<1>9. \A u \in DOMAIN tasks : u \subseteq after.keys
  BY <1>1, <1>2, <1>5, <1>7
<1> QED
  BY <1>1, <1>2, <1>6, <1>8, <1>9, DeleteGoesOn

\* The context has ended before every block had its worker.
LEMMA StopDispatchKeeps == ASSUME CloudInv, NEW c \in CloudCallers, StopDispatch(c) PROVE CloudInv'
<1> DEFINE work == calls[c]
           after == [work EXCEPT !.jobs = {}, !.stopped = TRUE]
<1>1. /\ work \in CallStates /\ work.op = "delete" /\ work.mode = "each" /\ work.canceled
      /\ DeleteOK(work, task[c]) /\ TasksOK(provider, work, task[c])
      /\ \A u \in DOMAIN task[c] : u \subseteq work.keys
      /\ UNCHANGED <<provider, remote, late, acked>> /\ work.undeleted = {}
      /\ DOMAIN task = CloudCallers /\ DOMAIN calls = CloudCallers
  BY OnlyDeletesHaveBatches DEF StopDispatch, CloudInv, CloudTypeOK, CallOK, DeleteOK
<1>2. CASE provider = "azure"
  <2>1. Return(c, "canceled")
    BY <1>2 DEF StopDispatch
  <2>2. \A u \in DOMAIN task[c] : task[c][u].asks = "delete"
    BY <1>1 DEF DeleteOK
  <2>3. \A b \in acked' : b \in acked
    BY <1>1
  <2> QED
    BY <1>1, <1>2, <2>1, <2>2, <2>3, ReturnKeeps
<1>3. CASE provider # "azure"
  <2>1. calls' = [calls EXCEPT ![c] = after] /\ task' = task
    BY <1>1, <1>3 DEF StopDispatch
  <2>2. /\ after \in CallStates /\ after.op = "delete" /\ after.keys = work.keys
        /\ after.undeleted = {} /\ after.todo = work.todo /\ after.batch = work.batch
        /\ after.mode = work.mode /\ after.jobs = {} /\ after.stopped = TRUE
        /\ after.dropped = work.dropped /\ after.wasnt = work.wasnt /\ after.was = work.was
        /\ after.canceled = work.canceled
    BY <1>1 DEF CallStates
  <2> HIDE DEF after
  <2>3. TasksOK(provider, after, task[c])
    BY <1>1, <2>2, SameTasks
  <2>4. DeleteOK(after, task[c])
    BY <1>1, <2>2 DEF DeleteOK
  <2> QED
    BY <1>1, <2>1, <2>2, <2>3, <2>4, DeleteGoesOn
<1> QED
  BY <1>2, <1>3

\* What is in no batch any more has been removed, once the batch is done.
LEMMA BatchDone ==
  ASSUME CloudInv, NEW c \in CloudCallers, TasksOver(c), calls[c].op = "delete", ~calls[c].stopped,
         Failures(c) = {}, ~calls[c].dropped
  PROVE  calls[c].keys \ calls[c].todo \subseteq calls[c].wasnt
<1> DEFINE work == calls[c]
<1>1. /\ work \in CallStates /\ DeleteOK(work, task[c]) /\ TasksOK(provider, work, task[c])
      /\ work.mode \in {"bulk", "each"} /\ work.jobs = {}
      /\ \A u \in DOMAIN task[c] : task[c][u].pc = "done"
  BY DEF CloudInv, CloudTypeOK, CallOK, CallStates, TasksOver, DeleteOK, Running
<1>2. ASSUME NEW u \in DOMAIN task[c] PROVE u \subseteq work.wasnt
  <2>1. /\ Told(work, task[c][u], u) /\ task[c][u].asks \in Removals
    BY <1>1 DEF TasksOK, TaskOK, DeleteOK
  <2>2. task[c][u].err \in {"none", "missing"}
    BY DEF Failures, NotFound
  <2> QED
    BY <2>1, <2>2 DEF Told
<1>3. work.mode = "bulk" => work.batch \subseteq work.wasnt
  BY <1>1, <1>2 DEF DeleteOK
<1>4. work.mode = "each" => work.batch \subseteq work.wasnt
  <2> SUFFICES ASSUME work.mode = "each", NEW b \in work.batch PROVE b \in work.wasnt
    OBVIOUS
  <2>1. {b} \in DOMAIN task[c]
    BY <1>1 DEF DeleteOK
  <2> QED
    BY <1>2, <2>1
<1>5. work.keys \ (work.todo \cup work.batch) \subseteq work.wasnt
  BY <1>1 DEF DeleteOK
<1> QED
  BY <1>1, <1>3, <1>4, <1>5

\* An error never reads as success, nor as the no of HasBlock.
LEMMA WrappedAnswers ==
  ASSUME NEW err
  PROVE  Wrapped(err) \in {"notfound", "unavailable", "failed", "canceled"}
BY DEF Wrapped

\* A batch is over: the next one, the blocks one by one, or the answer.
LEMMA EndBatchKeeps == ASSUME CloudInv, NEW c \in CloudCallers, EndBatch(c) PROVE CloudInv'
<1> DEFINE work == calls[c]
<1>1. /\ work \in CallStates /\ work.op = "delete" /\ work.mode # "between" /\ work.jobs = {}
      /\ DeleteOK(work, task[c]) /\ TasksOK(provider, work, task[c])
      /\ \A u \in DOMAIN task[c] : u \subseteq work.keys
      /\ UNCHANGED <<provider, remote, late, acked>> /\ work.undeleted = {} /\ Running(c) = {}
      /\ TasksOver(c)
  BY DEF EndBatch, TasksOver, CloudInv, CloudTypeOK, CallOK
<1>2. \A b \in acked' : b \in acked
  BY <1>1
<1>3. ASSUME NEW answer \in {"ok", "no", "notfound", "unavailable", "failed", "canceled"},
             Return(c, answer)
      PROVE  CloudInv'
  BY <1>1, <1>2, <1>3, ReturnKeeps
<1>4. CASE work.stopped
  <2>1. Return(c, "canceled")
    BY <1>4 DEF EndBatch
  <2> QED
    BY <1>3, <2>1
<1>5. CASE ~work.stopped /\ Failures(c) = {}
  <2>1. CASE work.todo = {}
    <3>1. Return(c, "ok")
      BY <1>5, <2>1 DEF EndBatch
    <3> QED
      BY <1>3, <3>1
  <2>2. CASE work.todo # {}
    <3> DEFINE after == [work EXCEPT !.mode = "between"]
    <3>1. calls' = [calls EXCEPT ![c] = after] /\ task' = task
      BY <1>5, <2>2 DEF EndBatch
    <3>2. /\ after \in CallStates /\ after.op = "delete" /\ after.keys = work.keys
          /\ after.undeleted = {} /\ after.todo = work.todo /\ after.batch = work.batch
          /\ after.mode = "between" /\ after.jobs = {} /\ after.stopped = FALSE
          /\ after.dropped = work.dropped /\ after.wasnt = work.wasnt /\ after.was = work.was
          /\ after.canceled = work.canceled
      BY <1>1, <1>5 DEF CallStates
    <3> HIDE DEF after
    <3>3. TasksOK(provider, after, task[c])
      BY <1>1, <3>2, SameTasks
    <3>4. ~work.dropped => work.keys \ work.todo \subseteq work.wasnt
      BY <1>1, <1>5, BatchDone
    <3>5. DeleteOK(after, task[c])
      BY <1>1, <3>2, <3>4 DEF DeleteOK
    <3> QED
      BY <1>1, <3>1, <3>2, <3>3, <3>5, DeleteGoesOn
  <2> QED
    BY <2>1, <2>2
<1>6. CASE ~work.stopped /\ Failures(c) # {}
  <2>1. CASE work.mode = "bulk" /\ provider \in {"azure", "swift"}
    <3> DEFINE after == [work EXCEPT !.mode = "each", !.jobs = work.batch]
    <3>1. calls' = [calls EXCEPT ![c] = after] /\ task' = [task EXCEPT ![c] = NoTasks]
      BY <1>6, <2>1 DEF EndBatch
    <3>2. /\ after \in CallStates /\ after.op = "delete" /\ after.keys = work.keys
          /\ after.undeleted = {} /\ after.todo = work.todo /\ after.batch = work.batch
          /\ after.mode = "each" /\ after.jobs = work.batch /\ after.stopped = FALSE
          /\ after.dropped = work.dropped /\ after.wasnt = work.wasnt
      BY <1>1, <1>6 DEF CallStates
    <3> HIDE DEF after
    <3>3. DeleteOK(after, NoTasks)
      BY <1>1, <3>2, NoTasksAtAll DEF DeleteOK
    <3>4. TasksOK(provider, after, NoTasks) /\ DOMAIN NoTasks = {}
      BY NoTasksAtAll
    <3> QED
      BY <1>1, <3>1, <3>2, <3>3, <3>4, DeleteGoesOn
  <2>2. CASE ~(work.mode = "bulk" /\ provider \in {"azure", "swift"})
    <3>1. PICK err \in Failures(c) : Return(c, Wrapped(err))
      BY <1>6, <2>2 DEF EndBatch
    <3> QED
      BY <1>3, <3>1, WrappedAnswers
  <2> QED
    BY <2>1, <2>2
<1> QED
  BY <1>1, <1>4, <1>5, <1>6 DEF CallStates

-----------------------------------------------------------------------------
\* The end of a call about one block.
LEMMA SingleEnds ==
  ASSUME CloudInv, NEW c \in CloudCallers, TasksOver(c), calls[c].op \in {"put", "has", "get"}
  PROVE  /\ calls[c].keys \in DOMAIN task[c] /\ task[c][calls[c].keys].pc = "done"
         /\ Told(calls[c], task[c][calls[c].keys], calls[c].keys)
         /\ task[c][calls[c].keys].asks \notin Removals
         /\ calls[c].op = "put" /\ Outcome(c) = "none" => calls[c].undeleted \subseteq remote
<1> DEFINE work == calls[c]
<1>1. SingleOK(work, task[c], remote) /\ TasksOK(provider, work, task[c])
  BY DEF CloudInv, CallOK
<1>2. work.keys \in DOMAIN task[c] /\ task[c][work.keys].pc = "done"
  BY <1>1 DEF SingleOK, TasksOver, Running
<1> QED
  BY <1>1, <1>2 DEF SingleOK, TasksOK, TaskOK, Outcome

\* A call about one block is answered.  What a put is acknowledged for is in
\* place, and no delete of it is under way.
LEMMA EndSingleKeeps ==
  ASSUME CloudInv, NEW c \in CloudCallers, EndPut(c) \/ EndHas(c) \/ EndGet(c)
  PROVE  CloudInv'
<1>1. \A err : Answer(err) \in {"ok", "notfound", "unavailable", "failed", "canceled"}
  BY WrappedAnswers DEF Answer
<1>2. ASSUME NEW answer \in {"ok", "no", "notfound", "unavailable", "failed", "canceled"},
             NEW op, EndSingle(c, op, answer),
             \A b \in acked' : b \in acked \/ (b \in remote /\ ~MayStillRemove(b))
      PROVE  CloudInv'
  BY <1>2, ReturnKeeps DEF EndSingle, TasksOver
<1>3. CASE EndPut(c)
  <2>1. /\ EndSingle(c, "put", Answer(Outcome(c)))
        /\ Outcome(c) = "none" => calls[c].undeleted \subseteq remote
    BY <1>3, SingleEnds DEF EndPut, EndSingle
  <2>2. \A b \in acked' : b \in acked \/ (b \in calls[c].undeleted /\ Outcome(c) = "none")
    BY <1>3 DEF EndPut
  <2>3. \A b \in calls[c].undeleted : ~MayStillRemove(b)
    BY DEF CloudInv
  <2> QED
    BY <1>1, <1>2, <2>1, <2>2, <2>3
<1>4. CASE EndHas(c)
  <2> DEFINE answer == IF NotFound(Outcome(c)) THEN "no" ELSE Answer(Outcome(c))
  <2>1. EndSingle(c, "has", answer) /\ \A b \in acked' : b \in acked
    BY <1>4 DEF EndHas
  <2>2. answer \in {"ok", "no", "notfound", "unavailable", "failed", "canceled"}
    BY <1>1
  <2> QED
    BY <1>2, <2>1, <2>2
<1>5. CASE EndGet(c)
  <2>1. EndSingle(c, "get", Answer(Outcome(c))) /\ \A b \in acked' : b \in acked
    BY <1>5 DEF EndGet
  <2> QED
    BY <1>1, <1>2, <2>1
<1> QED
  BY <1>3, <1>4, <1>5

\* The invariant holds at the start.
LEMMA CloudInitInv == CloudInit => CloudInv
<1> SUFFICES ASSUME CloudInit PROVE CloudInv
  OBVIOUS
<1>1. /\ NoCall \in CallStates /\ NoCall.op = "none" /\ NoCall.jobs = {} /\ NoCall.mode = "single"
      /\ NoCall.undeleted = {}
  BY DEF NoCall, CallStates
<1>2. \A c \in CloudCallers : calls[c] = NoCall /\ task[c] = NoTasks
  BY DEF CloudInit
<1>3. CloudTypeOK
  BY <1>1 DEF CloudInit, CloudTypeOK
<1>4. CallOK(provider, NoCall, NoTasks, remote)
  BY <1>1, NoTasksAtAll DEF CallOK, SingleOK, DeleteOK, OverOK
<1>5. acked = {} /\ \A c \in CloudCallers : calls[c].undeleted = {}
  BY <1>1, <1>2 DEF CloudInit
<1> QED
  BY <1>2, <1>3, <1>4, <1>5 DEF CloudInv

\* The steps of the service.
LEMMA ServiceKeeps == ASSUME CloudInv, NEW c \in CloudCallers, Service(c) PROVE CloudInv'
<1>1. PICK u \in DOMAIN task[c] :
        \/ Execute(c, u)
        \/ \E why \in {"busy", "denied"} : Refuse(c, u, why) \/ ItemsFail(c, u, why)
        \/ Refuse(c, u, "unauth")
  BY DEF Service
<1> QED
  BY <1>1, ExecuteKeeps, RefuseKeeps, ItemsFailKeeps

\* The steps of a call that go on by themselves.
LEMMA ProceedKeeps == ASSUME CloudInv, NEW c \in CloudCallers, Proceed(c) PROVE CloudInv'
<1>1. ASSUME NEW u \in DOMAIN task[c], Attempt(c, u) \/ Receive(c, u) \/ TimesOut(c, u)
      PROVE  CloudInv'
  BY <1>1, AttemptKeeps, ReceiveKeeps, AbandonKeeps DEF TimesOut
<1> QED
  BY <1>1, NextBatchKeeps, DispatchKeeps, StopDispatchKeeps, EndBatchKeeps, EndSingleKeeps DEF Proceed

\* Every step preserves the invariant.
LEMMA CloudNextInv == CloudInv /\ [CloudNext]_cloudVars => CloudInv'
<1> SUFFICES ASSUME CloudInv, [CloudNext]_cloudVars PROVE CloudInv'
  OBVIOUS
<1>1. ASSUME NEW c \in CloudCallers, NEW b \in CloudBlocks,
             BeginPut(c, b) \/ BeginHas(c, b) \/ BeginGet(c, b)
      PROVE  CloudInv'
  <2>1. CASE BeginPut(c, b)
    BY <2>1, BeginSingleKeeps DEF BeginPut
  <2>2. CASE BeginHas(c, b)
    BY <2>2, BeginSingleKeeps DEF BeginHas
  <2>3. CASE BeginGet(c, b)
    <3> DEFINE asks == IF provider \in S3Stores THEN "open" ELSE "get"
    <3>1. BeginSingle(c, "get", b, asks) /\ asks \in {"open", "get"}
      BY <2>3 DEF BeginGet
    <3> QED
      BY <3>1, BeginSingleKeeps
  <2> QED
    BY <1>1, <2>1, <2>2, <2>3
<1>2. ASSUME NEW c \in CloudCallers, NEW u \in DOMAIN task[c], CutOff(c, u) \/ Reset(c, u)
      PROVE  CloudInv'
  BY <1>2, AbandonKeeps DEF CutOff, Reset
<1>3. CASE UNCHANGED cloudVars
  BY <1>3 DEF cloudVars, CloudInv, CloudTypeOK, MayStillRemove, BeingDeleted, Running
<1> QED
  BY <1>1, <1>2, <1>3, BeginDeleteKeeps, CancelCallKeeps, ProceedKeeps, ServiceKeeps, ArrivesLateKeeps
     DEF CloudNext

\* The invariant holds of every behaviour.
THEOREM CloudInvariance == CloudSpec => []CloudInv
<1> QED
  BY CloudInitInv, CloudNextInv, PTL DEF CloudSpec

\* A block whose put was acknowledged, when no delete of it, nor a request or a
\* goroutine an earlier delete had left behind, was under way at any moment of
\* the put, stays in the service until a delete of it begins.
THEOREM AcknowledgedBlocksRemain == CloudSpec => []AcknowledgedBlocksStay
<1>1. CloudInv => AcknowledgedBlocksStay
  BY DEF CloudInv, AcknowledgedBlocksStay
<1> QED
  BY <1>1, CloudInvariance, PTL

-----------------------------------------------------------------------------
EndsCall(c) == StopDispatch(c) \/ EndBatch(c) \/ EndPut(c) \/ EndHas(c) \/ EndGet(c)

\* Nobody's call ends.
NobodyEnds == \A d \in CloudCallers : calls'[d].op = calls[d].op

\* StopDispatch returns, or nobody's call ends.
LEMMA StopsOrGoesOn ==
  ASSUME CloudInv, NEW c \in CloudCallers, StopDispatch(c)
  PROVE  Return(c, "canceled") \/ NobodyEnds
<1> DEFINE new == [calls[c] EXCEPT !.jobs = {}, !.stopped = TRUE]
<1>1. calls \in [CloudCallers -> CallStates]
  BY DEF CloudInv, CloudTypeOK
<1>2. Return(c, "canceled") \/ calls' = [calls EXCEPT ![c] = new]
  BY DEF StopDispatch
<1>3. new.op = calls[c].op
  BY <1>1 DEF CallStates
<1> HIDE DEF new
<1> QED
  BY <1>1, <1>2, <1>3 DEF NobodyEnds

\* EndBatch returns for one of three reasons, or nobody's call ends.
LEMMA EndsOrGoesOn ==
  ASSUME CloudInv, NEW c \in CloudCallers, EndBatch(c)
  PROVE  \/ Return(c, "canceled")
         \/ ~calls[c].stopped /\ Failures(c) = {} /\ calls[c].todo = {} /\ Return(c, "ok")
         \/ \E err \in Failures(c) : Return(c, Wrapped(err))
         \/ NobodyEnds
<1> DEFINE between == [calls[c] EXCEPT !.mode = "between"]
           each == [calls[c] EXCEPT !.mode = "each", !.jobs = calls[c].batch]
<1>1. calls \in [CloudCallers -> CallStates]
  BY DEF CloudInv, CloudTypeOK
<1>2. \/ Return(c, "canceled")
      \/ ~calls[c].stopped /\ Failures(c) = {} /\ calls[c].todo = {} /\ Return(c, "ok")
      \/ \E err \in Failures(c) : Return(c, Wrapped(err))
      \/ calls' = [calls EXCEPT ![c] = between]
      \/ calls' = [calls EXCEPT ![c] = each]
  BY DEF EndBatch
<1>3. between.op = calls[c].op /\ each.op = calls[c].op
  BY <1>1 DEF CallStates
<1> HIDE DEF between, each
<1>4. \A new : calls' = [calls EXCEPT ![c] = new] /\ new.op = calls[c].op => NobodyEnds
  BY <1>1 DEF NobodyEnds
<1> QED
  BY <1>2, <1>3, <1>4

\* What the service does ends no call.
LEMMA SeenEndsNone ==
  ASSUME calls \in [CloudCallers -> CallStates], NEW stored, NEW c \in CloudCallers
  PROVE  Seen(stored)[c].op = calls[c].op
<1>1. calls[c] \in CallStates
  OBVIOUS
<1>2. CASE ~InProgress(c)
  BY <1>2 DEF Seen
<1>3. CASE InProgress(c)
  BY <1>1, <1>3 DEF Seen, CallStates
<1> QED
  BY <1>2, <1>3

\* A call ends by a step of its own, and with an answer.
LEMMA OnlyEndsEnd ==
  ASSUME CloudInv, [CloudNext]_cloudVars, NEW c \in CloudCallers, Ends(c)
  PROVE  EndsCall(c) /\ \E answer : Return(c, answer)
<1>1. /\ calls \in [CloudCallers -> CallStates]
      /\ calls[c].op # "none" /\ calls'[c].op = "none" /\ calls # calls'
  BY DEF CloudInv, CloudTypeOK, Ends, InProgress
<1>2. ASSUME NEW d \in CloudCallers, NEW u, NEW why \in {"busy", "denied"},
             Execute(d, u) \/ ItemsFail(d, u, why)
      PROVE  FALSE
  <2>1. CASE Execute(d, u)
    BY <1>1, <2>1, SeenEndsNone DEF Execute
  <2>2. CASE ItemsFail(d, u, why)
    <3> DEFINE seen == Seen(remote')
    <3>1. seen[c].op = calls[c].op /\ DOMAIN seen = CloudCallers
      BY <1>1, SeenEndsNone DEF Seen
    <3>2. PICK err \in BatchErrors(why) : calls' = [seen EXCEPT ![d].dropped = @ \/ err = "none"]
      BY <2>2 DEF ItemsFail
    <3>3. seen[c] \in CallStates
      <4>1. CloudTypeOK /\ remote' \in SUBSET CloudBlocks
        BY <2>2 DEF ItemsFail, Effect, CloudInv, CloudTypeOK
      <4> QED
        BY <4>1, SeenGrows
    <3> HIDE DEF seen
    <3> QED
      BY <1>1, <3>1, <3>2, <3>3 DEF CallStates
  <2> QED
    BY <1>2, <2>1, <2>2
<1>3. ASSUME NEW r \in late, ArrivesLate(r) PROVE FALSE
  BY <1>1, <1>3, SeenEndsNone DEF ArrivesLate
<1>4. ASSUME NEW d \in CloudCallers, NEW b, NEW op \in {"put", "has", "get"}, NEW asks,
             BeginSingle(d, op, b, asks)
      PROVE  FALSE
  <2>1. d # c /\ \E new : calls' = [calls EXCEPT ![d] = new]
    BY <1>1, <1>4 DEF BeginSingle, Idle, InProgress
  <2> QED
    BY <1>1, <2>1
<1>5. ASSUME NEW d \in CloudCallers, NEW keys, BeginDelete(d, keys) PROVE FALSE
  <2>1. d # c
    BY <1>1, <1>5 DEF BeginDelete, Idle, InProgress
  <2>2. calls'[c] = [calls[c] EXCEPT !.undeleted = @ \ keys, !.unopposed = @ \ keys]
    BY <1>5, <2>1 DEF BeginDelete
  <2>3. calls[c] \in CallStates
    BY <1>1
  <2> QED
    BY <1>1, <2>2, <2>3 DEF CallStates
<1>6. ASSUME NEW d \in CloudCallers, CancelCall(d) PROVE FALSE
  BY <1>1, <1>6 DEF CancelCall
<1>7. ASSUME NEW d \in CloudCallers, NextBatch(d) PROVE FALSE
  BY <1>1, <1>7 DEF NextBatch
<1>8. ASSUME NEW d \in CloudCallers, NEW b, Dispatch(d, b) PROVE FALSE
  BY <1>1, <1>8 DEF Dispatch
<1>9. PICK d \in CloudCallers : EndsCall(d)
  BY <1>1, <1>2, <1>3, <1>4, <1>5, <1>6, <1>7, <1>8
     DEF CloudNext, Proceed, Service, EndsCall, BeginPut, BeginHas, BeginGet, Attempt, Receive,
         TimesOut, CutOff, Reset, AbandonAttempt, Refuse, cloudVars
<1>10. \E answer : Return(d, answer)
  <2>1. ~NobodyEnds
    BY <1>1 DEF NobodyEnds
  <2> QED
    BY <1>9, <2>1, StopsOrGoesOn, EndsOrGoesOn DEF EndsCall, EndPut, EndHas, EndGet, EndSingle
<1>11. d = c
  BY <1>1, <1>10 DEF Return
<1> QED
  BY <1>9, <1>10, <1>11

\* What a call has been told when it ends, and what it answers.
LEMMA AnswersOfDeletes ==
  ASSUME CloudInv, NEW c \in CloudCallers, StopDispatch(c) \/ EndBatch(c), Ends(c)
  PROVE  /\ calls[c].op = "delete"
         /\ \/ calls'[c].answer = "canceled"
            \/ /\ calls'[c].answer = "ok"
               /\ calls[c].dropped \/ calls[c].keys \subseteq calls[c].wasnt
            \/ /\ calls'[c].answer \in {"unavailable", "failed"}
               /\ calls'[c].answer = "unavailable" /\ ~calls[c].canceled =>
                    \E u \in DOMAIN task[c] : task[c][u].attempt = CloudRetries + 1
<1> DEFINE work == calls[c]
<1>1. /\ work.op = "delete" /\ calls'[c].op = "none" /\ calls \in [CloudCallers -> CallStates]
      /\ TasksOK(provider, work, task[c])
  BY OnlyDeletesHaveBatches DEF StopDispatch, EndBatch, Ends, InProgress, CloudInv, CloudTypeOK, CallOK
<1>2. \A answer : Return(c, answer) => calls'[c].answer = answer
  BY <1>1 DEF Return, NoCall
<1>3. CASE StopDispatch(c)
  BY <1>1, <1>2, <1>3, StopsOrGoesOn DEF NobodyEnds
<1>4. CASE EndBatch(c)
  <2>1. TasksOver(c)
    BY <1>4 DEF EndBatch
  <2>2. CASE Return(c, "canceled")
    BY <1>1, <1>2, <2>2
  <2>3. CASE ~work.stopped /\ Failures(c) = {} /\ work.todo = {} /\ Return(c, "ok")
    <3>1. work.dropped \/ work.keys \subseteq work.wasnt
      BY <1>1, <2>1, <2>3, BatchDone
    <3> QED
      BY <1>1, <1>2, <2>3, <3>1
  <2>4. CASE \E err \in Failures(c) : Return(c, Wrapped(err))
    <3>1. PICK err \in Failures(c) : Return(c, Wrapped(err))
      BY <2>4
    <3>2. PICK u \in DOMAIN task[c] :
            /\ task[c][u].err = err
            /\ task[c][u].asks = "purge" \/ ~NotFound(err)
      BY DEF Failures
    <3>3. task[c][u].pc = "done" /\ TaskOK(provider, work, task[c][u], u)
      BY <1>1, <2>1 DEF TasksOver, Running, TasksOK
    <3>4. ~NotFound(err) /\ err # "none"
      BY <3>2, <3>3 DEF TaskOK, NotFound, Failures
    <3>5. Wrapped(err) \in {"canceled", "unavailable", "failed"}
      BY <3>4 DEF Wrapped
    <3>6. Wrapped(err) = "unavailable" => Passing(provider, err)
      BY DEF Wrapped, Unavailable, Passing
    <3>7. Wrapped(err) = "unavailable" /\ ~work.canceled => task[c][u].attempt = CloudRetries + 1
      BY <3>2, <3>3, <3>6 DEF TaskOK
    <3> QED
      BY <1>1, <1>2, <3>1, <3>5, <3>7
  <2> QED
    BY <1>1, <1>4, <2>2, <2>3, <2>4, EndsOrGoesOn DEF NobodyEnds
<1> QED
  BY <1>3, <1>4

\* The same of calls about one block.
LEMMA AnswersOfSingles ==
  ASSUME CloudInv, NEW c \in CloudCallers, EndPut(c) \/ EndHas(c) \/ EndGet(c)
  PROVE  /\ calls[c].op # "delete"
         /\ \/ calls'[c].answer = "ok" /\ calls[c].keys \subseteq calls[c].was
            \/ calls'[c].answer \in {"no", "notfound"} /\ calls[c].keys \subseteq calls[c].wasnt
            \/ /\ calls'[c].answer \in {"canceled", "unavailable", "failed"}
               /\ calls'[c].answer = "unavailable" /\ ~calls[c].canceled =>
                    \E u \in DOMAIN task[c] : task[c][u].attempt = CloudRetries + 1
<1> DEFINE work == calls[c]
           t == task[c][work.keys]
<1>1. TasksOver(c) /\ work.op \in {"put", "has", "get"}
  BY DEF EndPut, EndHas, EndGet, EndSingle
<1>2. /\ work.keys \in DOMAIN task[c] /\ t.pc = "done" /\ Told(work, t, work.keys)
      /\ t.asks \notin Removals /\ Outcome(c) = t.err
  BY <1>1, SingleEnds DEF Outcome
<1>3. calls \in [CloudCallers -> CallStates] /\ TaskOK(provider, work, t, work.keys)
  BY <1>2 DEF CloudInv, CloudTypeOK, CallOK, TasksOK
<1>4. \/ calls'[c].answer = Answer(t.err)
      \/ calls'[c].answer = "no" /\ t.err = "missing"
  <2>1. \/ Return(c, Answer(t.err))
        \/ t.err = "missing" /\ Return(c, "no")
    BY <1>2 DEF EndPut, EndHas, EndGet, EndSingle, NotFound
  <2>2. \A answer : Return(c, answer) => calls'[c].answer = answer
    BY <1>3 DEF Return, NoCall
  <2> QED
    BY <2>1, <2>2
<1>5. CASE t.err = "none"
  BY <1>1, <1>2, <1>4, <1>5 DEF Told, Answer
<1>6. CASE t.err = "missing"
  <2>1. Answer(t.err) = "notfound"
    BY <1>6 DEF Answer, Wrapped, NotFound, Unavailable
  <2>2. work.keys \subseteq work.wasnt
    BY <1>2, <1>6 DEF Told
  <2> QED
    BY <1>1, <1>4, <2>1, <2>2
<1>7. CASE t.err \notin {"none", "missing"}
  <2>1. Answer(t.err) = Wrapped(t.err) /\ Wrapped(t.err) \in {"canceled", "unavailable", "failed"}
    BY <1>7 DEF Answer, Wrapped, NotFound
  <2>2. Wrapped(t.err) = "unavailable" => Passing(provider, t.err)
    BY DEF Wrapped, Unavailable, Passing
  <2>3. Wrapped(t.err) = "unavailable" /\ ~work.canceled => t.attempt = CloudRetries + 1
    BY <1>2, <1>3, <2>2 DEF TaskOK
  <2> QED
    BY <1>1, <1>2, <1>4, <1>7, <2>1, <2>3
<1> QED
  BY <1>5, <1>6, <1>7

\* A call is answered with what was so at some moment of it, for any number of
\* callers, blocks, retries and workers, however their attempts meet.
THEOREM AnswersStayTrue == CloudSpec => AnswersAreTrue
<1>1. ASSUME CloudInv, [CloudNext]_cloudVars, NEW c \in CloudCallers, Ends(c), ~calls[c].dropped
      PROVE  Truthful(c, calls[c])
  <2>1. CASE StopDispatch(c) \/ EndBatch(c)
    BY <1>1, <2>1, AnswersOfDeletes DEF Truthful
  <2>2. CASE EndPut(c) \/ EndHas(c) \/ EndGet(c)
    BY <1>1, <2>2, AnswersOfSingles DEF Truthful
  <2> QED
    BY <1>1, <2>1, <2>2, OnlyEndsEnd DEF EndsCall
<1>2. CloudInv /\ [CloudNext]_cloudVars =>
        [\A c \in CloudCallers : Ends(c) /\ ~calls[c].dropped => Truthful(c, calls[c])]_cloudVars
  BY <1>1
<1> QED
  BY <1>2, CloudInvariance, PTL DEF CloudSpec, AnswersAreTrue

\* A call that nobody cancelled gives up on a service that is unavailable only
\* after the configured number of attempts; none makes more, and, but for the
\* path client, none is repeated after an answer that is final.
THEOREM AttemptsAreSpent == CloudSpec => RetriesAreSpent
<1> DEFINE Spent ==
      \A c \in CloudCallers :
       /\ Ends(c) /\ calls[c].answer' = "unavailable" /\ ~calls[c].canceled
            => \E u \in DOMAIN task[c] : task[c][u].attempt = CloudRetries + 1
       /\ \A u \in DOMAIN task[c] : task[c][u].attempt <= CloudRetries + 1
       /\ provider # "s3path" => OnlyTransientRetried
<1>1. ASSUME CloudInv, [CloudNext]_cloudVars, NEW c \in CloudCallers, Ends(c),
             calls[c].answer' = "unavailable", ~calls[c].canceled
      PROVE  \E u \in DOMAIN task[c] : task[c][u].attempt = CloudRetries + 1
  <2>1. CASE StopDispatch(c) \/ EndBatch(c)
    BY <1>1, <2>1, AnswersOfDeletes
  <2>2. CASE EndPut(c) \/ EndHas(c) \/ EndGet(c)
    BY <1>1, <2>2, AnswersOfSingles
  <2> QED
    BY <1>1, <2>1, <2>2, OnlyEndsEnd DEF EndsCall
<1>2. ASSUME CloudInv
      PROVE  /\ \A c \in CloudCallers : \A u \in DOMAIN task[c] : task[c][u].attempt <= CloudRetries + 1
             /\ provider # "s3path" => OnlyTransientRetried
  BY <1>2 DEF CloudInv, CallOK, TasksOK, TaskOK, OnlyTransientRetried
<1>3. CloudInv /\ [CloudNext]_cloudVars => [Spent]_cloudVars
  BY <1>1, <1>2
<1> QED
  BY <1>3, CloudInvariance, PTL DEF CloudSpec, RetriesAreSpent

=============================================================================
