----------------------------- MODULE Reservations -----------------------------
(***************************************************************************)
(* The reservation counter with its compare-and-swap loops                 *)
(* (DiskReservations, src/internal/limits/reservations.go) under the guard *)
(* that reserves first and then looks at the free space of the scratch     *)
(* disk (DiskGuard, src/internal/limits/disk.go).  Callers are goroutines  *)
(* that reserve some bytes and later release the same; a step is one       *)
(* access to the shared counter.                                           *)
(***************************************************************************)
EXTENDS Integers, FiniteSetsExt

CONSTANTS
  Callers,
  Amounts,    \* how many bytes a caller asks for
  Capacity,   \* DiskReservations.capacity; 0 is no limit
  MaxInt,     \* the largest int64
  MinFree,    \* DiskGuard.MinFreeBytes
  FreeSpaces  \* what AvailableBytes may answer; it stays the same in a behaviour

ASSUME ReservationsAssumption ==
  /\ MaxInt \in Nat
  /\ Amounts \subseteq -MaxInt .. MaxInt
  /\ Capacity \in 0 .. MaxInt
  /\ MinFree \in Nat /\ FreeSpaces \subseteq Nat

VARIABLES
  used,       \* DiskReservations.used
  available,  \* the answer of AvailableBytes
  call        \* where each caller is

vars == <<used, available, call>>

(* current is the value a loop has loaded. *)
IdleCall == [pc |-> "idle", bytes |-> 0, current |-> 0]

Init ==
  /\ used = 0
  /\ available \in FreeSpaces
  /\ call = [c \in Callers |-> IdleCall]

(* The sum of two int64 that are not negative. *)
Wrapped(n) == IF n > MaxInt THEN n - 2 * (MaxInt + 1) ELSE n

Goto(c, pc) == call' = [call EXCEPT ![c].pc = pc]

Load(c, pc) == call' = [call EXCEPT ![c].pc = pc, ![c].current = used]

-----------------------------------------------------------------------------
(* DiskGuard.TryReserve. *)

(* Nothing is counted for zero bytes; less is refused. *)
Reserve(c, bytes) ==
  /\ call[c].pc = "idle" /\ bytes >= 0
  /\ call' = [call EXCEPT ![c] = [pc |-> IF bytes = 0 THEN "check" ELSE "reserve",
                                  bytes |-> bytes, current |-> 0]]
  /\ UNCHANGED <<used, available>>

Refused(bytes) ==
  \/ Wrapped(used + bytes) < used
  \/ Capacity > 0 /\ Wrapped(used + bytes) > Capacity

ReserveLoad(c) ==
  /\ call[c].pc = "reserve"
  /\ IF Refused(call[c].bytes) THEN call' = [call EXCEPT ![c] = IdleCall]
     ELSE Load(c, "reserveswap")
  /\ UNCHANGED <<used, available>>

(* The swap is made if the counter still has the value loaded. *)
ReserveSwap(c) ==
  /\ call[c].pc = "reserveswap"
  /\ IF used = call[c].current
     THEN used' = Wrapped(call[c].current + call[c].bytes) /\ Goto(c, "check")
     ELSE used' = used /\ Goto(c, "reserve")
  /\ UNCHANGED available

(* Check(ctx, 0), where the bytes just reserved count as used. *)
CheckPassesWithoutReservations(c) ==
  /\ call[c].pc = "check"
  /\ available - call[c].bytes >= MinFree
  /\ Goto(c, "held")
  /\ UNCHANGED <<used, available>>

CheckPasses(c) ==
  /\ call[c].pc = "check"
  /\ available - used >= MinFree
  /\ Goto(c, "held")
  /\ UNCHANGED <<used, available>>

(* Too little space, or an error of the context or of the file system: the *)
(* reservation is undone.                                                  *)
CheckFails(c) ==
  /\ call[c].pc = "check"
  /\ Goto(c, "release")
  /\ UNCHANGED <<used, available>>

-----------------------------------------------------------------------------
(* Release. *)

GiveBack(c) ==
  /\ call[c].pc = "held"
  /\ Goto(c, "release")
  /\ UNCHANGED <<used, available>>

ReleaseLoad(c) ==
  /\ call[c].pc = "release"
  /\ IF call[c].bytes = 0 THEN call' = [call EXCEPT ![c] = IdleCall]
     ELSE Load(c, "releaseswap")
  /\ UNCHANGED <<used, available>>

ReleaseStore(c) ==
  /\ call[c].pc = "releaseswap"
  /\ used' = IF call[c].current >= call[c].bytes THEN call[c].current - call[c].bytes ELSE 0
  /\ call' = [call EXCEPT ![c] = IdleCall]
  /\ UNCHANGED available

ReleaseSwap(c) ==
  /\ call[c].pc = "releaseswap"
  /\ IF used = call[c].current
     THEN /\ used' = IF used >= call[c].bytes THEN used - call[c].bytes ELSE 0
          /\ call' = [call EXCEPT ![c] = IdleCall]
     ELSE used' = used /\ Goto(c, "release")
  /\ UNCHANGED available

-----------------------------------------------------------------------------
CallStep(c) ==
  \/ ReserveLoad(c) \/ ReserveSwap(c) \/ CheckPasses(c) \/ CheckFails(c)
  \/ ReleaseLoad(c) \/ ReleaseSwap(c)

Next ==
  \E c \in Callers :
    \/ \E bytes \in Amounts : Reserve(c, bytes)
    \/ CallStep(c)
    \/ GiveBack(c)

Spec == Init /\ [][Next]_vars

-----------------------------------------------------------------------------
(* Properties. *)

Pcs == {"idle", "reserve", "reserveswap", "check", "held", "release", "releaseswap"}

\* The counter is an int64 that is not negative, whatever callers ask for
\* (the overflow check of TryReserve, the stop at zero of Release).
ReservationsTypeOK ==
  /\ used \in 0 .. MaxInt
  /\ available \in FreeSpaces
  /\ call \in [Callers -> [pc : Pcs, bytes : 0 .. MaxInt, current : 0 .. MaxInt]]

\* The counter never exceeds the capacity, however the loops of reservers and
\* releasers interleave.  (TryReserve checks a value that may be old.)
WithinCapacity == Capacity > 0 => used <= Capacity

Holders == {c \in Callers : call[c].pc = "held"}

\* What the guard has granted leaves the minimum free on the disk, even if
\* several callers were granted at the same time: each check counts the
\* reservations made before it.  (TryReserve reserves before it checks.)
GrantsLeaveMinFree ==
  Holders # {} =>
    available - MapThenSumSet(LAMBDA c : call[c].bytes, Holders) >= MinFree

\* Seen from outside every call changes the counter in one step, which is how
\* the multipart manager uses it.
Counter == INSTANCE ReservationCounter

ImplementsCounter == Counter!Spec

=============================================================================
