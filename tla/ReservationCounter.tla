-------------------------- MODULE ReservationCounter --------------------------
(***************************************************************************)
(* What DiskReservations promises (src/internal/limits/reservations.go): a *)
(* counter of bytes that is reserved from and released to in single steps, *)
(* never beyond the capacity nor beyond what an int64 holds.               *)
(***************************************************************************)
EXTENDS Integers

CONSTANTS
  Amounts,   \* how many bytes a caller asks for
  Capacity,  \* 0 is no limit
  MaxInt     \* the largest int64

VARIABLE used

Init == used = 0

TryReserve(bytes) ==
  /\ bytes > 0
  /\ used + bytes <= MaxInt
  /\ Capacity = 0 \/ used + bytes <= Capacity
  /\ used' = used + bytes

Release(bytes) ==
  /\ bytes > 0
  /\ used' = IF used >= bytes THEN used - bytes ELSE 0

Next == \E bytes \in Amounts : TryReserve(bytes) \/ Release(bytes)

Spec == Init /\ [][Next]_used

=============================================================================
