----------------------------- MODULE CPUSemaphore -----------------------------
(***************************************************************************)
(* A counting semaphore: CPUSemaphore, a channel of slots                  *)
(* (src/internal/limits/reservations.go).  AdaptiveCPUSemaphore, which the *)
(* server uses in its place, implements it with a counter it polls.        *)
(***************************************************************************)
EXTENDS Naturals

CONSTANT Slots  \* the capacity of the channel

VARIABLE taken  \* the slots in use

Init == taken = 0

(* A send to the channel is possible while it is not full. *)
Acquire ==
  /\ taken < Slots
  /\ taken' = taken + 1

(* The function Acquire returned receives from the channel once. *)
Release ==
  /\ taken > 0
  /\ taken' = taken - 1

Next == Acquire \/ Release

Spec == Init /\ [][Next]_taken

=============================================================================
