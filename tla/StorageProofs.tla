----------------------------- MODULE StorageProofs -----------------------------
(***************************************************************************)
(* Theorems about what a gateway, and a client that downloads, keep on     *)
(* their own machines: Reservations, FileStore, Shards, Tenants,           *)
(* StoredTimes and DeltaDownload.  However many callers there are and      *)
(* however wide their integers, the counter of reserved bytes stays        *)
(* between zero and the capacity, changes by steps of ReservationCounter   *)
(* and grants only what leaves the minimum free; every call of the file    *)
(* store is answered with what was true at some moment of the call; the    *)
(* databases of shards are opened once and migrated in order; no tenant    *)
(* reaches the rows or the blocks of another; the orphans a sweep lists    *)
(* are those of the configured age.  For any number of clients that share  *)
(* a cache directory, what a download leaves under the output name is all  *)
(* of one object, and a download that nothing disturbed succeeds.          *)
(***************************************************************************)
EXTENDS Reservations, FileStore, Shards, Tenants, StoredTimes, DeltaDownload,
        FiniteSums

-----------------------------------------------------------------------------
(* Reservations.  A swap that is about to be made was computed from a      *)
(* value it does not exceed the limits with, and is made only if that is   *)
(* still the value.                                                        *)
Accepted(c) ==
  /\ call[c].bytes \in Amounts
  /\ call[c].pc \in {"reserve", "reserveswap", "releaseswap"} => call[c].bytes > 0
  /\ call[c].pc = "reserveswap" =>
       /\ call[c].current + call[c].bytes <= MaxInt
       /\ Capacity > 0 => call[c].current + call[c].bytes <= Capacity

ReservationsInv ==
  /\ ReservationsTypeOK
  /\ WithinCapacity
  /\ \A c \in Callers : call[c].pc # "idle" => Accepted(c)

\* An addition that is not refused neither overflows nor exceeds the capacity.
LEMMA NotRefused ==
  ASSUME used \in 0 .. MaxInt, NEW bytes \in 1 .. MaxInt, ~Refused(bytes)
  PROVE  /\ used + bytes <= MaxInt
         /\ Wrapped(used + bytes) = used + bytes
         /\ Capacity > 0 => used + bytes <= Capacity
<1> MaxInt \in Nat
  BY ReservationsAssumption DEF ReservationsAssumption
<1>1. CASE used + bytes > MaxInt
  <2>1. Wrapped(used + bytes) = used + bytes - 2 * (MaxInt + 1)
    BY <1>1 DEF Wrapped
  <2>2. Wrapped(used + bytes) < used
    BY <2>1
  <2> QED
    BY <2>2 DEF Refused
<1>2. CASE used + bytes <= MaxInt
  <2>1. Wrapped(used + bytes) = used + bytes
    BY <1>2 DEF Wrapped
  <2> QED
    BY <1>2, <2>1, ReservationsAssumption DEF Refused, ReservationsAssumption
<1> QED
  BY <1>1, <1>2

\* The initial states satisfy the invariant.
LEMMA ReservationsInitInv == Init => ReservationsInv
BY ReservationsAssumption
   DEF Init, ReservationsInv, ReservationsTypeOK, WithinCapacity, Accepted, IdleCall, Pcs,
       ReservationsAssumption

\* Every step keeps the invariant.
LEMMA ReservationsNextInv == ReservationsInv /\ [Next]_vars => ReservationsInv'
<1> SUFFICES ASSUME ReservationsInv, [Next]_vars PROVE ReservationsInv'
  OBVIOUS
<1> USE DEF ReservationsInv
<1> MaxInt \in Nat /\ Capacity \in 0 .. MaxInt /\ Amounts \subseteq -MaxInt .. MaxInt
  BY ReservationsAssumption DEF ReservationsAssumption
<1>t. /\ used \in 0 .. MaxInt
      /\ \A c \in Callers : /\ call[c].bytes \in 0 .. MaxInt
                            /\ call[c].current \in 0 .. MaxInt
  BY DEF ReservationsTypeOK
<1>1. ASSUME NEW c \in Callers, NEW bytes \in Amounts, Reserve(c, bytes) PROVE ReservationsInv'
  BY <1>1 DEF Reserve, ReservationsTypeOK, WithinCapacity, Accepted, Pcs
<1>2. ASSUME NEW c \in Callers, ReserveLoad(c) PROVE ReservationsInv'
  <2>1. CASE Refused(call[c].bytes)
    BY <1>2, <2>1 DEF ReserveLoad, IdleCall, ReservationsTypeOK, WithinCapacity, Accepted, Pcs
  <2>2. CASE ~Refused(call[c].bytes)
    <3>1. call[c].pc = "reserve" /\ call[c].bytes \in 1 .. MaxInt
      BY <1>2, <1>t DEF ReserveLoad, Accepted
    <3>2. /\ used + call[c].bytes <= MaxInt
          /\ Capacity > 0 => used + call[c].bytes <= Capacity
      BY <2>2, <3>1, <1>t, NotRefused
    <3> QED
      BY <1>2, <2>2, <3>1, <3>2
         DEF ReserveLoad, Load, ReservationsTypeOK, WithinCapacity, Accepted, Pcs
  <2> QED
    BY <2>1, <2>2
<1>3. ASSUME NEW c \in Callers, ReserveSwap(c) PROVE ReservationsInv'
  <2>1. CASE used = call[c].current
    <3>1. used' = used + call[c].bytes
      BY <1>3, <2>1, <1>t DEF ReserveSwap, Wrapped, Accepted
    <3>2. used' \in 0 .. MaxInt /\ (Capacity > 0 => used' <= Capacity)
      BY <1>3, <2>1, <3>1, <1>t DEF ReserveSwap, Accepted
    <3> QED
      BY <1>3, <2>1, <3>2
         DEF ReserveSwap, Goto, ReservationsTypeOK, WithinCapacity, Accepted, Pcs
  <2>2. CASE used # call[c].current
    BY <1>3, <2>2 DEF ReserveSwap, Goto, ReservationsTypeOK, WithinCapacity, Accepted, Pcs
  <2> QED
    BY <2>1, <2>2
<1>4. ASSUME NEW c \in Callers, CheckPasses(c) \/ CheckFails(c) \/ GiveBack(c) PROVE ReservationsInv'
  BY <1>4
     DEF CheckPasses, CheckFails, GiveBack, Goto, ReservationsTypeOK, WithinCapacity,
         Accepted, Pcs
<1>5. ASSUME NEW c \in Callers, ReleaseLoad(c) PROVE ReservationsInv'
  BY <1>5, <1>t
     DEF ReleaseLoad, Load, IdleCall, ReservationsTypeOK, WithinCapacity, Accepted, Pcs
<1>6. ASSUME NEW c \in Callers, ReleaseSwap(c) PROVE ReservationsInv'
  <2>1. used' \in 0 .. MaxInt /\ used' <= used
    BY <1>6, <1>t DEF ReleaseSwap
  <2> QED
    BY <1>6, <2>1, <1>t
       DEF ReleaseSwap, Goto, IdleCall, ReservationsTypeOK, WithinCapacity, Accepted, Pcs
<1>7. CASE UNCHANGED vars
  BY <1>7 DEF vars, ReservationsTypeOK, WithinCapacity, Accepted
<1> QED
  BY <1>1, <1>2, <1>3, <1>4, <1>5, <1>6, <1>7 DEF Next, CallStep

\* The invariant holds throughout.
THEOREM ReservationsInvariance == Spec => []ReservationsInv
BY ReservationsInitInv, ReservationsNextInv, PTL DEF Spec

\* The counter is never negative and never overflows, whatever is asked for
\* (TryReserve and Release of DiskReservations).
THEOREM ReservationsTypeCorrect == Spec => []ReservationsTypeOK
<1>1. ReservationsInv => ReservationsTypeOK
  BY DEF ReservationsInv
<1> QED
  BY <1>1, ReservationsInvariance, PTL

\* The counter never exceeds the capacity (TryReserve of DiskReservations).
THEOREM CapacityIsKept == Spec => []WithinCapacity
<1>1. ReservationsInv => WithinCapacity
  BY DEF ReservationsInv
<1> QED
  BY <1>1, ReservationsInvariance, PTL

\* The compare-and-swap loops implement the atomic counter.
THEOREM LoopsImplementCounter == Spec => ImplementsCounter
<1>1. Init => Counter!Init
  BY DEF Init, Counter!Init
<1>2. ReservationsInv /\ [Next]_vars => [Counter!Next]_used
  <2> SUFFICES ASSUME ReservationsInv, Next, used' # used PROVE Counter!Next
    BY DEF vars
  <2> USE DEF ReservationsInv
  <2>t. /\ MaxInt \in Nat /\ used \in 0 .. MaxInt
        /\ \A c \in Callers : /\ call[c].bytes \in 0 .. MaxInt
                              /\ call[c].current \in 0 .. MaxInt
    BY ReservationsAssumption DEF ReservationsTypeOK, ReservationsAssumption
  <2>1. PICK c \in Callers : ReserveSwap(c) \/ ReleaseSwap(c)
    BY DEF Next, CallStep, Reserve, ReserveLoad, CheckPasses, CheckFails, GiveBack, ReleaseLoad
  <2>2. call[c].bytes \in Amounts /\ call[c].bytes > 0
    BY <2>1 DEF ReserveSwap, ReleaseSwap, Accepted
  <2>3. CASE ReserveSwap(c)
    <3>1. used = call[c].current /\ used' = used + call[c].bytes
      BY <2>3, <2>t DEF ReserveSwap, Wrapped, Accepted
    <3>2. Counter!TryReserve(call[c].bytes)
      BY <2>2, <2>3, <2>t, <3>1, ReservationsAssumption
         DEF ReserveSwap, Accepted, Counter!TryReserve, ReservationsAssumption
    <3> QED
      BY <2>2, <3>2 DEF Counter!Next
  <2>4. CASE ReleaseSwap(c)
    <3>1. Counter!Release(call[c].bytes)
      BY <2>2, <2>4 DEF ReleaseSwap, Counter!Release
    <3> QED
      BY <2>2, <3>1 DEF Counter!Next
  <2> QED
    BY <2>1, <2>3, <2>4
<1> QED
  BY <1>1, <1>2, ReservationsInvariance, PTL DEF Spec, ImplementsCounter, Counter!Spec

-----------------------------------------------------------------------------
(* What the counter counts: the bytes of the callers between a swap of     *)
(* TryReserve and one of Release.                                          *)
CountedPcs == {"check", "held", "release", "releaseswap"}

CountedIn(calls) == {c \in Callers : calls[c].pc \in CountedPcs}

HeldIn(calls) == {c \in Callers : calls[c].pc = "held"}

BytesIn(calls) == [c \in Callers |-> calls[c].bytes]

(* The counter is the sum of what is counted, so no Release stops at zero, *)
(* and what is granted leaves the minimum free.                            *)
CounterInv ==
  /\ IsFiniteSet(CountedIn(call))
  /\ used = SumOf(BytesIn(call), CountedIn(call))
  /\ HeldIn(call) # {} => available - SumOf(BytesIn(call), HeldIn(call)) >= MinFree

\* The bytes of the callers that are counted are numbers, and sum to numbers.
LEMMA CountedAre ==
  ASSUME NEW calls, \A c \in Callers : calls[c].bytes \in Nat, IsFiniteSet(CountedIn(calls))
  PROVE  /\ \A c \in Callers : BytesIn(calls)[c] = calls[c].bytes
         /\ CountedIn(calls) \subseteq Callers /\ HeldIn(calls) \in SUBSET CountedIn(calls)
         /\ IsFiniteSet(HeldIn(calls))
         /\ \A c \in CountedIn(calls) : BytesIn(calls)[c] \in Nat /\ BytesIn(calls)[c] \in Int
         /\ SumOf(BytesIn(calls), CountedIn(calls)) \in Nat
         /\ SumOf(BytesIn(calls), HeldIn(calls)) \in Nat
         /\ SumOf(BytesIn(calls), HeldIn(calls)) <= SumOf(BytesIn(calls), CountedIn(calls))
<1>1. /\ \A c \in Callers : BytesIn(calls)[c] = calls[c].bytes
      /\ CountedIn(calls) \subseteq Callers /\ HeldIn(calls) \in SUBSET CountedIn(calls)
  BY DEF BytesIn, CountedIn, HeldIn, CountedPcs
<1>2. PICK f, C, H : f = BytesIn(calls) /\ C = CountedIn(calls) /\ H = HeldIn(calls)
  OBVIOUS
<1>3. IsFiniteSet(C) /\ H \in SUBSET C /\ IsFiniteSet(H)
  BY <1>1, <1>2, FS_Subset
<1>4. (\A x \in C : f[x] \in Nat) /\ (\A x \in H : f[x] \in Nat)
  BY <1>1, <1>2
<1>5. SumOf(f, C) \in Nat /\ SumOf(f, H) \in Nat
  BY <1>3, <1>4, SumType
<1>6. SumOf(f, H) <= SumOf(f, C)
  BY <1>3, <1>4, SumPart
<1> QED
  BY <1>1, <1>2, <1>3, <1>4, <1>5, <1>6


\* One caller moves, and the sums with it.
LEMMA CallerMoves ==
  ASSUME NEW calls, NEW new, NEW c \in Callers,
         \A d \in Callers : calls[d].bytes \in Nat /\ new[d].bytes \in Nat,
         \A d \in Callers : d # c => new[d] = calls[d],
         IsFiniteSet(CountedIn(calls))
  PROVE  /\ IsFiniteSet(CountedIn(new))
         /\ SumOf(BytesIn(new), CountedIn(new)) =
              SumOf(BytesIn(calls), CountedIn(calls))
                - (IF calls[c].pc \in CountedPcs THEN calls[c].bytes ELSE 0)
                + (IF new[c].pc \in CountedPcs THEN new[c].bytes ELSE 0)
         /\ SumOf(BytesIn(new), HeldIn(new)) =
              SumOf(BytesIn(calls), HeldIn(calls))
                - (IF calls[c].pc = "held" THEN calls[c].bytes ELSE 0)
                + (IF new[c].pc = "held" THEN new[c].bytes ELSE 0)
<1>1. PICK f, g, S, T, H, J : /\ f = BytesIn(calls) /\ g = BytesIn(new)
                              /\ S = CountedIn(calls) /\ T = CountedIn(new)
                              /\ H = HeldIn(calls) /\ J = HeldIn(new)
  OBVIOUS
<1>2. /\ f[c] = calls[c].bytes /\ g[c] = new[c].bytes
      /\ c \in S <=> calls[c].pc \in CountedPcs
      /\ c \in T <=> new[c].pc \in CountedPcs
      /\ c \in H <=> calls[c].pc = "held"
      /\ c \in J <=> new[c].pc = "held"
  BY <1>1 DEF BytesIn, CountedIn, HeldIn
<1>3. IsFiniteSet(S) /\ IsFiniteSet(H)
  BY <1>1, CountedAre
<1>4. S \ {c} = T \ {c} /\ H \ {c} = J \ {c}
  BY <1>1 DEF CountedIn, HeldIn
<1>5. /\ \A x \in S : f[x] \in Int
      /\ \A x \in T : g[x] \in Int
      /\ \A x \in S : x # c => f[x] = g[x]
  BY <1>1 DEF BytesIn, CountedIn
<1>6. /\ \A x \in H : f[x] \in Int
      /\ \A x \in J : g[x] \in Int
      /\ \A x \in H : x # c => f[x] = g[x]
  BY <1>1 DEF BytesIn, HeldIn
<1>7. /\ IsFiniteSet(T)
      /\ SumOf(g, T) = SumOf(f, S) - (IF c \in S THEN f[c] ELSE 0) + (IF c \in T THEN g[c] ELSE 0)
  BY <1>3, <1>4, <1>5, SumMoves
<1>8. SumOf(g, J) = SumOf(f, H) - (IF c \in H THEN f[c] ELSE 0) + (IF c \in J THEN g[c] ELSE 0)
  BY <1>3, <1>4, <1>6, SumMoves
<1> QED
  BY <1>1, <1>2, <1>7, <1>8

\* Before any call nothing is counted.
LEMMA CounterInitInv == Init => CounterInv
<1> SUFFICES ASSUME Init PROVE CounterInv
  OBVIOUS
<1>1. CountedIn(call) = {} /\ HeldIn(call) = {}
  BY DEF Init, IdleCall, CountedIn, HeldIn, CountedPcs
<1>2. PICK f : f = BytesIn(call)
  OBVIOUS
<1>3. IsFiniteSet({}) /\ SumOf(f, {}) = 0
  BY FS_EmptySet, SumTakesChosen
<1> QED
  BY <1>1, <1>2, <1>3 DEF Init, CounterInv

\* Every step moves the counter and what is counted together.
LEMMA CounterNextInv ==
  ReservationsInv /\ ReservationsInv' /\ CounterInv /\ [Next]_vars => CounterInv'
<1> SUFFICES ASSUME ReservationsInv, ReservationsInv', CounterInv, [Next]_vars PROVE CounterInv'
  OBVIOUS
<1> MaxInt \in Nat /\ FreeSpaces \subseteq Nat /\ MinFree \in Nat
  BY ReservationsAssumption DEF ReservationsAssumption
<1>t. /\ used \in Nat /\ used' \in Nat /\ available \in Nat
      /\ used \in 0 .. MaxInt
      /\ \A c \in Callers : /\ call[c].bytes \in Nat /\ call'[c].bytes \in Nat
                            /\ call[c].bytes \in 0 .. MaxInt /\ call[c].current \in 0 .. MaxInt
                            /\ call[c] = [pc |-> call[c].pc, bytes |-> call[c].bytes,
                                          current |-> call[c].current]
      /\ DOMAIN call = Callers
  BY DEF ReservationsInv, ReservationsTypeOK
<1>f. PICK s, t, h, j : /\ s = SumOf(BytesIn(call), CountedIn(call))
                        /\ t = SumOf(BytesIn(call'), CountedIn(call'))
                        /\ h = SumOf(BytesIn(call), HeldIn(call))
                        /\ j = SumOf(BytesIn(call'), HeldIn(call'))
  OBVIOUS
<1>s. /\ IsFiniteSet(CountedIn(call)) /\ s = used
      /\ HeldIn(call) # {} => available - h >= MinFree
  BY <1>f DEF CounterInv
<1>h. h \in Nat /\ h <= s
  BY <1>f, <1>s, <1>t, CountedAre
(* It is enough to say how one caller moves. *)
<1>m. ASSUME NEW c \in Callers, available' = available,
             \A d \in Callers : d # c => call'[d] = call[d],
             NEW b \in Nat, NEW b1 \in Nat, b = call[c].bytes, b1 = call'[c].bytes,
             used' = used - (IF call[c].pc \in CountedPcs THEN b ELSE 0)
                          + (IF call'[c].pc \in CountedPcs THEN b1 ELSE 0),
             \/ call'[c].pc # "held"
             \/ call[c].pc = "check" /\ b1 = b /\ available - used >= MinFree /\ used' = used
      PROVE  CounterInv'
  <2>1. /\ IsFiniteSet(CountedIn(call'))
        /\ t = s - (IF call[c].pc \in CountedPcs THEN b ELSE 0)
                 + (IF call'[c].pc \in CountedPcs THEN b1 ELSE 0)
        /\ j = h - (IF call[c].pc = "held" THEN b ELSE 0)
                 + (IF call'[c].pc = "held" THEN b1 ELSE 0)
    <3>1. /\ \A d \in Callers : call[d].bytes \in Nat /\ call'[d].bytes \in Nat
          /\ \A d \in Callers : d # c => call'[d] = call[d]
      BY <1>m, <1>t
    <3>2. PICK x, y : x = call /\ y = call'
      OBVIOUS
    <3>3. /\ \A d \in Callers : x[d].bytes \in Nat /\ y[d].bytes \in Nat
          /\ \A d \in Callers : d # c => y[d] = x[d]
          /\ IsFiniteSet(CountedIn(x))
      BY <1>s, <3>1, <3>2
    <3>4. /\ IsFiniteSet(CountedIn(y))
          /\ SumOf(BytesIn(y), CountedIn(y)) =
               SumOf(BytesIn(x), CountedIn(x))
                 - (IF x[c].pc \in CountedPcs THEN x[c].bytes ELSE 0)
                 + (IF y[c].pc \in CountedPcs THEN y[c].bytes ELSE 0)
          /\ SumOf(BytesIn(y), HeldIn(y)) =
               SumOf(BytesIn(x), HeldIn(x))
                 - (IF x[c].pc = "held" THEN x[c].bytes ELSE 0)
                 + (IF y[c].pc = "held" THEN y[c].bytes ELSE 0)
      BY <3>3, CallerMoves
    <3> QED
      BY <1>f, <1>m, <3>2, <3>4
  <2>2. t = used'
    BY <1>m, <1>s, <1>t, <2>1
  <2>3. j \in Nat /\ j <= t
    <3>1. \A d \in Callers : call'[d].bytes \in Nat
      BY <1>t
    <3> QED
      BY <1>f, <2>1, <3>1, CountedAre
  <2>4. HeldIn(call') # {} => available - j >= MinFree
    <3>1. CASE call'[c].pc # "held"
      <4>1. HeldIn(call') \subseteq HeldIn(call)
        BY <1>m, <3>1 DEF HeldIn
      <4>2. j <= h
        BY <1>h, <1>m, <2>1, <3>1
      <4> QED
        BY <1>h, <1>s, <1>t, <2>3, <4>1, <4>2
    <3>2. CASE call'[c].pc = "held"
      BY <1>m, <1>t, <2>2, <2>3, <3>2
    <3> QED
      BY <3>1, <3>2
  <2> QED
    BY <1>f, <1>m, <2>1, <2>2, <2>4 DEF CounterInv
<1>1. ASSUME NEW c \in Callers, NEW bytes \in Amounts, Reserve(c, bytes) PROVE CounterInv'
  <2>1. /\ call[c].pc = "idle" /\ call'[c].bytes = bytes
        /\ call'[c].pc = IF bytes = 0 THEN "check" ELSE "reserve"
        /\ used' = used /\ available' = available
        /\ \A d \in Callers : d # c => call'[d] = call[d]
    BY <1>1, <1>t DEF Reserve
  <2>2. call'[c].pc # "held" /\ call[c].pc \notin CountedPcs
    BY <2>1 DEF CountedPcs
  <2>3. call'[c].pc \in CountedPcs => call'[c].bytes = 0
    BY <2>1 DEF CountedPcs
  <2>4. PICK b, b1 \in Nat : b = call[c].bytes /\ b1 = call'[c].bytes
    BY <1>t
  <2>5. used' = used - (IF call[c].pc \in CountedPcs THEN b ELSE 0)
                     + (IF call'[c].pc \in CountedPcs THEN b1 ELSE 0)
    BY <1>t, <2>1, <2>2, <2>3, <2>4
  <2> QED
    BY <1>m, <2>1, <2>2, <2>4, <2>5
<1>2. ASSUME NEW c \in Callers, ReserveLoad(c) PROVE CounterInv'
  <2>1. /\ call[c].pc = "reserve" /\ call'[c].pc \in {"idle", "reserveswap"}
        /\ used' = used /\ available' = available
        /\ \A d \in Callers : d # c => call'[d] = call[d]
    BY <1>2, <1>t DEF ReserveLoad, Load, IdleCall
  <2>2. call'[c].pc # "held" /\ call[c].pc \notin CountedPcs /\ call'[c].pc \notin CountedPcs
    BY <2>1 DEF CountedPcs
  <2>3. PICK b, b1 \in Nat : b = call[c].bytes /\ b1 = call'[c].bytes
    BY <1>t
  <2>4. used' = used - (IF call[c].pc \in CountedPcs THEN b ELSE 0)
                     + (IF call'[c].pc \in CountedPcs THEN b1 ELSE 0)
    BY <1>t, <2>1, <2>2
  <2> QED
    BY <1>m, <2>1, <2>2, <2>3, <2>4
<1>3. ASSUME NEW c \in Callers, ReserveSwap(c) PROVE CounterInv'
  <2>1. /\ call[c].pc = "reserveswap" /\ call'[c].bytes = call[c].bytes
        /\ available' = available
        /\ \A d \in Callers : d # c => call'[d] = call[d]
        /\ \/ used' = Wrapped(call[c].current + call[c].bytes) /\ call'[c].pc = "check"
              /\ used = call[c].current
           \/ used' = used /\ call'[c].pc = "reserve"
    BY <1>3, <1>t DEF ReserveSwap, Goto
  <2>2. Wrapped(call[c].current + call[c].bytes) = call[c].current + call[c].bytes
    BY <1>t, <2>1 DEF Wrapped, ReservationsInv, Accepted
  <2>3. call'[c].pc # "held" /\ call[c].pc \notin CountedPcs
    BY <2>1 DEF CountedPcs
  <2>4. \/ used' = used + call[c].bytes /\ call'[c].pc \in CountedPcs
        \/ used' = used /\ call'[c].pc \notin CountedPcs
    BY <2>1, <2>2 DEF CountedPcs
  <2>5. PICK b, b1 \in Nat : b = call[c].bytes /\ b1 = call'[c].bytes
    BY <1>t
  <2>6. used' = used - (IF call[c].pc \in CountedPcs THEN b ELSE 0)
                     + (IF call'[c].pc \in CountedPcs THEN b1 ELSE 0)
    BY <1>t, <2>1, <2>3, <2>4, <2>5
  <2> QED
    BY <1>m, <2>1, <2>3, <2>5, <2>6
<1>4. ASSUME NEW c \in Callers, CheckPasses(c) \/ CheckFails(c) \/ GiveBack(c) PROVE CounterInv'
  <2>1. /\ call[c].pc \in {"check", "held"} /\ call'[c].pc \in {"held", "release"}
        /\ call'[c].bytes = call[c].bytes
        /\ call'[c].pc = "held" => call[c].pc = "check" /\ available - used >= MinFree
        /\ used' = used /\ available' = available
        /\ \A d \in Callers : d # c => call'[d] = call[d]
    BY <1>4, <1>t DEF CheckPasses, CheckFails, GiveBack, Goto
  <2>2. call[c].pc \in CountedPcs /\ call'[c].pc \in CountedPcs
    BY <2>1 DEF CountedPcs
  <2>3. PICK b, b1 \in Nat : b = call[c].bytes /\ b1 = call'[c].bytes /\ b1 = b
    BY <1>t, <2>1
  <2>4. used' = used - (IF call[c].pc \in CountedPcs THEN b ELSE 0)
                     + (IF call'[c].pc \in CountedPcs THEN b1 ELSE 0)
    BY <1>t, <2>1, <2>2, <2>3
  <2> QED
    BY <1>m, <2>1, <2>3, <2>4
<1>5. ASSUME NEW c \in Callers, ReleaseLoad(c) PROVE CounterInv'
  <2>1. /\ call[c].pc = "release"
        /\ \/ call[c].bytes = 0 /\ call'[c].pc = "idle"
           \/ call'[c].bytes = call[c].bytes /\ call'[c].pc = "releaseswap"
        /\ used' = used /\ available' = available
        /\ \A d \in Callers : d # c => call'[d] = call[d]
    BY <1>5, <1>t DEF ReleaseLoad, Load, IdleCall
  <2>2. call'[c].pc # "held" /\ call[c].pc \in CountedPcs
    BY <2>1 DEF CountedPcs
  <2>3. PICK b, b1 \in Nat : b = call[c].bytes /\ b1 = call'[c].bytes
    BY <1>t
  <2>4. \/ b = 0 /\ call'[c].pc \notin CountedPcs
        \/ b1 = b /\ call'[c].pc \in CountedPcs
    BY <2>1, <2>3 DEF CountedPcs
  <2>5. used' = used - (IF call[c].pc \in CountedPcs THEN b ELSE 0)
                     + (IF call'[c].pc \in CountedPcs THEN b1 ELSE 0)
    BY <1>t, <2>1, <2>2, <2>4
  <2> QED
    BY <1>m, <2>1, <2>2, <2>3, <2>5
<1>6. ASSUME NEW c \in Callers, ReleaseSwap(c) PROVE CounterInv'
  <2>1. /\ call[c].pc = "releaseswap" /\ available' = available
        /\ \A d \in Callers : d # c => call'[d] = call[d]
        /\ \/ used' = (IF used >= call[c].bytes THEN used - call[c].bytes ELSE 0)
              /\ call'[c].pc = "idle"
           \/ used' = used /\ call'[c].pc = "release" /\ call'[c].bytes = call[c].bytes
    BY <1>6, <1>t DEF ReleaseSwap, Goto, IdleCall
  <2>2. call'[c].pc # "held" /\ call[c].pc \in CountedPcs
    BY <2>1 DEF CountedPcs
  <2>3. used >= call[c].bytes
    <3>1. PICK f, C : f = BytesIn(call) /\ C = CountedIn(call)
      OBVIOUS
    <3>2. c \in C /\ f[c] = call[c].bytes
      BY <2>2, <3>1 DEF CountedIn, BytesIn
    <3>3. IsFiniteSet(C) /\ \A x \in C : f[x] \in Nat
      BY <1>s, <1>t, <3>1, CountedAre
    <3>4. f[c] <= SumOf(f, C)
      BY <3>2, <3>3, SumHas
    <3> QED
      BY <1>f, <1>s, <3>1, <3>2, <3>4
  <2>4. PICK b, b1 \in Nat : b = call[c].bytes /\ b1 = call'[c].bytes
    BY <1>t
  <2>5. \/ used' = used - b /\ call'[c].pc \notin CountedPcs
        \/ used' = used /\ b1 = b /\ call'[c].pc \in CountedPcs
    BY <2>1, <2>3, <2>4 DEF CountedPcs
  <2>6. used' = used - (IF call[c].pc \in CountedPcs THEN b ELSE 0)
                     + (IF call'[c].pc \in CountedPcs THEN b1 ELSE 0)
    BY <1>t, <2>2, <2>5
  <2> QED
    BY <1>m, <2>1, <2>2, <2>4, <2>6
<1>7. CASE UNCHANGED vars
  BY <1>7 DEF vars, CounterInv
<1> QED
  BY <1>1, <1>2, <1>3, <1>4, <1>5, <1>6, <1>7 DEF Next, CallStep

\* The sum over the holders is that of the bytes they have.
LEMMA HoldersSum ==
  ASSUME call \in [Callers -> [pc : Pcs, bytes : 0 .. MaxInt, current : 0 .. MaxInt]]
  PROVE  MapThenSumSet(LAMBDA c : call[c].bytes, Holders) = SumOf(BytesIn(call), HeldIn(call))
<1>1. Holders = HeldIn(call)
  BY DEF Holders, HeldIn
<1>2. PICK H, f : H = HeldIn(call) /\ f = BytesIn(call)
  OBVIOUS
<1>3. \A s \in SUBSET H : s # {} => f[Chosen(s)] = call[Chosen(s)].bytes
  <2>1. \A x \in H : f[x] = call[x].bytes
    BY <1>2 DEF HeldIn, BytesIn
  <2> QED
    BY <2>1, ChosenIn
<1>4. MapThenSumSet(LAMBDA c : call[c].bytes, H) =
        (CHOOSE g : g = [s \in SUBSET H |->
            IF s = {} THEN 0 ELSE call[Chosen(s)].bytes + g[s \ {Chosen(s)}]])[H]
  BY DEF MapThenSumSet, MapThenFoldSet, Chosen
<1>5. \A g : [s \in SUBSET H |->
               IF s = {} THEN 0 ELSE call[Chosen(s)].bytes + g[s \ {Chosen(s)}]]
           = [s \in SUBSET H |-> IF s = {} THEN 0 ELSE f[Chosen(s)] + g[s \ {Chosen(s)}]]
  BY <1>3
<1>6. (CHOOSE g : g = [s \in SUBSET H |->
            IF s = {} THEN 0 ELSE call[Chosen(s)].bytes + g[s \ {Chosen(s)}]])
    = (CHOOSE g : g = [s \in SUBSET H |->
            IF s = {} THEN 0 ELSE f[Chosen(s)] + g[s \ {Chosen(s)}]])
  BY <1>5
<1>7. SumOf(f, H) = (CHOOSE g : g = [s \in SUBSET H |->
            IF s = {} THEN 0 ELSE f[Chosen(s)] + g[s \ {Chosen(s)}]])[H]
  BY SumIs DEF Sums
<1> QED
  BY <1>1, <1>2, <1>4, <1>6, <1>7

\* Whatever is granted together leaves the minimum free (TryReserve and Check
\* of DiskGuard).
THEOREM GrantsLeaveRoom == Spec => []GrantsLeaveMinFree
<1>1. Spec => []CounterInv
  <2>1. Init => ReservationsInv /\ CounterInv
    BY ReservationsInitInv, CounterInitInv
  <2>2. ReservationsInv /\ CounterInv /\ [Next]_vars => (ReservationsInv /\ CounterInv)'
    BY ReservationsNextInv, CounterNextInv
  <2> QED
    BY <2>1, <2>2, PTL DEF Spec
<1>2. ReservationsInv /\ CounterInv => GrantsLeaveMinFree
  <2> SUFFICES ASSUME ReservationsInv, CounterInv PROVE GrantsLeaveMinFree
    OBVIOUS
  <2>1. MapThenSumSet(LAMBDA c : call[c].bytes, Holders) = SumOf(BytesIn(call), HeldIn(call))
    BY HoldersSum DEF ReservationsInv, ReservationsTypeOK
  <2>2. Holders = HeldIn(call)
    BY DEF Holders, HeldIn
  <2> QED
    BY <2>1, <2>2 DEF CounterInv, GrantsLeaveMinFree
<1> QED
  BY <1>1, <1>2, ReservationsInvariance, PTL

-----------------------------------------------------------------------------
(* FileStore.  A file is in place as a whole or not at all, because only a *)
(* rename puts it there; from that on every call that ends has seen what   *)
(* it answers.                                                             *)
CallPcs == {"idle", "stat", "write", "again", "rename", "open", "remove",
            "stored", "opened", "deleted"}

EndedPcs == {"idle", "stored", "opened", "deleted"}

CallStates == [pc : CallPcs, block : Blocks \cup {"none"}, was : BOOLEAN, wasnt : BOOLEAN,
               got : {"none", "whole"}]

FileTypeOK ==
  /\ path \in [Blocks -> {"none", "whole"}]
  /\ temp \in SUBSET (Blocks \X BlockCalls)
  /\ storing \in [BlockCalls -> CallStates]
  /\ \A c \in BlockCalls : storing[c].pc # "idle" => Block(c) \in Blocks

FileInv == FileTypeOK /\ CallsActAtOnce

\* A call that has ended keeps its record, and every other one keeps it but
\* for what it notes, and for the place that the acting call goes on to.
LEMMA ProceedTakesNote ==
  ASSUME FileInv, path' \in [Blocks -> {"none", "whole"}],
         NEW c \in BlockCalls, storing[c].pc \notin EndedPcs,
         NEW pc \in CallPcs \ {"idle"}, NEW got \in {"none", "whole"}, Proceed(c, pc, got),
         pc = "stored" => storing[c].was \/ path'[Block(c)] = "whole",
         pc = "deleted" => storing[c].wasnt \/ path'[Block(c)] = "none"
  PROVE  /\ storing' \in [BlockCalls -> CallStates]
         /\ \A d \in BlockCalls : storing'[d].pc # "idle" => storing'[d].block \in Blocks
         /\ CallsActAtOnce'
<1>t. \A d \in BlockCalls : storing[d] \in CallStates
  BY DEF FileInv, FileTypeOK
<1>1. ASSUME NEW d \in BlockCalls
      PROVE  /\ storing'[d] \in CallStates
             /\ storing'[d].pc # "idle" => storing'[d].block \in Blocks
             /\ storing'[d].pc = "opened" => storing'[d].got \in {"none", "whole"}
             /\ storing'[d].pc = "stored" => storing'[d].was
             /\ storing'[d].pc = "deleted" => storing'[d].wasnt
  <2>1. CASE storing[d].pc \in EndedPcs
    <3>1. storing'[d] = storing[d]
      BY <2>1, <1>t DEF Proceed, EndedPcs
    <3> QED
      BY <3>1, <1>t DEF FileInv, FileTypeOK, CallsActAtOnce, Block
  <2>2. CASE d = c
    <3> DEFINE moved == [storing[c] EXCEPT !.pc = pc, !.got = got]
    <3>1. storing'[c] = [moved EXCEPT !.was = @ \/ path'[moved.block] = "whole",
                                      !.wasnt = @ \/ path'[moved.block] = "none"]
      BY DEF Proceed, EndedPcs
    <3>2. /\ storing'[c].pc = pc /\ storing'[c].block = storing[c].block /\ storing'[c].got = got
          /\ storing'[c].was <=> storing[c].was \/ path'[Block(c)] = "whole"
          /\ storing'[c].wasnt <=> storing[c].wasnt \/ path'[Block(c)] = "none"
      <4>1. /\ moved.pc = pc /\ moved.block = storing[c].block /\ moved.got = got
            /\ moved.was = storing[c].was /\ moved.wasnt = storing[c].wasnt /\ moved \in CallStates
        BY <1>t DEF CallStates
      <4> HIDE DEF moved
      <4> QED
        BY <3>1, <4>1 DEF CallStates, Block
    <3>3. storing'[c] \in CallStates
      <4>1. moved \in CallStates
        BY <1>t DEF CallStates
      <4> HIDE DEF moved
      <4> QED
        BY <3>1, <4>1 DEF CallStates
    <3> QED
      BY <2>2, <3>2, <3>3 DEF FileInv, FileTypeOK, Block, EndedPcs, CallStates
  <2>3. CASE d # c /\ storing[d].pc \notin EndedPcs
    <3>1. storing'[d] = [storing[d] EXCEPT !.was = @ \/ path'[Block(d)] = "whole",
                                           !.wasnt = @ \/ path'[Block(d)] = "none"]
      BY <2>3, <1>t DEF Proceed, EndedPcs, Block
    <3>2. storing'[d].pc = storing[d].pc /\ storing'[d].block = storing[d].block
      BY <3>1, <1>t DEF CallStates
    <3>3. storing'[d] \in CallStates
      BY <3>1, <1>t DEF CallStates
    <3> QED
      BY <2>3, <3>2, <3>3 DEF FileInv, FileTypeOK, Block, EndedPcs, CallStates
  <2> QED
    BY <2>1, <2>2, <2>3
<1>2. storing' = [d \in BlockCalls |-> storing'[d]]
  BY DEF Proceed
<1> QED
  BY <1>1, <1>2 DEF CallsActAtOnce

\* The invariant holds at the start.
LEMMA FileInitInv == FileInit => FileInv
BY DEF FileInit, FileInv, FileTypeOK, CallsActAtOnce, NoCall, Block, CallStates, CallPcs

\* Every file operation, failure and crash keeps the invariant.
LEMMA FileNextInv == FileInv /\ [FileNext]_fileVars => FileInv'
<1> SUFFICES ASSUME FileInv, [FileNext]_fileVars PROVE FileInv'
  OBVIOUS
<1>t. /\ path \in [Blocks -> {"none", "whole"}]
      /\ temp \in SUBSET (Blocks \X BlockCalls)
      /\ storing \in [BlockCalls -> CallStates]
      /\ \A c \in BlockCalls : storing[c].pc # "idle" => Block(c) \in Blocks
      /\ CallsActAtOnce
  BY DEF FileInv, FileTypeOK
<1>1. ASSUME NEW c \in BlockCalls, NEW b \in Blocks, NEW pc \in {"stat", "open", "remove"},
             BeginCall(c, b, pc)
      PROVE FileInv'
  BY <1>1, <1>t DEF BeginCall, FileInv, FileTypeOK, CallsActAtOnce, Block, CallStates, CallPcs
<1>2. ASSUME NEW c \in BlockCalls, Stat(c) PROVE FileInv'
  <2>1. storing[c].pc \notin EndedPcs /\ Block(c) \in Blocks
    BY <1>2, <1>t DEF Stat, EndedPcs
  <2> QED
    BY <1>2, <1>t, <2>1, ProceedTakesNote DEF Stat, FileInv, FileTypeOK, CallPcs, Block
<1>3. ASSUME NEW c \in BlockCalls, Write(c) PROVE FileInv'
  <2>1. storing[c].pc \notin EndedPcs /\ Block(c) \in Blocks
    BY <1>3, <1>t DEF Write, EndedPcs
  <2> QED
    BY <1>3, <1>t, <2>1, ProceedTakesNote DEF Write, FileInv, FileTypeOK, CallPcs, Block
<1>4. ASSUME NEW c \in BlockCalls, StatAgain(c) \/ StatAgainFails(c) PROVE FileInv'
  <2>1. storing[c].pc \notin EndedPcs /\ Block(c) \in Blocks
    BY <1>4, <1>t DEF StatAgain, StatAgainFails, EndedPcs
  <2> QED
    BY <1>4, <1>t, <2>1, ProceedTakesNote
       DEF StatAgain, StatAgainFails, FileInv, FileTypeOK, CallPcs, Block
<1>5. ASSUME NEW c \in BlockCalls, RenameIntoPlace(c) PROVE FileInv'
  <2>1. storing[c].pc \notin EndedPcs /\ Block(c) \in Blocks
    BY <1>5, <1>t DEF RenameIntoPlace, EndedPcs
  <2>2. path' \in [Blocks -> {"none", "whole"}] /\ path'[Block(c)] = "whole"
    BY <1>5, <1>t, <2>1 DEF RenameIntoPlace
  <2> QED
    BY <1>5, <1>t, <2>1, <2>2, ProceedTakesNote
       DEF RenameIntoPlace, FileInv, FileTypeOK, CallPcs, Block
<1>6. ASSUME NEW c \in BlockCalls, OpenBlock(c) PROVE FileInv'
  <2>1. storing[c].pc \notin EndedPcs /\ Block(c) \in Blocks
    BY <1>6, <1>t DEF OpenBlock, EndedPcs
  <2> QED
    BY <1>6, <1>t, <2>1, ProceedTakesNote DEF OpenBlock, FileInv, FileTypeOK, CallPcs, Block
<1>7. ASSUME NEW c \in BlockCalls, RemoveBlock(c) PROVE FileInv'
  <2>1. storing[c].pc \notin EndedPcs /\ Block(c) \in Blocks
    BY <1>7, <1>t DEF RemoveBlock, EndedPcs
  <2>2. path' \in [Blocks -> {"none", "whole"}] /\ path'[Block(c)] = "none"
    BY <1>7, <1>t, <2>1 DEF RemoveBlock
  <2> QED
    BY <1>7, <1>t, <2>1, <2>2, ProceedTakesNote
       DEF RemoveBlock, FileInv, FileTypeOK, CallPcs, Block
<1>8. ASSUME NEW c \in BlockCalls, CallFails(c) PROVE FileInv'
  <2>1. Block(c) \in Blocks
    BY <1>8, <1>t DEF CallFails
  <2>2. temp' \in SUBSET (Blocks \X BlockCalls)
    BY <1>8, <1>t, <2>1 DEF CallFails
  <2> QED
    BY <1>8, <1>t, <2>2 DEF CallFails, FileInv, FileTypeOK, CallsActAtOnce, NoCall, Block,
       CallStates, CallPcs
<1>9. CASE CrashStore
  BY <1>9, <1>t DEF CrashStore, FileInv, FileTypeOK, CallsActAtOnce, NoCall, Block, CallStates,
     CallPcs
<1>10. CASE UNCHANGED fileVars
  BY <1>10, <1>t DEF fileVars, FileInv, FileTypeOK, CallsActAtOnce, Block
<1> QED
  BY <1>1, <1>2, <1>3, <1>4, <1>5, <1>6, <1>7, <1>8, <1>9, <1>10 DEF FileNext

\* Readers get whole blocks and calls that succeed have seen what they answer,
\* however calls, failures and crashes meet.
THEOREM FileCallsActAtOnce == FileSpec => []CallsActAtOnce
<1>1. FileInv => CallsActAtOnce
  BY DEF FileInv
<1> QED
  BY <1>1, FileInitInv, FileNextInv, PTL DEF FileSpec

-----------------------------------------------------------------------------
(* Shards.  Every file has recorded the first so many versions; an opener  *)
(* knows a prefix of them, and the handle it works with is its own until   *)
(* it is in the map.                                                       *)
FirstVersions(n) == [i \in 1 .. n |-> i]

Opening == {"list", "migrate"}

OpeningStates == [pc : {"idle", "list", "migrate", "using"}, shard : ShardFiles \cup {"none"},
                  applied : SUBSET Versions, handle : Openers \cup {"none"}]

HandlesTypeOK ==
  /\ dbs \in [ShardFiles -> Openers \cup {"none"}]
  /\ open \in SUBSET (ShardFiles \X Openers)
  /\ opening \in [Openers -> OpeningStates]
  /\ \A o \in Openers : opening[o].pc # "idle" => Shard(o) \in ShardFiles

(* A handle that is being opened is not in the map: closing it takes       *)
(* nothing from those who use the one that is.                             *)
OpeningIsApart ==
  \A o \in Openers : opening[o].pc \in Opening =>
    <<Shard(o), o>> \in open /\ dbs[Shard(o)] # o

UsedIsOpen == \A o \in Openers : opening[o].pc = "using" => dbs[Shard(o)] # "none"

HandlesInv == HandlesTypeOK /\ OpeningIsApart /\ UsedIsOpen /\ OneHandlePerShard

VersionsAreAPrefix ==
  /\ DOMAIN schema = ShardFiles
  /\ \A s \in ShardFiles : \E n \in 0 .. Migrations :
       /\ schema[s] = FirstVersions(n)
       /\ dbs[s] # "none" => n = Migrations

AppliedIsAPrefix ==
  \A o \in Openers : opening[o].pc = "migrate" =>
    \E n \in Nat : opening[o].applied = 1 .. n /\ 1 .. n \subseteq ToSet(schema[Shard(o)])

ShardsInv == HandlesInv /\ VersionsAreAPrefix /\ AppliedIsAPrefix

\* There is a migration to apply.
LEMMA SomeMigrations == Migrations \in Nat \ {0}
BY ShardsAssumption

\* No opener is taken for the absence of a handle.
LEMMA NoneIsNoOpener == \A o \in Openers : o # "none"
BY ShardsAssumption

\* Recording the next version keeps the versions in order.
LEMMA NextVersion ==
  ASSUME NEW n \in Nat
  PROVE  /\ FirstVersions(n) \in Seq(Nat) /\ Len(FirstVersions(n)) = n
         /\ ToSet(FirstVersions(n)) = 1 .. n
         /\ Append(FirstVersions(n), n + 1) = FirstVersions(n + 1)
<1>1. FirstVersions(n) \in Seq(Nat) /\ Len(FirstVersions(n)) = n
  BY DEF FirstVersions
<1>2. ToSet(FirstVersions(n)) = 1 .. n
  BY DEF FirstVersions, ToSet
<1>3. Append(FirstVersions(n), n + 1) = FirstVersions(n + 1)
  BY <1>1 DEF FirstVersions
<1> QED
  BY <1>1, <1>2, <1>3

\* An opener that knows the first n versions misses first the one after them.
LEMMA FirstMissingAfterPrefix ==
  ASSUME NEW o \in Openers, NEW n \in Nat, opening[o].applied = 1 .. n
  PROVE  /\ Missing(o) # {} => n < Migrations /\ FirstMissing(o) = n + 1
         /\ Missing(o) = {} => n >= Migrations
<1> USE SomeMigrations
<1>1. Missing(o) = (n + 1) .. Migrations
  BY DEF Missing, Versions
<1>2. ASSUME Missing(o) # {} PROVE n < Migrations /\ FirstMissing(o) = n + 1
  <2>1. n + 1 \in Missing(o) /\ \A w \in Missing(o) : n + 1 <= w
    BY <1>1, <1>2
  <2>2. FirstMissing(o) \in Missing(o) /\ \A w \in Missing(o) : FirstMissing(o) <= w
    BY <2>1 DEF FirstMissing
  <2>3. FirstMissing(o) <= n + 1
    BY <2>1, <2>2
  <2>4. n + 1 \in (n + 1) .. Migrations /\ FirstMissing(o) \in (n + 1) .. Migrations
    BY <1>1, <2>1, <2>2
  <2> QED
    BY <2>3, <2>4
<1> QED
  BY <1>1, <1>2

\* The invariant holds at the start.
LEMMA ShardsInitInv == ShardsInit => ShardsInv
<1> SUFFICES ASSUME ShardsInit PROVE ShardsInv
  OBVIOUS
<1>1. HandlesInv
  <2>1. NotOpening \in OpeningStates /\ NotOpening.pc = "idle"
    BY DEF NotOpening, OpeningStates
  <2> QED
    BY <2>1 DEF ShardsInit, HandlesInv, HandlesTypeOK, OpeningIsApart, UsedIsOpen,
       OneHandlePerShard, Opening
<1>2. VersionsAreAPrefix
  <2>1. \A s \in ShardFiles : schema[s] = FirstVersions(0) /\ dbs[s] = "none"
    <3>1. FirstVersions(0) = <<>>
      BY DEF FirstVersions
    <3> QED
      BY <3>1 DEF ShardsInit
  <2>2. 0 \in 0 .. Migrations /\ DOMAIN schema = ShardFiles
    BY SomeMigrations DEF ShardsInit
  <2>3. ASSUME NEW s \in ShardFiles
        PROVE  \E n \in 0 .. Migrations :
                 schema[s] = FirstVersions(n) /\ (dbs[s] # "none" => n = Migrations)
    BY <2>1, <2>2
  <2> QED
    BY <2>2, <2>3 DEF VersionsAreAPrefix
<1>3. AppliedIsAPrefix
  BY DEF ShardsInit, AppliedIsAPrefix, NotOpening
<1> QED
  BY <1>1, <1>2, <1>3 DEF ShardsInv

\* An opener that goes on to r, opens or closes no handle but its own and
\* registers it only where there is none, leaves the others in order.
LEMMA OpenerGoesOn ==
  ASSUME HandlesInv, NEW o \in Openers, NEW r \in OpeningStates,
         opening' = [opening EXCEPT ![o] = r], r.pc # "idle" => r.shard \in ShardFiles,
         dbs' \in [ShardFiles -> Openers \cup {"none"}], open' \in SUBSET (ShardFiles \X Openers),
         r.pc \in Opening => <<r.shard, o>> \in open' /\ dbs'[r.shard] # o,
         r.pc = "using" => dbs'[r.shard] # "none" /\ r.handle = dbs'[r.shard],
         \A s \in ShardFiles :
           /\ dbs'[s] = dbs[s] \/ (dbs[s] = "none" /\ dbs'[s] = o)
           /\ dbs'[s] = o => <<s, o>> \in open'
           /\ <<s, o>> \in open' => dbs'[s] = o \/ (r.pc \in Opening /\ r.shard = s)
           /\ \A p \in Openers \ {o} : <<s, p>> \in open' <=> <<s, p>> \in open
  PROVE  HandlesInv'
<1> USE NoneIsNoOpener
<1>t. HandlesTypeOK /\ OpeningIsApart /\ UsedIsOpen /\ OneHandlePerShard
  BY DEF HandlesInv
<1>1. opening'[o] = r /\ \A p \in Openers \ {o} : opening'[p] = opening[p]
  BY <1>t DEF HandlesTypeOK
<1>2. HandlesTypeOK'
  BY <1>t, <1>1 DEF HandlesTypeOK, Shard
<1>3. ASSUME NEW p \in Openers, opening'[p].pc \in Opening
      PROVE  <<opening'[p].shard, p>> \in open' /\ dbs'[opening'[p].shard] # p
  <2>1. CASE p = o
    BY <1>1, <1>3, <2>1
  <2>2. CASE p # o
    <3>1. opening'[p] = opening[p] /\ Shard(p) \in ShardFiles
      BY <1>t, <1>1, <1>3, <2>2 DEF HandlesTypeOK, Opening
    <3>2. <<Shard(p), p>> \in open /\ dbs[Shard(p)] # p
      BY <1>t, <1>3, <3>1 DEF OpeningIsApart
    <3>3. <<Shard(p), p>> \in open' /\ dbs'[Shard(p)] # p
      BY <2>2, <3>1, <3>2
    <3> QED
      BY <3>1, <3>3 DEF Shard
  <2> QED
    BY <2>1, <2>2
<1>4. ASSUME NEW p \in Openers, opening'[p].pc = "using"
      PROVE  /\ dbs'[opening'[p].shard] # "none"
             /\ opening'[p].handle = dbs'[opening'[p].shard]
  <2>1. CASE p = o
    BY <1>1, <1>4, <2>1
  <2>2. CASE p # o
    <3>1. opening'[p] = opening[p] /\ Shard(p) \in ShardFiles
      BY <1>t, <1>1, <1>4, <2>2 DEF HandlesTypeOK
    <3>2. dbs[Shard(p)] # "none" /\ opening[p].handle = dbs[Shard(p)]
      BY <1>t, <1>4, <3>1 DEF UsedIsOpen, OneHandlePerShard
    <3>3. dbs'[Shard(p)] = dbs[Shard(p)]
      BY <3>1, <3>2
    <3> QED
      BY <3>1, <3>2, <3>3 DEF Shard
  <2> QED
    BY <2>1, <2>2
<1>5. ASSUME NEW h \in open'
      PROVE  dbs'[h[1]] = h[2] \/ (opening'[h[2]].pc \in {"list", "migrate"} /\ opening'[h[2]].shard = h[1])
  <2>1. PICK s \in ShardFiles, p \in Openers : h = <<s, p>>
    OBVIOUS
  <2>2. CASE p = o
    BY <1>1, <2>1, <2>2 DEF Opening
  <2>3. CASE p # o
    <3>1. opening'[p] = opening[p] /\ <<s, p>> \in open
      BY <1>1, <2>1, <2>3
    <3>2. dbs[s] = p \/ (opening[p].pc \in {"list", "migrate"} /\ opening[p].shard = s)
      BY <1>t, <3>1 DEF OneHandlePerShard, Shard
    <3>3. dbs[s] = p => dbs'[s] = p
      BY NoneIsNoOpener
    <3> QED
      BY <2>1, <3>1, <3>2, <3>3
  <2> QED
    BY <2>2, <2>3
<1>6. ASSUME NEW s \in ShardFiles, dbs'[s] # "none" PROVE <<s, dbs'[s]>> \in open'
  BY <1>t, <1>6 DEF HandlesTypeOK, OneHandlePerShard
<1> QED
  BY <1>2, <1>3, <1>4, <1>5, <1>6
     DEF HandlesInv, OpeningIsApart, UsedIsOpen, OneHandlePerShard, Shard

\* Every step of an opener, every failure and every restart keeps what holds
\* of the handles, whatever the files have recorded.
LEMMA HandlesNextInv ==
  ASSUME HandlesInv, [ShardsNext]_shardVars, 
         \A o \in Openers : opening'[o].applied \subseteq Versions
  PROVE HandlesInv'
<1> USE NoneIsNoOpener
<1>t. HandlesTypeOK /\ OpeningIsApart /\ UsedIsOpen /\ OneHandlePerShard
  BY DEF HandlesInv
<1>h. /\ dbs \in [ShardFiles -> Openers \cup {"none"}]
      /\ \A z \in ShardFiles, p \in Openers : dbs[z] = p => <<z, p>> \in open
  BY <1>t DEF HandlesTypeOK, OneHandlePerShard
<1>1. ASSUME NEW o \in Openers, NEW s \in ShardFiles, LookUp(o, s) PROVE HandlesInv'
  <2> DEFINE r == [NotOpening EXCEPT !.pc = IF dbs[s] = "none" THEN "list" ELSE "using",
                                     !.shard = s, !.handle = dbs[s]]
  <2>1. /\ opening' = [opening EXCEPT ![o] = r] /\ dbs' = dbs
        /\ open' = IF dbs[s] = "none" THEN open \cup {<<s, o>>} ELSE open
    BY <1>1 DEF LookUp
  <2>2. /\ r.pc = IF dbs[s] = "none" THEN "list" ELSE "using"
        /\ r.shard = s /\ r.handle = dbs[s] /\ r \in OpeningStates
    BY <1>t DEF HandlesTypeOK, OpeningStates, NotOpening
  <2>3. \A z \in ShardFiles : <<z, o>> \in open => dbs[z] = o
    BY <1>1, <1>t DEF LookUp, OneHandlePerShard
  <2> HIDE DEF r
  <2>4. CASE dbs[s] = "none"
    <3>1. open' \in SUBSET (ShardFiles \X Openers) /\ open' = open \cup {<<s, o>>}
      BY <1>t, <2>1, <2>4 DEF HandlesTypeOK
    <3>2. r.pc = "list" /\ dbs[s] # o
      BY <2>2, <2>4
    <3> QED
      BY <1>h, <2>1, <2>2, <2>3, <3>1, <3>2, OpenerGoesOn, ZenonT(60) DEF Opening
  <2>5. CASE dbs[s] # "none"
    BY <1>t, <2>1, <2>2, <2>3, <2>5, OpenerGoesOn DEF HandlesTypeOK, OneHandlePerShard, Opening
  <2> QED
    BY <2>4, <2>5
<1>2. ASSUME NEW o \in Openers, ListApplied(o) \/ ApplyMigration(o) PROVE HandlesInv'
  <2> DEFINE r == [opening[o] EXCEPT !.pc = "migrate", !.applied = opening'[o].applied]
  <2>1. UNCHANGED <<dbs, open>> /\ opening[o].pc \in Opening /\ Shard(o) \in ShardFiles
    BY <1>2, <1>t DEF ListApplied, ApplyMigration, Migrate, HandlesTypeOK, Opening
  <2>2. opening' = [opening EXCEPT ![o] = r]
    <3>1. CASE ListApplied(o)
      BY <1>t, <3>1 DEF ListApplied, HandlesTypeOK, OpeningStates
    <3>2. CASE ApplyMigration(o)
      BY <1>t, <3>2 DEF ApplyMigration, Migrate, HandlesTypeOK, OpeningStates
    <3> QED
      BY <1>2, <3>1, <3>2
  <2>3. /\ r.pc = "migrate" /\ r.shard = Shard(o) /\ r.handle = opening[o].handle
        /\ r \in OpeningStates
    BY <1>t, <2>1 DEF HandlesTypeOK, OpeningStates, Shard
  <2>4. /\ <<Shard(o), o>> \in open /\ dbs[Shard(o)] # o
        /\ \A z \in ShardFiles : <<z, o>> \in open => dbs[z] = o \/ z = Shard(o)
    BY <1>t, <2>1 DEF OpeningIsApart, OneHandlePerShard
  <2> HIDE DEF r
  <2>5. open' \in SUBSET (ShardFiles \X Openers)
    BY <1>t, <2>1 DEF HandlesTypeOK
  <2> QED
    BY <1>h, <2>1, <2>2, <2>3, <2>4, <2>5, OpenerGoesOn DEF Opening
<1>3. ASSUME NEW o \in Openers, MigrationRefused(o) \/ OpenFails(o) PROVE HandlesInv'
  <2>1. opening[o].pc \in Opening /\ CloseAndFail(o)
    BY <1>3 DEF MigrationRefused, OpenFails, Opening
  <2>2. NotOpening \in OpeningStates /\ NotOpening.pc = "idle"
    BY DEF NotOpening, OpeningStates
  <2>3. /\ dbs[Shard(o)] # o
        /\ \A z \in ShardFiles : <<z, o>> \in open => dbs[z] = o \/ z = Shard(o)
    BY <1>t, <2>1 DEF OpeningIsApart, OneHandlePerShard
  <2> QED
    BY <1>t, <2>1, <2>2, <2>3, OpenerGoesOn
       DEF CloseAndFail, HandlesTypeOK, OneHandlePerShard, Opening
<1>4. ASSUME NEW o \in Openers, Register(o) PROVE HandlesInv'
  <2> DEFINE r == [opening[o] EXCEPT !.pc = "using", !.handle = dbs'[Shard(o)]]
  <2>1. opening[o].pc \in Opening /\ Shard(o) \in ShardFiles
    BY <1>4, <1>t DEF Register, HandlesTypeOK, Opening
  <2>2. dbs' \in [ShardFiles -> Openers \cup {"none"}] /\ dbs'[Shard(o)] # "none"
    BY <1>4, <1>t, <2>1, NoneIsNoOpener DEF Register, HandlesTypeOK
  <2>3. opening' = [opening EXCEPT ![o] = r]
    BY <1>4, <1>t DEF Register, HandlesTypeOK, OpeningStates
  <2>4. r.pc = "using" /\ r.shard = Shard(o) /\ r.handle = dbs'[Shard(o)] /\ r \in OpeningStates
    BY <1>t, <2>1, <2>2 DEF HandlesTypeOK, OpeningStates, Shard
  <2>5. /\ <<Shard(o), o>> \in open /\ dbs[Shard(o)] # o
        /\ \A z \in ShardFiles : <<z, o>> \in open => dbs[z] = o \/ z = Shard(o)
    BY <1>t, <2>1 DEF OpeningIsApart, OneHandlePerShard
  <2>6. CASE dbs[Shard(o)] = "none"
    <3>1. dbs' = [dbs EXCEPT ![Shard(o)] = o] /\ open' = open
      BY <1>4, <2>6 DEF Register
    <3>2. open' \in SUBSET (ShardFiles \X Openers)
      BY <1>t, <3>1 DEF HandlesTypeOK
    <3> HIDE DEF r
    <3> QED
      BY <1>h, <2>1, <2>2, <2>3, <2>4, <2>5, <2>6, <3>1, <3>2, OpenerGoesOn, ZenonT(60) DEF Opening
  <2>7. CASE dbs[Shard(o)] # "none"
    <3>1. dbs' = dbs /\ open' = open \ {<<Shard(o), o>>}
      BY <1>4, <1>t, <2>7 DEF Register, HandlesTypeOK
    <3>2. open' \in SUBSET (ShardFiles \X Openers)
      BY <1>t, <3>1 DEF HandlesTypeOK
    <3> HIDE DEF r
    <3> QED
      BY <1>h, <2>1, <2>2, <2>3, <2>4, <2>5, <2>7, <3>1, <3>2, OpenerGoesOn DEF Opening
  <2> QED
    BY <2>6, <2>7
<1>5. ASSUME NEW o \in Openers, Done(o) PROVE HandlesInv'
  <2>1. NotOpening \in OpeningStates /\ NotOpening.pc = "idle"
    BY DEF NotOpening, OpeningStates
  <2>2. \A z \in ShardFiles : <<z, o>> \in open => dbs[z] = o
    BY <1>5, <1>t DEF Done, OneHandlePerShard
  <2>3. open \in SUBSET (ShardFiles \X Openers)
    BY <1>t DEF HandlesTypeOK
  <2> QED
    BY <1>5, <1>h, <2>1, <2>2, <2>3, OpenerGoesOn DEF Done, Opening
<1>6. CASE RestartStore
  <2>1. NotOpening \in OpeningStates /\ NotOpening.pc = "idle"
    BY DEF NotOpening, OpeningStates
  <2> QED
    BY <1>6, <2>1 DEF RestartStore, HandlesInv, HandlesTypeOK, OpeningIsApart, UsedIsOpen,
       OneHandlePerShard, Opening, Shard
<1>7. CASE UNCHANGED shardVars
  BY <1>7, <1>t DEF shardVars, HandlesInv, HandlesTypeOK, OpeningIsApart, UsedIsOpen,
     OneHandlePerShard, Opening, Shard
<1> QED
  BY <1>1, <1>2, <1>3, <1>4, <1>5, <1>6, <1>7 DEF ShardsNext

\* What the files have recorded, and what openers know of it, stays a prefix.
LEMMA VersionsNextInv ==
  ASSUME ShardsInv, [ShardsNext]_shardVars
  PROVE  /\ VersionsAreAPrefix' /\ AppliedIsAPrefix'
         /\ \A o \in Openers : opening'[o].applied \subseteq Versions
<1>t. HandlesInv /\ HandlesTypeOK /\ VersionsAreAPrefix /\ AppliedIsAPrefix
  BY DEF ShardsInv, HandlesInv
<1>a. \A o \in Openers : opening[o].applied \subseteq Versions
  BY <1>t DEF HandlesTypeOK, OpeningStates
<1>s. ASSUME NEW s \in ShardFiles
      PROVE  \E n \in 0 .. Migrations :
               schema[s] = FirstVersions(n) /\ Len(schema[s]) = n /\ ToSet(schema[s]) = 1 .. n
  <2>1. PICK n \in 0 .. Migrations : schema[s] = FirstVersions(n)
    BY <1>t DEF VersionsAreAPrefix
  <2>2. n \in Nat /\ Len(schema[s]) = n /\ ToSet(schema[s]) = 1 .. n
    BY <2>1, SomeMigrations, NextVersion
  <2> QED
    BY <2>1, <2>2
<1>q. ASSUME schema' = schema, dbs' = dbs,
             NEW o \in Openers, NEW r, opening' = [opening EXCEPT ![o] = r], r.pc # "migrate",
             r.applied \subseteq Versions
      PROVE  /\ VersionsAreAPrefix' /\ AppliedIsAPrefix'
             /\ \A p \in Openers : opening'[p].applied \subseteq Versions
  <2>1. opening'[o] = r /\ \A p \in Openers \ {o} : opening'[p] = opening[p]
    BY <1>t, <1>q DEF HandlesTypeOK
  <2>2. VersionsAreAPrefix'
    BY <1>t, <1>q DEF VersionsAreAPrefix
  <2>3. AppliedIsAPrefix'
    BY <1>t, <1>q, <2>1 DEF AppliedIsAPrefix, Shard
  <2> QED
    BY <1>a, <1>q, <2>1, <2>2, <2>3
<1>n. NotOpening.pc = "idle" /\ NotOpening.applied = {}
  BY DEF NotOpening
<1>1. ASSUME NEW o \in Openers, NEW s \in ShardFiles, LookUp(o, s)
      PROVE  /\ VersionsAreAPrefix' /\ AppliedIsAPrefix'
             /\ \A p \in Openers : opening'[p].applied \subseteq Versions
  <2> DEFINE r == [NotOpening EXCEPT !.pc = IF dbs[s] = "none" THEN "list" ELSE "using",
                                     !.shard = s, !.handle = dbs[s]]
  <2>1. opening' = [opening EXCEPT ![o] = r] /\ dbs' = dbs /\ schema' = schema
    BY <1>1 DEF LookUp
  <2>2. r.pc # "migrate" /\ r.applied \subseteq Versions
    BY DEF NotOpening
  <2> HIDE DEF r
  <2> QED
    BY <1>q, <2>1, <2>2
<1>2. ASSUME NEW o \in Openers, ListApplied(o)
      PROVE  /\ VersionsAreAPrefix' /\ AppliedIsAPrefix'
             /\ \A p \in Openers : opening'[p].applied \subseteq Versions
  <2>1. Shard(o) \in ShardFiles
    BY <1>2, <1>t DEF ListApplied, HandlesTypeOK
  <2>2. PICK n \in 0 .. Migrations : ToSet(schema[Shard(o)]) = 1 .. n
    BY <1>s, <2>1
  <2>3. /\ opening'[o].applied = 1 .. n /\ opening'[o].shard = Shard(o)
        /\ \A p \in Openers \ {o} : opening'[p] = opening[p]
    BY <1>2, <1>t, <2>2 DEF ListApplied, HandlesTypeOK, OpeningStates, Shard
  <2>4. n \in Nat /\ 1 .. n \subseteq Versions
    BY SomeMigrations DEF Versions
  <2>5. VersionsAreAPrefix'
    BY <1>2, <1>t DEF ListApplied, VersionsAreAPrefix
  <2>6. AppliedIsAPrefix'
    <3>1. ASSUME NEW p \in Openers, opening'[p].pc = "migrate"
          PROVE  \E m \in Nat : /\ opening'[p].applied = 1 .. m
                                /\ 1 .. m \subseteq ToSet(schema[opening'[p].shard])
      <4>1. CASE p = o
        BY <2>2, <2>3, <2>4, <4>1
      <4>2. CASE p # o
        BY <1>t, <2>3, <3>1, <4>2 DEF AppliedIsAPrefix, Shard
      <4> QED
        BY <4>1, <4>2
    <3> QED
      BY <1>2, <3>1 DEF ListApplied, AppliedIsAPrefix, Shard
  <2> QED
    BY <1>a, <2>3, <2>4, <2>5, <2>6
<1>3. ASSUME NEW o \in Openers, ApplyMigration(o)
      PROVE  /\ VersionsAreAPrefix' /\ AppliedIsAPrefix'
             /\ \A p \in Openers : opening'[p].applied \subseteq Versions
  <2>1. Shard(o) \in ShardFiles
    BY <1>3, <1>t DEF ApplyMigration, HandlesTypeOK
  <2>2. PICK n \in 0 .. Migrations : schema[Shard(o)] = FirstVersions(n) /\ ToSet(schema[Shard(o)]) = 1 .. n
    BY <1>s, <2>1
  <2>3. PICK k \in Nat : opening[o].applied = 1 .. k /\ 1 .. k \subseteq 1 .. n
    BY <1>3, <1>t, <2>2 DEF ApplyMigration, AppliedIsAPrefix
  <2>4. n \in Nat /\ n < Migrations /\ FirstMissing(o) = n + 1
    <3>1. k < Migrations /\ FirstMissing(o) = k + 1
      BY <1>3, <2>3, FirstMissingAfterPrefix DEF ApplyMigration
    <3>2. k <= n
      <4>1. CASE k = 0
        BY <4>1, SomeMigrations
      <4>2. CASE k # 0
        <5>1. k \in 1 .. k
          BY <4>2
        <5>2. k \in 1 .. n
          BY <2>3, <5>1
        <5> QED
          BY <5>2
      <4> QED
        BY <4>1, <4>2
    <3>3. k + 1 \notin 1 .. n
      BY <1>3, <2>2, <3>1 DEF ApplyMigration
    <3> QED
      BY <3>1, <3>2, <3>3, SomeMigrations
  <2>5. schema' = [schema EXCEPT ![Shard(o)] = FirstVersions(n + 1)]
    BY <1>3, <2>2, <2>4, NextVersion DEF ApplyMigration, Migrate
  <2>6. /\ opening'[o].applied = opening[o].applied \cup {n + 1} /\ opening'[o].shard = Shard(o)
        /\ \A p \in Openers \ {o} : opening'[p] = opening[p]
        /\ dbs' = dbs
    BY <1>3, <1>t, <2>4 DEF ApplyMigration, Migrate, HandlesTypeOK, OpeningStates, Shard
  <2>7. n + 1 \in 0 .. Migrations /\ n + 1 \in Versions /\ ToSet(FirstVersions(n + 1)) = 1 .. (n + 1)
    BY <2>4, SomeMigrations, NextVersion DEF Versions
  <2>8. dbs[Shard(o)] = "none"
    <3>1. PICK m \in 0 .. Migrations :
            schema[Shard(o)] = FirstVersions(m) /\ (dbs[Shard(o)] # "none" => m = Migrations)
      BY <1>t, <2>1 DEF VersionsAreAPrefix
    <3>2. m = n
      <4>1. m \in Nat /\ n \in Nat
        BY <2>4, SomeMigrations
      <4>2. Len(FirstVersions(m)) = m /\ Len(FirstVersions(n)) = n
        BY <4>1, NextVersion
      <4>3. FirstVersions(m) = FirstVersions(n)
        BY <2>2, <3>1
      <4> QED
        BY <4>2, <4>3
    <3> QED
      BY <2>4, <3>1, <3>2
  <2>9. VersionsAreAPrefix'
    <3>1. ASSUME NEW s \in ShardFiles
          PROVE  \E m \in 0 .. Migrations :
                   schema'[s] = FirstVersions(m) /\ (dbs[s] # "none" => m = Migrations)
      <4>1. CASE s = Shard(o)
        BY <1>t, <2>1, <2>5, <2>7, <2>8, <4>1 DEF VersionsAreAPrefix
      <4>2. CASE s # Shard(o)
        <5>1. schema'[s] = schema[s]
          BY <1>t, <2>5, <4>2 DEF VersionsAreAPrefix
        <5> QED
          BY <1>t, <5>1 DEF VersionsAreAPrefix
      <4> QED
        BY <4>1, <4>2
    <3> QED
      BY <1>t, <2>5, <2>6, <3>1 DEF VersionsAreAPrefix
  <2>10. \A s \in ShardFiles : ToSet(schema[s]) \subseteq ToSet(schema'[s])
    <3> SUFFICES ASSUME NEW s \in ShardFiles PROVE ToSet(schema[s]) \subseteq ToSet(schema'[s])
      OBVIOUS
    <3>1. CASE s = Shard(o)
      <4>1. 1 .. n \subseteq 1 .. (n + 1)
        BY <2>4
      <4> QED
        BY <1>t, <2>1, <2>2, <2>5, <2>7, <3>1, <4>1 DEF VersionsAreAPrefix
    <3>2. CASE s # Shard(o)
      BY <1>t, <2>5, <3>2 DEF VersionsAreAPrefix
    <3> QED
      BY <3>1, <3>2
  <2>11. AppliedIsAPrefix'
    <3>1. ASSUME NEW p \in Openers, opening'[p].pc = "migrate"
          PROVE  \E m \in Nat : /\ opening'[p].applied = 1 .. m
                                /\ 1 .. m \subseteq ToSet(schema'[opening'[p].shard])
      <4>1. CASE p = o
        <5>1. k = n
          <6>1. k < Migrations /\ FirstMissing(o) = k + 1
            BY <1>3, <2>3, FirstMissingAfterPrefix DEF ApplyMigration
          <6> QED
            BY <2>4, <6>1
        <5>2. opening'[o].applied = 1 .. (n + 1)
          BY <2>3, <2>4, <2>6, <5>1
        <5>3. ToSet(schema'[Shard(o)]) = 1 .. (n + 1)
          BY <1>t, <2>1, <2>5, <2>7 DEF VersionsAreAPrefix
        <5> QED
          BY <2>4, <2>6, <4>1, <5>2, <5>3
      <4>2. CASE p # o
        <5>1. opening'[p] = opening[p] /\ Shard(p) \in ShardFiles
          BY <1>t, <2>6, <3>1, <4>2 DEF HandlesTypeOK
        <5>2. PICK m \in Nat : opening[p].applied = 1 .. m /\ 1 .. m \subseteq ToSet(schema[Shard(p)])
          BY <1>t, <3>1, <5>1 DEF AppliedIsAPrefix
        <5> QED
          BY <2>10, <5>1, <5>2 DEF Shard
      <4> QED
        BY <4>1, <4>2
    <3> QED
      BY <3>1 DEF AppliedIsAPrefix, Shard
  <2> QED
    BY <1>a, <2>6, <2>7, <2>9, <2>11
<1>4. ASSUME NEW o \in Openers, MigrationRefused(o) \/ OpenFails(o)
      PROVE  /\ VersionsAreAPrefix' /\ AppliedIsAPrefix'
             /\ \A p \in Openers : opening'[p].applied \subseteq Versions
  <2>1. opening' = [opening EXCEPT ![o] = NotOpening] /\ dbs' = dbs /\ schema' = schema
    BY <1>4 DEF MigrationRefused, OpenFails, CloseAndFail
  <2> QED
    BY <1>q, <1>n, <2>1
<1>5. ASSUME NEW o \in Openers, Register(o)
      PROVE  /\ VersionsAreAPrefix' /\ AppliedIsAPrefix'
             /\ \A p \in Openers : opening'[p].applied \subseteq Versions
  <2>1. Shard(o) \in ShardFiles
    BY <1>5, <1>t DEF Register, HandlesTypeOK
  <2>2. PICK n \in 0 .. Migrations : schema[Shard(o)] = FirstVersions(n) /\ ToSet(schema[Shard(o)]) = 1 .. n
    BY <1>s, <2>1
  <2>3. n = Migrations
    <3>1. PICK k \in Nat : opening[o].applied = 1 .. k /\ 1 .. k \subseteq 1 .. n
      BY <1>5, <1>t, <2>2 DEF Register, AppliedIsAPrefix
    <3>2. k >= Migrations
      BY <1>5, <3>1, FirstMissingAfterPrefix DEF Register
    <3>3. k \in 1 .. k
      BY <3>2, SomeMigrations
    <3>4. k \in 1 .. n
      BY <3>1, <3>3
    <3> QED
      BY <3>2, <3>4, SomeMigrations
  <2>4. \A s \in ShardFiles : dbs'[s] # dbs[s] => s = Shard(o)
    BY <1>5, <1>t DEF Register, HandlesTypeOK
  <2>5. VersionsAreAPrefix'
    <3>1. ASSUME NEW s \in ShardFiles
          PROVE  \E m \in 0 .. Migrations :
                   schema[s] = FirstVersions(m) /\ (dbs'[s] # "none" => m = Migrations)
      <4>1. CASE s = Shard(o)
        BY <2>2, <2>3, <4>1
      <4>2. CASE s # Shard(o)
        BY <1>t, <2>4, <4>2 DEF VersionsAreAPrefix
      <4> QED
        BY <4>1, <4>2
    <3> QED
      BY <1>5, <1>t, <3>1 DEF Register, VersionsAreAPrefix
  <2>6. /\ opening'[o].pc = "using" /\ opening'[o].applied = opening[o].applied
        /\ \A p \in Openers \ {o} : opening'[p] = opening[p]
    BY <1>5, <1>t DEF Register, HandlesTypeOK, OpeningStates
  <2>7. AppliedIsAPrefix'
    BY <1>5, <1>t, <2>6 DEF Register, AppliedIsAPrefix, Shard
  <2> QED
    BY <1>a, <2>5, <2>6, <2>7
<1>6. ASSUME NEW o \in Openers, Done(o)
      PROVE  /\ VersionsAreAPrefix' /\ AppliedIsAPrefix'
             /\ \A p \in Openers : opening'[p].applied \subseteq Versions
  <2>1. opening' = [opening EXCEPT ![o] = NotOpening] /\ dbs' = dbs /\ schema' = schema
    BY <1>6 DEF Done
  <2> QED
    BY <1>q, <1>n, <2>1
<1>7. CASE RestartStore
  <2>1. \A s \in ShardFiles : dbs'[s] = "none"
    BY <1>7 DEF RestartStore
  <2>2. \A p \in Openers : opening'[p] = NotOpening
    BY <1>7 DEF RestartStore
  <2>3. VersionsAreAPrefix'
    BY <1>7, <1>t, <2>1 DEF RestartStore, VersionsAreAPrefix
  <2>4. AppliedIsAPrefix'
    BY <1>n, <2>2 DEF AppliedIsAPrefix
  <2> QED
    BY <1>n, <2>2, <2>3, <2>4
<1>8. CASE UNCHANGED shardVars
  BY <1>8, <1>t, <1>a DEF shardVars, VersionsAreAPrefix, AppliedIsAPrefix, Shard
<1> QED
  BY <1>1, <1>2, <1>3, <1>4, <1>5, <1>6, <1>7, <1>8 DEF ShardsNext

\* Requests find one handle to one complete schema, whoever else opens the
\* shard and wherever an opening stopped.
THEOREM ShardsStaySound == ShardsSpec => []ShardsAreSound
<1>1. ShardsInv /\ [ShardsNext]_shardVars => ShardsInv'
  BY HandlesNextInv, VersionsNextInv DEF ShardsInv
<1>2. ShardsInv => ShardsAreSound
  <2> SUFFICES ASSUME ShardsInv PROVE ShardsAreSound
    OBVIOUS
  <2>1. ASSUME NEW s \in ShardFiles
        PROVE  /\ schema[s] = [i \in 1 .. Len(schema[s]) |-> i]
               /\ dbs[s] # "none" => Len(schema[s]) = Migrations
    <3>1. PICK n \in 0 .. Migrations :
            schema[s] = FirstVersions(n) /\ (dbs[s] # "none" => n = Migrations)
      BY DEF ShardsInv, VersionsAreAPrefix
    <3>2. Len(schema[s]) = n
      BY <3>1, NextVersion, SomeMigrations
    <3> QED
      BY <3>1, <3>2 DEF FirstVersions
  <2> QED
    BY <2>1 DEF ShardsInv, HandlesInv, ShardsAreSound, MigratedInOrder
<1> QED
  BY <1>1, <1>2, ShardsInitInv, PTL DEF ShardsSpec

-----------------------------------------------------------------------------
(* Tenants.  A shard belongs to one tenant, and the name of its file gives *)
(* the same shard and, when it is also the name of the tenant's directory, *)
(* the same directory.                                                     *)
SafeNames == Seq(SafeLetters) \ {<<>>}

\* The name of a file is kept by both ways to make names safe.
LEMMA SafeNamesStay ==
  ASSUME NEW t \in SafeNames
  PROVE  SafeTenantID(t) = t /\ sanitizePathPart(t) = t
<1>1. t \in Seq(SafeLetters) /\ t # <<>>
  BY DEF SafeNames
<1>2. ToSet(t) \subseteq SafeLetters /\ \A i \in DOMAIN t : t[i] \in SafeLetters
  BY <1>1 DEF ToSet
<1>3. t = [i \in DOMAIN t |-> IF t[i] \in SafeLetters THEN t[i] ELSE "_"]
  <2>1. t = [i \in DOMAIN t |-> t[i]]
    BY <1>1
  <2>2. \A i \in DOMAIN t : t[i] = IF t[i] \in SafeLetters THEN t[i] ELSE "_"
    BY <1>2
  <2> QED
    BY <2>1, <2>2, Zenon
<1>4. SafeTenantID(t) = t
  BY <1>1, <1>2, Zenon DEF SafeTenantID
<1>5. sanitizePathPart(t) = t
  BY <1>1, <1>3, Zenon DEF sanitizePathPart
<1> QED
  BY <1>4, <1>5

\* The name of the default tenant is safe.
LEMMA DefaultIsSafe == DefaultName \in SafeNames
BY TenantsAssumption DEF SafeNames

\* The shard of a tenant is the default one, its own name, or its digest.
LEMMA TenantIDs ==
  ASSUME NEW n \in TenantNames
  PROVE  /\ SafeTenantID(n) \in SafeNames
         /\ \/ n = <<>> /\ n \notin Replaced /\ SafeTenantID(n) = DefaultName
            \/ n # <<>> /\ n \notin Replaced /\ SafeTenantID(n) = n
            \/ n # <<>> /\ n \in Replaced /\ SafeTenantID(n) = Digest[n]
<1>1. CASE n = <<>>
  <2>1. ToSet(n) \subseteq SafeLetters
    BY <1>1 DEF ToSet
  <2> QED
    BY <1>1, <2>1, DefaultIsSafe DEF SafeTenantID, Replaced
<1>2. CASE n # <<>> /\ ToSet(n) \subseteq SafeLetters
  <2>1. n \in Seq(ToSet(n))
    BY TenantsAssumption
  <2>2. n \in Seq(SafeLetters)
    BY <1>2, <2>1
  <2> QED
    BY <1>2, <2>2 DEF SafeTenantID, SafeNames, Replaced
<1>3. CASE n # <<>> /\ ~(ToSet(n) \subseteq SafeLetters)
  <2>1. Digest[n] \in Seq(SafeLetters) /\ Digest[n] # <<>>
    BY TenantsAssumption
  <2> QED
    BY <1>3, <2>1 DEF SafeTenantID, SafeNames, Replaced
<1> QED
  BY <1>1, <1>2, <1>3

\* A tenant that no digest confuses with another shares its shard only when it
\* is the default tenant under its two names, and then it shares the directory.
LEMMA OneTenantPerShard ==
  ASSUME NEW m \in Distinguished, NEW n \in TenantNames
  PROVE  /\ SafeTenantID(m) = SafeTenantID(n) <=> SameTenant(m, n)
         /\ SameTenant(m, n) => sanitizePathPart(m) = sanitizePathPart(n)
         /\ SameTenant(n, m) <=> SameTenant(m, n)
<1>1. m \in TenantNames /\ ~MistakenFor(m, n) /\ ~MistakenFor(n, m)
  BY DEF Distinguished
<1>2. SafeTenantID(<<>>) = DefaultName /\ sanitizePathPart(<<>>) = DefaultName
  BY DEF SafeTenantID, sanitizePathPart
<1>3. SafeTenantID(DefaultName) = DefaultName /\ sanitizePathPart(DefaultName) = DefaultName
  BY DefaultIsSafe, SafeNamesStay
<1>4. ASSUME SameTenant(m, n)
      PROVE  SafeTenantID(m) = SafeTenantID(n) /\ sanitizePathPart(m) = sanitizePathPart(n)
  <2>1. m = n \/ (m = <<>> /\ n = DefaultName) \/ (m = DefaultName /\ n = <<>>)
    BY <1>4 DEF SameTenant
  <2> QED
    BY <1>2, <1>3, <2>1
<1>5. ASSUME SafeTenantID(m) = SafeTenantID(n) PROVE SameTenant(m, n)
  <2>1. m = n \/ (m = <<>> /\ n = DefaultName) \/ (m = DefaultName /\ n = <<>>)
    <3>1. CASE m \in Replaced
      BY <1>1, <1>5, <3>1, TenantIDs DEF MistakenFor
    <3>2. CASE n \in Replaced
      BY <1>1, <1>5, <3>2, TenantIDs DEF MistakenFor
    <3>3. CASE m \notin Replaced /\ n \notin Replaced
      BY <1>1, <1>5, <3>3, TenantIDs
    <3> QED
      BY <3>1, <3>2, <3>3
  <2> QED
    BY <2>1 DEF SameTenant
<1>6. SameTenant(n, m) <=> SameTenant(m, n)
  BY DEF SameTenant
<1> QED
  BY <1>4, <1>5, <1>6

(* A plain tenant's blocks on disk are the rows of its shard, among them   *)
(* that of its object.                                                     *)
ShardRecords == [rows : SUBSET Hashes, object : Hashes \cup {"none"}]

TenantsTypeOK ==
  /\ DOMAIN shards \subseteq SafeNames
  /\ \A s \in DOMAIN shards : shards[s] \in ShardRecords
  /\ put \in [TenantNames -> Hashes \cup {"none"}]

TenantsInv == TenantsTypeOK /\ TenantsAreSeparate /\ PlainTenantsKeepBlocks

\* Writing a shard changes what is found in that shard only.
LEMMA WriteOneShard ==
  ASSUME TenantsTypeOK, NEW n, SafeTenantID(n) \in SafeNames,
         NEW shard \in ShardRecords, WriteShard(n, shard)
  PROVE  /\ DOMAIN shards' \subseteq SafeNames /\ \A s \in DOMAIN shards' : shards'[s] \in ShardRecords
         /\ \A m : Opened(m)' = IF SafeTenantID(m) = SafeTenantID(n) THEN shard ELSE Opened(m)
<1>1. DOMAIN shards' = DOMAIN shards \cup {SafeTenantID(n)}
  BY DEF WriteShard
<1>2. \A s \in DOMAIN shards' : shards'[s] = IF s = SafeTenantID(n) THEN shard ELSE shards[s]
  BY DEF WriteShard
<1> QED
  BY <1>1, <1>2 DEF Opened, TenantsTypeOK

\* What is opened under a name is a shard, new or old.
LEMMA OpenedIsARecord == ASSUME TenantsTypeOK, NEW n PROVE Opened(n) \in ShardRecords
BY DEF Opened, TenantsTypeOK, ShardRecords, EmptyShard

\* The invariant holds at the start.
LEMMA TenantsInitInv == TenantsInit => TenantsInv
BY DEF TenantsInit, TenantsInv, TenantsTypeOK, TenantsAreSeparate, PlainTenantsKeepBlocks, Plain,
   Distinguished, Opened, EmptyShard

\* Every step keeps the invariant.
LEMMA TenantsNextInv == TenantsInv /\ [TenantsNext]_tenantVars => TenantsInv'
<1> SUFFICES ASSUME TenantsInv, [TenantsNext]_tenantVars PROVE TenantsInv'
  OBVIOUS
<1>t. TenantsTypeOK /\ TenantsAreSeparate /\ PlainTenantsKeepBlocks
  BY DEF TenantsInv
<1>d. Plain \subseteq Distinguished /\ Distinguished \subseteq TenantNames
  BY DEF Plain, Distinguished
<1>1. ASSUME NEW n \in TenantNames, NEW h \in Hashes, TenantPuts(n, h) PROVE TenantsInv'
  <2> DEFINE shard == [rows |-> Opened(n).rows \cup {h}, object |-> h]
  <2>0. shard \in ShardRecords
    BY <1>t, OpenedIsARecord DEF ShardRecords
  <2> HIDE DEF shard
  <2>1. /\ DOMAIN shards' \subseteq SafeNames /\ \A s \in DOMAIN shards' : shards'[s] \in ShardRecords
        /\ \A m : Opened(m)' = IF SafeTenantID(m) = SafeTenantID(n) THEN shard ELSE Opened(m)
    BY <1>1, <1>t, <2>0, WriteOneShard, TenantIDs DEF TenantPuts, shard
  <2>2. /\ put' \in [TenantNames -> Hashes \cup {"none"}]
        /\ \A m \in TenantNames : put'[m] = IF SameTenant(m, n) THEN h ELSE put[m]
    BY <1>1, <1>t DEF TenantPuts, Remember, TenantsTypeOK
  <2>3. TenantsAreSeparate'
    BY <1>t, <1>d, <2>1, <2>2, OneTenantPerShard DEF TenantsAreSeparate, shard
  <2>4. ASSUME NEW m \in Plain
        PROVE  /\ Opened(m)'.object # "none" => <<sanitizePathPart(m), Opened(m)'.object>> \in files'
               /\ \A k \in Hashes : <<sanitizePathPart(m), k>> \in files' <=> k \in Opened(m)'.rows
    <3>1. /\ m \in Distinguished
          /\ sanitizePathPart(n) = sanitizePathPart(m) <=> SameTenant(n, m)
      <4>1. m \in Distinguished
        BY <1>d
      <4> QED
        BY <4>1, OneTenantPerShard DEF Plain
    <3>2. files' = files \cup {<<sanitizePathPart(n), h>>}
      BY <1>1 DEF TenantPuts
    <3>3. CASE SameTenant(n, m)
      <4>1. sanitizePathPart(n) = sanitizePathPart(m) /\ SafeTenantID(m) = SafeTenantID(n)
        BY <3>1, <3>3, OneTenantPerShard
      <4>2. Opened(m)' = shard /\ Opened(m) = Opened(n)
        BY <2>1, <4>1 DEF Opened
      <4>3. shard.object = h /\ shard.rows = Opened(m).rows \cup {h}
        BY <4>2 DEF shard
      <4>4. \A k \in Hashes : <<sanitizePathPart(m), k>> \in files <=> k \in Opened(m).rows
        BY <1>t DEF PlainTenantsKeepBlocks
      <4> QED
        BY <3>2, <4>1, <4>2, <4>3, <4>4
    <3>4. CASE ~SameTenant(n, m)
      <4>1. sanitizePathPart(n) # sanitizePathPart(m) /\ SafeTenantID(m) # SafeTenantID(n)
        BY <3>1, <3>4, OneTenantPerShard
      <4>2. Opened(m)' = Opened(m)
        BY <2>1, <4>1
      <4> QED
        BY <1>t, <3>2, <4>1, <4>2 DEF PlainTenantsKeepBlocks
    <3> QED
      BY <3>3, <3>4
  <2> QED
    BY <2>1, <2>2, <2>3, <2>4 DEF TenantsInv, TenantsTypeOK, PlainTenantsKeepBlocks, Plain,
       Distinguished, SameTenant
<1>2. ASSUME NEW n \in TenantNames, TenantDeletes(n) PROVE TenantsInv'
  <2> DEFINE shard == [Opened(n) EXCEPT !.object = "none"]
  <2>0. /\ shard \in ShardRecords
        /\ shard.rows = Opened(n).rows /\ shard.object = "none"
    BY <1>t, OpenedIsARecord DEF ShardRecords
  <2> HIDE DEF shard
  <2>1. /\ DOMAIN shards' \subseteq SafeNames /\ \A s \in DOMAIN shards' : shards'[s] \in ShardRecords
        /\ \A m : Opened(m)' = IF SafeTenantID(m) = SafeTenantID(n) THEN shard ELSE Opened(m)
    BY <1>2, <1>t, <2>0, WriteOneShard, TenantIDs DEF TenantDeletes, shard
  <2>2. /\ put' \in [TenantNames -> Hashes \cup {"none"}] /\ files' = files
        /\ \A m \in TenantNames : put'[m] = IF SameTenant(m, n) THEN "none" ELSE put[m]
    BY <1>2, <1>t DEF TenantDeletes, Remember, TenantsTypeOK
  <2>3. TenantsAreSeparate'
    BY <1>t, <1>d, <2>0, <2>1, <2>2, OneTenantPerShard DEF TenantsAreSeparate
  <2>4. ASSUME NEW m \in Plain
        PROVE  /\ Opened(m)'.object # "none" => <<sanitizePathPart(m), Opened(m)'.object>> \in files
               /\ \A k \in Hashes : <<sanitizePathPart(m), k>> \in files <=> k \in Opened(m)'.rows
    <3>1. CASE SafeTenantID(m) = SafeTenantID(n)
      <4>1. Opened(m) = Opened(n) /\ Opened(m)' = shard
        BY <2>1, <3>1 DEF Opened
      <4> QED
        BY <1>t, <2>0, <4>1 DEF PlainTenantsKeepBlocks
    <3>2. CASE SafeTenantID(m) # SafeTenantID(n)
      BY <1>t, <2>1, <3>2 DEF PlainTenantsKeepBlocks
    <3> QED
      BY <3>1, <3>2
  <2> QED
    BY <2>1, <2>2, <2>3, <2>4 DEF TenantsInv, TenantsTypeOK, PlainTenantsKeepBlocks, Plain,
       Distinguished, SameTenant
<1>3. ASSUME NEW t \in ListTenants, SweepTenant(t) PROVE TenantsInv'
  <2> DEFINE shard == [Opened(t) EXCEPT !.rows = @ \ Orphans(t)]
  <2>1. t \in SafeNames /\ SafeTenantID(t) = t /\ sanitizePathPart(t) = t
    BY <1>t, SafeNamesStay DEF ListTenants, TenantsTypeOK
  <2>2. /\ shard \in ShardRecords /\ shard.object = Opened(t).object
        /\ shard.rows = Opened(t).rows \ Orphans(t)
    BY <1>t, OpenedIsARecord DEF ShardRecords
  <2> HIDE DEF shard
  <2>3. /\ DOMAIN shards' \subseteq SafeNames /\ \A s \in DOMAIN shards' : shards'[s] \in ShardRecords
        /\ \A m : Opened(m)' = IF SafeTenantID(m) = t THEN shard ELSE Opened(m)
    BY <1>3, <1>t, <2>1, <2>2, WriteOneShard DEF SweepTenant, shard
  <2>4. put' = put /\ files' = files \ ({t} \X Orphans(t))
    BY <1>3, <2>1 DEF SweepTenant
  <2>5. \A m : SafeTenantID(m) = t => Opened(m) = Opened(t)
    BY <2>1 DEF Opened
  <2>6. TenantsAreSeparate'
    BY <1>t, <1>d, <2>2, <2>3, <2>4, <2>5 DEF TenantsAreSeparate
  <2>7. ASSUME NEW m \in Plain
        PROVE  /\ Opened(m)'.object # "none" => <<sanitizePathPart(m), Opened(m)'.object>> \in files'
               /\ \A k \in Hashes : <<sanitizePathPart(m), k>> \in files' <=> k \in Opened(m)'.rows
    <3>1. sanitizePathPart(m) = SafeTenantID(m) /\ m \in TenantNames
      BY <1>d DEF Plain
    <3>2. CASE SafeTenantID(m) = t
      <4>1. Opened(m) = Opened(t) /\ Opened(m)' = shard
        BY <2>3, <2>5, <3>2
      <4> QED
        BY <1>t, <2>2, <2>4, <3>1, <3>2, <4>1 DEF PlainTenantsKeepBlocks, Orphans
    <3>3. CASE SafeTenantID(m) # t
      BY <1>t, <2>3, <2>4, <3>1, <3>3 DEF PlainTenantsKeepBlocks
    <3> QED
      BY <3>2, <3>3
  <2> QED
    BY <1>t, <2>3, <2>4, <2>6, <2>7 DEF TenantsInv, TenantsTypeOK, PlainTenantsKeepBlocks, Plain,
       Distinguished, SameTenant
<1>4. CASE UNCHANGED tenantVars
  BY <1>4, <1>t DEF tenantVars, TenantsInv, TenantsTypeOK, TenantsAreSeparate,
     PlainTenantsKeepBlocks, Plain, Distinguished, Opened
<1> QED
  BY <1>1, <1>2, <1>3, <1>4 DEF TenantsNext

\* No tenant whose digest and name are no other's loses its object to another
\* tenant or to a sweep, and none with a plain name its blocks, for any number
\* of tenants, names and blocks.
THEOREM TenantsKeepWhatIsTheirs == TenantsSpec => []TenantsKeepTheirData
<1>1. TenantsInv => TenantsKeepTheirData
  BY DEF TenantsInv, TenantsKeepTheirData
<1> QED
  BY <1>1, TenantsInitInv, TenantsNextInv, PTL DEF TenantsSpec

-----------------------------------------------------------------------------
(* Downloads.                                                              *)
AfterManifest == {"look", "request", "serve", "put", "remove", "rename", "reconstruct"}

ClientStates ==
  [step : {"manifest", "chunks", "done", "failed"} \cup AfterManifest,
   object : Objects \cup {Absent}, chunks : Seq(ChunkHashes), listed : Seq(ChunkHashes),
   missing : Seq(ChunkHashes), fetched : SUBSET ChunkHashes, at : Nat \ {0},
   written : Seq(ChunkHashes), disturbed : BOOLEAN]

DownloadTypeOK ==
  /\ past \in SUBSET Objects /\ live \in past \cup {Absent}
  /\ cache \in [ChunkHashes -> {"none", "good", "damaged"}]
  /\ client \in [Clients -> ClientStates]
  /\ DOMAIN output = Clients

(* A manifest is all of an object's chunks or, when the object was         *)
(* replaced between the reads of its row and of its chunks, empty; what is *)
(* written is its beginning.                                               *)
WritesManifest(r, seen) ==
  /\ r.step \in AfterManifest \cup {"chunks", "done"} => r.object \in seen
  /\ r.step \in AfterManifest => r.chunks \in {<<>>, ChunksOf[r.object]}
  /\ r.step = "reconstruct" => r.at <= Len(r.chunks) + 1 /\ r.written = SubSeq(r.chunks, 1, r.at - 1)
  /\ r.step \in (AfterManifest \cup {"manifest", "chunks"}) \ {"reconstruct"} => r.written = <<>>

(* A chunk is asked for once.                                              *)
AsksOnce(r) ==
  /\ r.step \in {"manifest", "chunks"} => r.at = 1 /\ r.missing = <<>>
  /\ IsFiniteSet(Listed(r.missing)) /\ Cardinality(Listed(r.missing)) = Len(r.missing)
  /\ \A i, j \in DOMAIN r.missing : r.missing[i] = r.missing[j] => i = j
  /\ r.step = "look" => /\ r.at <= Len(r.chunks) + 1
                        /\ Listed(r.missing) \subseteq Listed(SubSeq(r.chunks, 1, r.at - 1))

(* What a download that nothing has disturbed relies on: the object it     *)
(* asked for is there, and each chunk is cached or going to be.            *)
Relies(r, object, cached) ==
  ~r.disturbed /\ r.step \notin {"done", "failed"} =>
    /\ object # Absent
    /\ r.step # "manifest" => r.object = object
    /\ r.step \in AfterManifest => r.chunks = ChunksOf[object]
    /\ r.step = "look" => \A i \in DOMAIN r.chunks :
         i < r.at => r.chunks[i] \in Listed(r.missing) \/ cached[r.chunks[i]] = "good"
    /\ r.step \in {"request", "serve", "put", "remove", "rename"} =>
         /\ Listed(r.missing) \subseteq Listed(r.chunks)
         /\ \A i \in DOMAIN r.chunks : r.chunks[i] \in Listed(r.missing) \/ cached[r.chunks[i]] = "good"
    /\ r.step = "serve" => r.listed = ChunksOf[object]
    /\ r.step \in {"put", "remove", "rename"} => \A i \in DOMAIN r.missing :
         i < r.at => cached[r.missing[i]] = "good"
    /\ r.step \in {"remove", "rename"} => r.at \in DOMAIN r.missing
    /\ r.step = "reconstruct" => \A i \in DOMAIN r.chunks : cached[r.chunks[i]] = "good"

(* The server answers a request for all chunks of an object.               *)
ManifestsFit ==
  /\ MaxHashes \in Nat
  /\ \A object \in Objects : Cardinality(Listed(ChunksOf[object])) <= MaxHashes

DownloadInv ==
  /\ DownloadTypeOK
  /\ \A c \in Clients : /\ WritesManifest(client[c], past) /\ AsksOnce(client[c])
                        /\ Relies(client[c], live, cache)
  /\ OutputIsAnObject
  /\ ManifestsFit => UndisturbedDownloadsSucceed

\* What a list of chunks holds, one more appended, or one more of it read.
LEMMA ListedAppend ==
  ASSUME NEW s \in Seq(ChunkHashes), NEW h
  PROVE  Listed(Append(s, h)) = Listed(s) \cup {h}
<1>1. \A i \in DOMAIN Append(s, h) : Append(s, h)[i] = h \/ (i \in DOMAIN s /\ Append(s, h)[i] = s[i])
  OBVIOUS
<1>2. \A i \in DOMAIN s : i \in DOMAIN Append(s, h) /\ Append(s, h)[i] = s[i]
  OBVIOUS
<1>3. Len(s) + 1 \in DOMAIN Append(s, h) /\ Append(s, h)[Len(s) + 1] = h
  OBVIOUS
<1> QED
  BY <1>1, <1>2, <1>3 DEF Listed

\* The members of a longer list.
LEMMA AppendedAt ==
  ASSUME NEW s \in Seq(ChunkHashes), NEW h, NEW k \in DOMAIN Append(s, h)
  PROVE  \/ k \in DOMAIN s /\ Append(s, h)[k] = s[k]
         \/ k = Len(s) + 1 /\ Append(s, h)[k] = h
OBVIOUS

\* The members of the beginning of a list.
LEMMA ListedPrefix ==
  ASSUME NEW s \in Seq(ChunkHashes), NEW n \in Nat, n <= Len(s)
  PROVE  Listed(SubSeq(s, 1, n)) = {s[i] : i \in 1 .. n}
<1>1. DOMAIN SubSeq(s, 1, n) = 1 .. n /\ \A i \in 1 .. n : SubSeq(s, 1, n)[i] = s[i]
  OBVIOUS
<1> QED
  BY <1>1 DEF Listed

\* A list has finitely many members.
LEMMA ListedIsFinite ==
  ASSUME NEW s \in Seq(ChunkHashes)
  PROVE  IsFiniteSet(Listed(s))
<1>1. IsFiniteSet(1 .. Len(s))
  BY FS_Interval
<1>2. s \in Surjection(1 .. Len(s), Listed(s))
  BY DEF Surjection, Listed
<1> QED
  BY <1>1, <1>2, FS_Surjection

\* A client that goes on to r on its own leaves what holds of the others.
LEMMA ClientGoesOn ==
  ASSUME DownloadInv, NEW c \in Clients, NEW r \in ClientStates,
         client' = [client EXCEPT ![c] = r], UNCHANGED <<live, past, cache, output>>,
         WritesManifest(r, past), AsksOnce(r), Relies(r, live, cache),
         r.step # "done", ManifestsFit => (r.step = "failed" => r.disturbed)
  PROVE  DownloadInv'
<1>t. DownloadTypeOK /\ OutputIsAnObject
  BY DEF DownloadInv
<1>1. client'[c] = r /\ \A d \in Clients \ {c} : client'[d] = client[d]
  BY <1>t DEF DownloadTypeOK
<1>2. DownloadTypeOK'
  BY <1>t DEF DownloadTypeOK
<1>3. ASSUME NEW d \in Clients
      PROVE  /\ WritesManifest(client'[d], past') /\ AsksOnce(client'[d])
             /\ Relies(client'[d], live', cache')
  BY <1>1 DEF DownloadInv
<1>4. OutputIsAnObject'
  BY <1>t, <1>1 DEF OutputIsAnObject
<1>5. ManifestsFit => UndisturbedDownloadsSucceed'
  BY <1>1 DEF DownloadInv, UndisturbedDownloadsSucceed
<1> QED
  BY <1>2, <1>3, <1>4, <1>5 DEF DownloadInv, ManifestsFit

\* Files that stay good are enough for those that rely on them.
LEMMA GoodIsEnough ==
  ASSUME NEW r \in ClientStates, NEW object, NEW before, NEW after, Relies(r, object, before),
         \A h \in ChunkHashes : before[h] = "good" => after[h] = "good"
  PROVE  Relies(r, object, after)
<1>1. /\ \A i \in DOMAIN r.chunks : r.chunks[i] \in ChunkHashes
      /\ \A i \in DOMAIN r.missing : r.missing[i] \in ChunkHashes
  BY DEF ClientStates
<1> QED
  BY <1>1 DEF Relies

\* A client that is told of a change, or has ended, relies on nothing.
LEMMA DisturbedKeeps ==
  ASSUME NEW r \in ClientStates, NEW t, NEW seen, NEW more, seen \subseteq more, WritesManifest(r, seen), AsksOnce(r),
         t = [r EXCEPT !.disturbed = @ \/ r.step \notin {"done", "failed"}]
  PROVE  /\ t \in ClientStates
         /\ WritesManifest(t, more) /\ AsksOnce(t) /\ \A object, cached : Relies(t, object, cached)
         /\ t.step = r.step /\ t.object = r.object
         /\ r.disturbed => t.disturbed
<1>1. t \in ClientStates
  BY DEF ClientStates
<1>2. /\ t.step = r.step /\ t.object = r.object /\ t.chunks = r.chunks /\ t.at = r.at
      /\ t.missing = r.missing /\ t.written = r.written
      /\ t.disturbed <=> r.disturbed \/ r.step \notin {"done", "failed"}
  BY DEF ClientStates
<1>3. WritesManifest(t, more)
  BY <1>2 DEF WritesManifest
<1>4. AsksOnce(t)
  BY <1>2 DEF AsksOnce
<1>5. \A object, cached : Relies(t, object, cached)
  BY <1>2 DEF Relies
<1> QED
  BY <1>1, <1>2, <1>3, <1>4, <1>5

\* A client that has not looked for a chunk yet asks for none.
LEMMA AsksForNone ==
  ASSUME NEW r, r.missing = <<>>, r.at = 1, NEW n \in Nat, Len(r.chunks) = n
  PROVE  AsksOnce(r)
<1>1. Listed(<<>>) = {} /\ Len(<<>>) = 0 /\ DOMAIN <<>> = {}
  BY DEF Listed
<1>2. IsFiniteSet({}) /\ Cardinality({}) = 0
  BY FS_EmptySet
<1>3. /\ IsFiniteSet(Listed(r.missing)) /\ Cardinality(Listed(r.missing)) = Len(r.missing)
      /\ Listed(r.missing) = {} /\ DOMAIN r.missing = {}
  BY <1>1, <1>2
<1>4. r.at <= Len(r.chunks) + 1
  OBVIOUS
<1> QED
  BY <1>3, <1>4 DEF AsksOnce

\* The invariant holds at the start.
LEMMA DownloadInitInv == DownloadInit => DownloadInv
<1> SUFFICES ASSUME DownloadInit PROVE DownloadInv
  OBVIOUS
<1>1. /\ Start \in ClientStates /\ Start.step = "manifest" /\ Start.at = 1 /\ Start.missing = <<>>
      /\ Start.written = <<>>
  BY DEF Start, ClientStates
<1>2. \A c \in Clients : client[c] = Start
  BY DEF DownloadInit
<1>3. DownloadTypeOK
  BY <1>1 DEF DownloadInit, DownloadTypeOK
<1>4. WritesManifest(Start, past)
  BY <1>1 DEF WritesManifest, AfterManifest
<1>5. AsksOnce(Start)
  <2>1. Start.chunks = <<>> /\ Len(<<>>) = 0
    BY DEF Start
  <2> QED
    BY <1>1, <2>1, AsksForNone
<1>6. Relies(Start, live, cache)
  BY <1>1, AbsentAssumption DEF DownloadInit, Relies, AfterManifest
<1>7. OutputIsAnObject /\ UndisturbedDownloadsSucceed
  BY <1>1, <1>2 DEF DownloadInit, OutputIsAnObject, UndisturbedDownloadsSucceed
<1> QED
  BY <1>2, <1>3, <1>4, <1>5, <1>6, <1>7 DEF DownloadInv

\* What is known of a client before it goes on.
LEMMA ClientFacts ==
  ASSUME DownloadInv, NEW c \in Clients
  PROVE  /\ client[c] \in ClientStates
         /\ WritesManifest(client[c], past) /\ AsksOnce(client[c]) /\ Relies(client[c], live, cache)
         /\ ChunksOf[live] \in Seq(ChunkHashes) \/ live = Absent
         /\ client[c].object = Absent \/ ChunksOf[client[c].object] \in Seq(ChunkHashes)
<1>1. client[c] \in ClientStates /\ live \in Objects \cup {Absent}
  BY DEF DownloadInv, DownloadTypeOK
<1>2. client[c].object \in Objects \cup {Absent}
  BY <1>1 DEF ClientStates
<1> QED
  BY <1>1, <1>2, ChunksOfAssumption DEF DownloadInv

\* A client fails without harm when it has been disturbed.
LEMMA ClientFails ==
  ASSUME DownloadInv, NEW c \in Clients, Become(c, Failed(c)), UNCHANGED <<live, past, cache, output>>,
         ManifestsFit => client[c].disturbed
  PROVE  DownloadInv'
<1> DEFINE r == Failed(c)
<1>1. /\ r \in ClientStates /\ r.step = "failed" /\ r.missing = client[c].missing
      /\ r.disturbed = client[c].disturbed
  BY ClientFacts DEF Failed, ClientStates
<1>2. WritesManifest(r, past) /\ Relies(r, live, cache)
  BY <1>1 DEF WritesManifest, Relies, AfterManifest
<1>3. AsksOnce(r)
  BY <1>1, ClientFacts DEF AsksOnce
<1>4. client' = [client EXCEPT ![c] = r]
  BY DEF Become
<1> HIDE DEF r
<1> QED
  BY <1>1, <1>2, <1>3, <1>4, ClientGoesOn

\* The row of the object: without one the client has been disturbed.
LEMMA FetchRowKeeps == ASSUME DownloadInv, NEW c \in Clients, FetchRow(c) PROVE DownloadInv'
<1>1. CASE live = Absent
  <2>1. client[c].disturbed
    BY <1>1, ClientFacts DEF Relies, FetchRow
  <2> QED
    BY <1>1, <2>1, ClientFails DEF FetchRow
<1>2. CASE live # Absent
  <2> DEFINE r == [client[c] EXCEPT !.step = "chunks", !.object = live]
  <2>1. client[c].step = "manifest" /\ live \in past /\ live \in Objects
    BY <1>2 DEF FetchRow, DownloadInv, DownloadTypeOK
  <2>2. /\ r \in ClientStates /\ r.step = "chunks" /\ r.object = live /\ r.at = client[c].at
        /\ r.missing = client[c].missing /\ r.written = client[c].written
    BY <2>1, ClientFacts DEF ClientStates, AfterManifest
  <2>3. client' = [client EXCEPT ![c] = r] /\ UNCHANGED <<live, past, cache, output>>
    BY <1>2 DEF FetchRow, Become
  <2>4. WritesManifest(r, past)
    BY <2>1, <2>2, ClientFacts DEF WritesManifest, AfterManifest
  <2>5. AsksOnce(r)
    BY <2>1, <2>2, ClientFacts DEF AsksOnce
  <2>6. Relies(r, live, cache)
    BY <1>2, <2>2 DEF Relies, AfterManifest
  <2> HIDE DEF r
  <2> QED
    BY <2>2, <2>3, <2>4, <2>5, <2>6, ClientGoesOn
<1> QED
  BY <1>1, <1>2

\* The manifest: only one that was replaced meanwhile is empty.
LEMMA FetchManifestKeeps == ASSUME DownloadInv, NEW c \in Clients, FetchManifest(c) PROVE DownloadInv'
<1> DEFINE r == [client[c] EXCEPT !.step = "look", !.chunks = RowsNow(client[c].object)]
<1>1. client[c].step = "chunks"
  BY DEF FetchManifest
<1>2. RowsNow(client[c].object) \in Seq(ChunkHashes)
  BY ClientFacts DEF RowsNow
<1>3. /\ r \in ClientStates /\ r.step = "look" /\ r.chunks = RowsNow(client[c].object)
      /\ r.object = client[c].object /\ r.at = client[c].at /\ r.missing = client[c].missing
      /\ r.written = client[c].written /\ r.disturbed = client[c].disturbed
  BY <1>2, ClientFacts DEF ClientStates, AfterManifest
<1>4. client' = [client EXCEPT ![c] = r] /\ UNCHANGED <<live, past, cache, output>>
  BY DEF FetchManifest, Become
<1>5. WritesManifest(r, past)
  BY <1>1, <1>3, ClientFacts DEF WritesManifest, AfterManifest, RowsNow
<1>6. AsksOnce(r)
  <2>1. r.at = 1 /\ r.missing = <<>>
    BY <1>1, <1>3, ClientFacts DEF AsksOnce
  <2>2. Len(r.chunks) \in Nat
    BY <1>2, <1>3
  <2> HIDE DEF r
  <2> QED
    BY <2>1, <2>2, AsksForNone
<1>7. Relies(r, live, cache)
  <2> SUFFICES ASSUME ~r.disturbed PROVE Relies(r, live, cache)
    BY DEF Relies
  <2>1. live # Absent /\ r.object = live /\ r.chunks = ChunksOf[live]
    BY <1>1, <1>3, ClientFacts DEF Relies, RowsNow
  <2>2. r.at = 1
    BY <1>1, <1>3, ClientFacts DEF AsksOnce
  <2>3. \A i \in DOMAIN r.chunks : ~(i < r.at)
    BY <1>2, <1>3, <2>2
  <2> QED
    BY <1>3, <2>1, <2>3 DEF Relies, AfterManifest
<1> HIDE DEF r
<1> QED
  BY <1>3, <1>4, <1>5, <1>6, <1>7, ClientGoesOn

\* A look into the cache: each chunk seen is asked for or cached.
LEMMA LookForKeeps == ASSUME DownloadInv, NEW c \in Clients, LookFor(c) PROVE DownloadInv'
<1> DEFINE me == client[c]
           h == me.chunks[me.at]
           seen == Listed(SubSeq(me.chunks, 1, me.at - 1))
           absent == h \notin seen /\ cache[h] # "good"
           r == [me EXCEPT !.at = me.at + 1, !.missing = IF absent THEN Append(@, h) ELSE @]
<1>1. /\ me.step = "look" /\ me.at \in DOMAIN me.chunks /\ me \in ClientStates
      /\ me.chunks \in Seq(ChunkHashes) /\ me.missing \in Seq(ChunkHashes) /\ me.at \in Nat \ {0}
      /\ h \in ChunkHashes
  <2>1. me.step = "look" /\ me.at \in DOMAIN me.chunks /\ me \in ClientStates
    BY ClientFacts DEF LookFor
  <2>2. me.chunks \in Seq(ChunkHashes) /\ me.missing \in Seq(ChunkHashes) /\ me.at \in Nat \ {0}
    BY <2>1 DEF ClientStates
  <2> QED
    BY <2>1, <2>2
<1>2. client' = [client EXCEPT ![c] = r] /\ UNCHANGED <<live, past, cache, output>>
  BY DEF LookFor, Become
<1>3. /\ r \in ClientStates /\ r.step = "look" /\ r.at = me.at + 1 /\ r.chunks = me.chunks
      /\ r.missing = IF absent THEN Append(me.missing, h) ELSE me.missing
      /\ r.object = me.object /\ r.written = me.written /\ r.disturbed = me.disturbed
  <2> HIDE DEF h, absent
  <2>1. (IF absent THEN Append(me.missing, h) ELSE me.missing) \in Seq(ChunkHashes)
    BY <1>1
  <2>2. me.at + 1 \in Nat \ {0}
    BY <1>1
  <2> QED
    BY <1>1, <2>1, <2>2 DEF ClientStates
<1>4. me.at <= Len(me.chunks)
  BY <1>1
<1>5. /\ seen = {me.chunks[i] : i \in 1 .. (me.at - 1)}
      /\ Listed(SubSeq(r.chunks, 1, r.at - 1)) = seen \cup {h}
  <2>0. me.at \in Nat /\ me.at - 1 \in Nat /\ me.at - 1 <= Len(me.chunks)
    BY <1>1, <1>4
  <2>1. Listed(SubSeq(me.chunks, 1, me.at)) = {me.chunks[i] : i \in 1 .. me.at}
    BY <1>1, <1>4, <2>0, ListedPrefix
  <2>2. seen = {me.chunks[i] : i \in 1 .. (me.at - 1)}
    BY <1>1, <2>0, ListedPrefix
  <2>3. r.at - 1 = me.at
    BY <1>1, <1>3
  <2>4. {me.chunks[i] : i \in 1 .. me.at} = {me.chunks[i] : i \in 1 .. (me.at - 1)} \cup {h}
    BY <1>1
  <2> QED
    BY <1>3, <2>1, <2>2, <2>3, <2>4
<1>6. /\ IsFiniteSet(Listed(me.missing)) /\ Cardinality(Listed(me.missing)) = Len(me.missing)
      /\ \A i, j \in DOMAIN me.missing : me.missing[i] = me.missing[j] => i = j
      /\ Listed(me.missing) \subseteq seen
  BY <1>1, ClientFacts DEF AsksOnce
<1>7. Listed(r.missing) = IF absent THEN Listed(me.missing) \cup {h} ELSE Listed(me.missing)
  <2>1. Listed(Append(me.missing, h)) = Listed(me.missing) \cup {h}
    BY <1>1, ListedAppend
  <2> HIDE DEF r, me, h, absent
  <2> QED
    BY <1>3, <2>1
<1>8. WritesManifest(r, past)
  <2>1. WritesManifest(me, past)
    BY ClientFacts
  <2>2. PICK q : q = r
    OBVIOUS
  <2>3. q.step = "look" /\ q.chunks = me.chunks /\ q.object = me.object /\ q.written = me.written
    BY <1>3, <2>2
  <2>4. me.step = "look"
    BY <1>1
  <2>5. WritesManifest(q, past)
    <3> HIDE DEF me
    <3> QED
      BY <2>1, <2>3, <2>4 DEF WritesManifest, AfterManifest
  <2> QED
    BY <2>2, <2>5
<1>9. AsksOnce(r)
  <2>1. r.at <= Len(r.chunks) + 1 /\ Listed(r.missing) \subseteq Listed(SubSeq(r.chunks, 1, r.at - 1))
    BY <1>1, <1>3, <1>4, <1>5, <1>6, <1>7
  <2>2. CASE absent
    <3>1. h \notin Listed(me.missing)
      BY <1>6, <2>2
    <3>2. IsFiniteSet(Listed(r.missing)) /\ Cardinality(Listed(r.missing)) = Len(me.missing) + 1
      <4> DEFINE asked == Listed(me.missing)
      <4>1. IsFiniteSet(asked) /\ Cardinality(asked) = Len(me.missing) /\ h \notin asked
        BY <1>6, <3>1
      <4>2. Listed(r.missing) = asked \cup {h}
        BY <1>7, <2>2
      <4> HIDE DEF asked, h, r, me
      <4> QED
        BY <4>1, <4>2, FS_AddElement
    <3>3. r.missing = Append(me.missing, h) /\ Len(r.missing) = Len(me.missing) + 1
      BY <1>1, <1>3, <2>2
    <3>4. \A i \in DOMAIN me.missing : me.missing[i] # h
      BY <3>1 DEF Listed
    <3>5. \A i, j \in DOMAIN r.missing : r.missing[i] = r.missing[j] => i = j
      <4> SUFFICES ASSUME NEW i \in DOMAIN r.missing, NEW j \in DOMAIN r.missing,
                          r.missing[i] = r.missing[j]
                   PROVE  i = j
        OBVIOUS
      <4>1. \A k \in DOMAIN r.missing : \/ k \in DOMAIN me.missing /\ r.missing[k] = me.missing[k]
                                        \/ k = Len(me.missing) + 1 /\ r.missing[k] = h
        BY <1>1, <3>3, AppendedAt
      <4> QED
        BY <1>6, <3>4, <4>1
    <3> QED
      BY <1>3, <2>1, <3>2, <3>3, <3>5 DEF AsksOnce
  <2>3. CASE ~absent
    BY <1>3, <1>6, <2>1, <2>3 DEF AsksOnce
  <2> QED
    BY <2>2, <2>3
<1>10. Relies(r, live, cache)
  <2> SUFFICES ASSUME ~r.disturbed PROVE Relies(r, live, cache)
    BY DEF Relies
  <2>1. /\ live # Absent /\ me.object = live /\ me.chunks = ChunksOf[live]
        /\ \A i \in DOMAIN me.chunks :
             i < me.at => me.chunks[i] \in Listed(me.missing) \/ cache[me.chunks[i]] = "good"
    BY <1>1, <1>3, ClientFacts DEF Relies, AfterManifest
  <2>2. h \in seen => \E i \in DOMAIN me.chunks : i < me.at /\ me.chunks[i] = h
    BY <1>1, <1>4, <1>5
  <2>3. h \in Listed(r.missing) \/ cache[h] = "good"
    BY <1>7, <2>1, <2>2
  <2>4. ASSUME NEW i \in DOMAIN r.chunks, i < r.at
        PROVE  r.chunks[i] \in Listed(r.missing) \/ cache[r.chunks[i]] = "good"
    <3>1. i < me.at \/ i = me.at
      BY <1>1, <1>3, <2>4
    <3> QED
      BY <1>3, <1>7, <2>1, <2>3, <2>4, <3>1
  <2> QED
    BY <1>3, <2>1, <2>4 DEF Relies, AfterManifest
<1> HIDE DEF r
<1> QED
  BY <1>2, <1>3, <1>8, <1>9, <1>10, ClientGoesOn

\* The end of the looks: what is listed is asked for, the rest cached.
LEMMA LookedKeeps == ASSUME DownloadInv, NEW c \in Clients, Looked(c) PROVE DownloadInv'
<1> DEFINE me == client[c]
           next == IF me.missing = <<>> THEN "reconstruct" ELSE "request"
           r == [me EXCEPT !.step = next, !.at = 1]
<1>1. /\ me.step = "look" /\ me.at > Len(me.chunks) /\ me \in ClientStates
      /\ me.chunks \in Seq(ChunkHashes) /\ me.missing \in Seq(ChunkHashes) /\ me.at \in Nat \ {0}
  <2>1. me.step = "look" /\ me.at > Len(me.chunks) /\ me \in ClientStates
    BY ClientFacts DEF Looked
  <2>2. me.chunks \in Seq(ChunkHashes) /\ me.missing \in Seq(ChunkHashes) /\ me.at \in Nat \ {0}
    BY <2>1 DEF ClientStates
  <2> QED
    BY <2>1, <2>2
<1>2. client' = [client EXCEPT ![c] = r] /\ UNCHANGED <<live, past, cache, output>>
  BY DEF Looked, Become
<1>3. /\ r \in ClientStates /\ r.step = next /\ r.at = 1 /\ r.chunks = me.chunks
      /\ r.missing = me.missing /\ r.object = me.object /\ r.written = me.written
      /\ r.disturbed = me.disturbed
  <2>1. next \in AfterManifest
    BY DEF AfterManifest
  <2>2. 1 \in Nat \ {0}
    OBVIOUS
  <2>3. r = [me EXCEPT !.step = next, !.at = 1]
    OBVIOUS
  <2> HIDE DEF next, r, me
  <2> QED
    BY <1>1, <2>1, <2>2, <2>3 DEF ClientStates
<1>4. me.at - 1 = Len(me.chunks) /\ SubSeq(me.chunks, 1, me.at - 1) = me.chunks
  <2>1. me.at <= Len(me.chunks) + 1
    BY <1>1, ClientFacts DEF AsksOnce
  <2>2. me.at - 1 = Len(me.chunks)
    BY <1>1, <2>1
  <2>3. SubSeq(me.chunks, 1, Len(me.chunks)) = me.chunks
    BY <1>1
  <2> QED
    BY <2>2, <2>3
<1>5. me.written = <<>> /\ me.object \in past /\ me.chunks \in {<<>>, ChunksOf[me.object]}
  BY <1>1, ClientFacts DEF WritesManifest, AfterManifest
<1>6. WritesManifest(r, past)
  <2>1. SubSeq(r.chunks, 1, r.at - 1) = <<>> /\ r.at <= Len(r.chunks) + 1
    BY <1>1, <1>3
  <2> HIDE DEF r
  <2> QED
    BY <1>3, <1>5, <2>1 DEF WritesManifest, AfterManifest
<1>7. AsksOnce(r)
  BY <1>1, <1>3, ClientFacts DEF AsksOnce
<1>8. Relies(r, live, cache)
  <2> SUFFICES ASSUME ~r.disturbed PROVE Relies(r, live, cache)
    BY DEF Relies
  <2>1. /\ live # Absent /\ me.object = live /\ me.chunks = ChunksOf[live]
        /\ \A i \in DOMAIN me.chunks :
             i < me.at => me.chunks[i] \in Listed(me.missing) \/ cache[me.chunks[i]] = "good"
    BY <1>1, <1>3, ClientFacts DEF Relies, AfterManifest
  <2>2. \A i \in DOMAIN me.chunks : me.chunks[i] \in Listed(me.missing) \/ cache[me.chunks[i]] = "good"
    BY <1>1, <2>1
  <2>3. Listed(me.missing) \subseteq Listed(me.chunks)
    BY <1>1, <1>4, ClientFacts DEF AsksOnce
  <2>4. me.missing = <<>> => \A i \in DOMAIN me.chunks : cache[me.chunks[i]] = "good"
    BY <2>2 DEF Listed
  <2> HIDE DEF r, me
  <2> QED
    BY <1>3, <2>1, <2>2, <2>3, <2>4 DEF Relies, AfterManifest
<1> HIDE DEF r
<1> QED
  BY <1>2, <1>3, <1>6, <1>7, <1>8, ClientGoesOn

\* What is known of a client that has its list of missing chunks.
LEMMA AskingFacts ==
  ASSUME DownloadInv, NEW c \in Clients, client[c].step \in {"request", "serve", "put", "remove", "rename"}
  PROVE  LET me == client[c]
         IN  /\ me \in ClientStates /\ me.at \in Nat \ {0}
             /\ me.missing \in Seq(ChunkHashes) /\ me.chunks \in Seq(ChunkHashes)
             /\ me.object \in past /\ me.chunks \in {<<>>, ChunksOf[me.object]} /\ me.written = <<>>
             /\ Cardinality(Listed(me.missing)) = Len(me.missing)
             /\ \A i, j \in DOMAIN me.missing : me.missing[i] = me.missing[j] => i = j
             /\ ~me.disturbed =>
                  /\ live # Absent /\ me.object = live /\ me.chunks = ChunksOf[live]
                  /\ Listed(me.missing) \subseteq Listed(me.chunks)
                  /\ \A i \in DOMAIN me.chunks :
                       me.chunks[i] \in Listed(me.missing) \/ cache[me.chunks[i]] = "good"
                  /\ me.step = "serve" => me.listed = ChunksOf[live]
                  /\ me.step \in {"put", "remove", "rename"} => \A i \in DOMAIN me.missing :
                       i < me.at => cache[me.missing[i]] = "good"
                  /\ me.step \in {"remove", "rename"} => me.at \in DOMAIN me.missing
<1> DEFINE me == client[c]
<1>1. me \in ClientStates /\ WritesManifest(me, past) /\ AsksOnce(me) /\ Relies(me, live, cache)
  BY ClientFacts
<1>2. me.at \in Nat \ {0} /\ me.missing \in Seq(ChunkHashes) /\ me.chunks \in Seq(ChunkHashes)
  BY <1>1 DEF ClientStates
<1>3. me.object \in past /\ me.chunks \in {<<>>, ChunksOf[me.object]} /\ me.written = <<>>
  BY <1>1 DEF WritesManifest, AfterManifest
<1>4. /\ Cardinality(Listed(me.missing)) = Len(me.missing)
      /\ \A i, j \in DOMAIN me.missing : me.missing[i] = me.missing[j] => i = j
  BY <1>1 DEF AsksOnce
<1> HIDE DEF me
<1>5. me.step \in {"request", "serve", "put", "remove", "rename"}
  BY DEF me
<1>6. ~me.disturbed =>
        /\ live # Absent /\ me.object = live /\ me.chunks = ChunksOf[live]
        /\ Listed(me.missing) \subseteq Listed(me.chunks)
        /\ \A i \in DOMAIN me.chunks :
             me.chunks[i] \in Listed(me.missing) \/ cache[me.chunks[i]] = "good"
        /\ me.step = "serve" => me.listed = ChunksOf[live]
        /\ me.step \in {"put", "remove", "rename"} => \A i \in DOMAIN me.missing :
             i < me.at => cache[me.missing[i]] = "good"
        /\ me.step \in {"remove", "rename"} => me.at \in DOMAIN me.missing
  BY <1>1, <1>5 DEF Relies, AfterManifest
<1> QED
  BY <1>1, <1>2, <1>3, <1>4, <1>6 DEF me

\* A client that has its list goes on to a step of the same stretch.
LEMMA AskingGoesOn ==
  ASSUME DownloadInv, NEW c \in Clients, client[c].step \in {"request", "serve", "put", "remove", "rename"},
         NEW r \in ClientStates, r.step \in {"request", "serve", "put", "remove", "rename"},
         r.object = client[c].object, r.chunks = client[c].chunks, r.missing = client[c].missing,
         r.written = client[c].written, r.disturbed = client[c].disturbed,
         ~r.disturbed =>
           /\ r.step = "serve" => r.listed = ChunksOf[live]
           /\ r.step \in {"put", "remove", "rename"} => \A i \in DOMAIN r.missing :
                i < r.at => cache[r.missing[i]] = "good"
           /\ r.step \in {"remove", "rename"} => r.at \in DOMAIN r.missing
  PROVE  WritesManifest(r, past) /\ AsksOnce(r) /\ Relies(r, live, cache)
<1>1. WritesManifest(r, past)
  BY AskingFacts DEF WritesManifest, AfterManifest
<1>2. AsksOnce(r)
  BY ClientFacts DEF AsksOnce
<1>3. Relies(r, live, cache)
  BY AskingFacts DEF Relies, AfterManifest
<1> QED
  BY <1>1, <1>2, <1>3

\* A request of an undisturbed client is not refused for its length.
LEMMA RequestFits ==
  ASSUME DownloadInv, ManifestsFit, NEW c \in Clients, client[c].step = "request", ~client[c].disturbed
  PROVE  Len(client[c].missing) <= MaxHashes
<1> DEFINE me == client[c]
<1>1. /\ live # Absent /\ Listed(me.missing) \subseteq Listed(ChunksOf[live])
      /\ Cardinality(Listed(me.missing)) = Len(me.missing) /\ me.missing \in Seq(ChunkHashes)
  BY AskingFacts
<1>2. live \in Objects /\ ChunksOf[live] \in Seq(ChunkHashes)
  BY <1>1, ChunksOfAssumption DEF DownloadInv, DownloadTypeOK
<1>3. IsFiniteSet(Listed(ChunksOf[live])) /\ IsFiniteSet(Listed(me.missing))
  BY <1>1, <1>2, ListedIsFinite
<1>4. Cardinality(Listed(me.missing)) <= Cardinality(Listed(ChunksOf[live]))
  BY <1>1, <1>3, FS_Subset
<1>5. Cardinality(Listed(ChunksOf[live])) <= MaxHashes /\ MaxHashes \in Nat
  BY <1>2 DEF ManifestsFit
<1>6. Cardinality(Listed(ChunksOf[live])) \in Nat /\ Len(me.missing) \in Nat
  BY <1>1, <1>3, FS_CardinalityType
<1> HIDE DEF me
<1> QED
  BY <1>1, <1>4, <1>5, <1>6 DEF me

\* The request: neither too long nor about nothing unless disturbed.
LEMMA RequestKeeps == ASSUME DownloadInv, NEW c \in Clients, Request(c) PROVE DownloadInv'
<1> DEFINE me == client[c]
<1>1. me.step = "request" /\ me \in ClientStates /\ UNCHANGED <<live, past, cache, output>>
  BY ClientFacts DEF Request
<1>2. CASE (Len(me.missing) > MaxHashes \/ live = Absent) /\ Become(c, Failed(c))
  <2>1. ManifestsFit => me.disturbed
    <3> SUFFICES ASSUME ManifestsFit, ~me.disturbed PROVE FALSE
      OBVIOUS
    <3>1. live # Absent /\ me.missing \in Seq(ChunkHashes)
      BY <1>1, AskingFacts
    <3>2. Len(me.missing) <= MaxHashes /\ MaxHashes \in Nat
      BY <1>1, RequestFits DEF ManifestsFit
    <3> QED
      BY <1>2, <3>1, <3>2
  <2> QED
    BY <1>1, <1>2, <2>1, ClientFails
<1>3. CASE live # Absent /\ Become(c, [me EXCEPT !.step = "serve", !.listed = ChunksOf[live]])
  <2> DEFINE r == [me EXCEPT !.step = "serve", !.listed = ChunksOf[live]]
  <2>1. /\ r \in ClientStates /\ r.step = "serve" /\ r.listed = ChunksOf[live]
        /\ r.object = me.object /\ r.chunks = me.chunks /\ r.missing = me.missing
        /\ r.written = me.written /\ r.disturbed = me.disturbed
    BY <1>1, <1>3, ClientFacts DEF ClientStates, AfterManifest
  <2>2. client' = [client EXCEPT ![c] = r]
    BY <1>3 DEF Become
  <2> HIDE DEF r
  <2>3. WritesManifest(r, past) /\ AsksOnce(r) /\ Relies(r, live, cache)
    BY <1>1, <2>1, AskingGoesOn
  <2> QED
    BY <1>1, <2>1, <2>2, <2>3, ClientGoesOn
<1>4. CASE me.disturbed /\ Become(c, [me EXCEPT !.step = "serve", !.listed = <<>>])
  <2> DEFINE r == [me EXCEPT !.step = "serve", !.listed = <<>>]
  <2>1. /\ r \in ClientStates /\ r.step = "serve"
        /\ r.object = me.object /\ r.chunks = me.chunks /\ r.missing = me.missing
        /\ r.written = me.written /\ r.disturbed = me.disturbed
    <3>1. <<>> \in Seq(ChunkHashes) /\ "serve" \in AfterManifest
      BY DEF AfterManifest
    <3> QED
      BY <1>1, <3>1 DEF ClientStates
  <2>2. client' = [client EXCEPT ![c] = r]
    BY <1>4 DEF Become
  <2> HIDE DEF r
  <2>3. WritesManifest(r, past) /\ AsksOnce(r) /\ Relies(r, live, cache)
    BY <1>1, <1>4, <2>1, AskingGoesOn
  <2> QED
    BY <1>1, <2>1, <2>2, <2>3, ClientGoesOn
<1> QED
  BY <1>2, <1>3, <1>4 DEF Request

\* A block served: undisturbed, it is one of the object.
LEMMA ServeBlockKeeps == ASSUME DownloadInv, NEW c \in Clients, ServeBlock(c) PROVE DownloadInv'
<1> DEFINE me == client[c]
           h == me.missing[me.at]
<1>1. /\ me.step = "serve" /\ me \in ClientStates /\ UNCHANGED <<live, past, cache, output>>
      /\ me.at \in DOMAIN me.missing /\ me.at \in Nat \ {0}
      /\ me.missing \in Seq(ChunkHashes) /\ h \in ChunkHashes
  <2>1. me.step = "serve" /\ me.at \in DOMAIN me.missing /\ UNCHANGED <<live, past, cache, output>>
    BY DEF ServeBlock
  <2>2. me \in ClientStates /\ me.at \in Nat \ {0} /\ me.missing \in Seq(ChunkHashes)
    BY <2>1, AskingFacts
  <2> QED
    BY <2>1, <2>2
<1>2. CASE (h \notin Listed(me.listed) \/ h \notin Listed(RowsNow(live))) /\ Become(c, Failed(c))
  <2>1. me.disturbed
    <3> SUFFICES ASSUME ~me.disturbed PROVE FALSE
      OBVIOUS
    <3>1. /\ live # Absent /\ me.listed = ChunksOf[live]
          /\ Listed(me.missing) \subseteq Listed(ChunksOf[live])
      BY <1>1, AskingFacts
    <3>2. h \in Listed(me.missing)
      BY <1>1 DEF Listed
    <3> QED
      BY <1>2, <3>1, <3>2 DEF RowsNow
  <2> QED
    BY <1>1, <1>2, <2>1, ClientFails
<1>3. CASE Become(c, [me EXCEPT !.at = me.at + 1, !.fetched = @ \cup {h}])
  <2> DEFINE r == [me EXCEPT !.at = me.at + 1, !.fetched = @ \cup {h}]
  <2>1. me.fetched \cup {h} \in SUBSET ChunkHashes /\ me.at + 1 \in Nat \ {0}
    BY <1>1 DEF ClientStates
  <2> HIDE DEF h
  <2>2. /\ r \in ClientStates /\ r.step = "serve" /\ r.listed = me.listed
        /\ r.object = me.object /\ r.chunks = me.chunks /\ r.missing = me.missing
        /\ r.written = me.written /\ r.disturbed = me.disturbed
    BY <1>1, <2>1 DEF ClientStates
  <2>3. client' = [client EXCEPT ![c] = r]
    BY <1>3 DEF Become, h
  <2>4. ~me.disturbed => me.listed = ChunksOf[live]
    BY <1>1, AskingFacts
  <2> HIDE DEF r
  <2>5. WritesManifest(r, past) /\ AsksOnce(r) /\ Relies(r, live, cache)
    BY <1>1, <2>2, <2>4, AskingGoesOn
  <2> QED
    BY <1>1, <2>2, <2>3, <2>5, ClientGoesOn
<1> QED
  BY <1>2, <1>3 DEF ServeBlock

\* The answer has arrived: no chunk of it is cached yet.
LEMMA ServedKeeps == ASSUME DownloadInv, NEW c \in Clients, Served(c) PROVE DownloadInv'
<1> DEFINE me == client[c]
           r == [me EXCEPT !.step = "put", !.at = 1]
<1>1. me.step = "serve" /\ me \in ClientStates /\ UNCHANGED <<live, past, cache, output>>
  BY ClientFacts DEF Served
<1>2. client' = [client EXCEPT ![c] = r]
  BY DEF Served, Become
<1>3. /\ r \in ClientStates /\ r.step = "put" /\ r.at = 1
      /\ r.object = me.object /\ r.chunks = me.chunks /\ r.missing = me.missing
      /\ r.written = me.written /\ r.disturbed = me.disturbed
  <2>1. 1 \in Nat \ {0} /\ "put" \in AfterManifest
    BY DEF AfterManifest
  <2>2. r = [me EXCEPT !.step = "put", !.at = 1]
    OBVIOUS
  <2> HIDE DEF r, me
  <2> QED
    BY <1>1, <2>1, <2>2 DEF ClientStates
<1>4. \A i \in DOMAIN me.missing : ~(i < 1)
  BY <1>1, AskingFacts
<1> HIDE DEF r
<1>5. WritesManifest(r, past) /\ AsksOnce(r) /\ Relies(r, live, cache)
  BY <1>1, <1>3, <1>4, AskingGoesOn
<1> QED
  BY <1>1, <1>2, <1>3, <1>5, ClientGoesOn

\* A chunk to cache: one more is good, or about to be written.
LEMMA PutChunkKeeps == ASSUME DownloadInv, NEW c \in Clients, PutChunk(c) PROVE DownloadInv'
<1> DEFINE me == client[c]
           h == me.missing[me.at]
<1>1. /\ me.step = "put" /\ me \in ClientStates /\ UNCHANGED <<live, past, cache, output>>
      /\ me.at \in Nat \ {0} /\ me.missing \in Seq(ChunkHashes)
  <2>1. me.step = "put" /\ UNCHANGED <<live, past, cache, output>>
    BY DEF PutChunk
  <2> QED
    BY <2>1, AskingFacts
<1>2. CASE me.at > Len(me.missing) /\ Become(c, [me EXCEPT !.step = "reconstruct", !.at = 1])
  <2> DEFINE r == [me EXCEPT !.step = "reconstruct", !.at = 1]
  <2>1. 1 \in Nat \ {0} /\ "reconstruct" \in AfterManifest
    BY DEF AfterManifest
  <2>2. /\ r \in ClientStates /\ r.step = "reconstruct" /\ r.at = 1
        /\ r.object = me.object /\ r.chunks = me.chunks /\ r.missing = me.missing
        /\ r.written = me.written /\ r.disturbed = me.disturbed
    <3>1. r = [me EXCEPT !.step = "reconstruct", !.at = 1]
      OBVIOUS
    <3> HIDE DEF r, me
    <3> QED
      BY <1>1, <2>1, <3>1 DEF ClientStates
  <2>3. client' = [client EXCEPT ![c] = r]
    BY <1>2 DEF Become
  <2> HIDE DEF r
  <2>4. WritesManifest(r, past)
    <3>1. /\ me.object \in past /\ me.chunks \in {<<>>, ChunksOf[me.object]} /\ me.written = <<>>
          /\ me.chunks \in Seq(ChunkHashes)
      BY <1>1, AskingFacts
    <3>2. SubSeq(r.chunks, 1, r.at - 1) = <<>> /\ r.at <= Len(r.chunks) + 1
      BY <2>2, <3>1
    <3> QED
      BY <2>2, <3>1, <3>2 DEF WritesManifest, AfterManifest
  <2>5. AsksOnce(r)
    BY <2>2, ClientFacts DEF AsksOnce
  <2>6. Relies(r, live, cache)
    <3> SUFFICES ASSUME ~r.disturbed PROVE Relies(r, live, cache)
      BY DEF Relies
    <3>1. /\ live # Absent /\ me.object = live /\ me.chunks = ChunksOf[live]
          /\ \A i \in DOMAIN me.chunks :
               me.chunks[i] \in Listed(me.missing) \/ cache[me.chunks[i]] = "good"
          /\ \A i \in DOMAIN me.missing : i < me.at => cache[me.missing[i]] = "good"
      BY <1>1, <2>2, AskingFacts
    <3>2. \A i \in DOMAIN me.missing : cache[me.missing[i]] = "good"
      BY <1>1, <1>2, <3>1
    <3>3. \A i \in DOMAIN me.chunks : cache[me.chunks[i]] = "good"
      BY <3>1, <3>2 DEF Listed
    <3> QED
      BY <2>2, <3>1, <3>3 DEF Relies, AfterManifest
  <2> QED
    BY <1>1, <2>2, <2>3, <2>4, <2>5, <2>6, ClientGoesOn
<1>3. CASE me.at \in DOMAIN me.missing /\ cache[h] = "good" /\ Become(c, [me EXCEPT !.at = me.at + 1])
  <2> DEFINE r == [me EXCEPT !.at = me.at + 1]
  <2>1. me.at + 1 \in Nat \ {0}
    BY <1>1
  <2>2. /\ r \in ClientStates /\ r.step = "put" /\ r.at = me.at + 1
        /\ r.object = me.object /\ r.chunks = me.chunks /\ r.missing = me.missing
        /\ r.written = me.written /\ r.disturbed = me.disturbed
    BY <1>1, <2>1 DEF ClientStates
  <2>3. client' = [client EXCEPT ![c] = r]
    BY <1>3 DEF Become
  <2>4. ~me.disturbed => \A i \in DOMAIN me.missing : i < me.at + 1 => cache[me.missing[i]] = "good"
    <3>1. ~me.disturbed => \A i \in DOMAIN me.missing : i < me.at => cache[me.missing[i]] = "good"
      BY <1>1, AskingFacts
    <3>2. \A i \in DOMAIN me.missing : i < me.at + 1 => i < me.at \/ i = me.at
      BY <1>1
    <3> QED
      BY <1>3, <3>1, <3>2
  <2> HIDE DEF r
  <2>5. WritesManifest(r, past) /\ AsksOnce(r) /\ Relies(r, live, cache)
    BY <1>1, <2>2, <2>4, AskingGoesOn
  <2> QED
    BY <1>1, <2>2, <2>3, <2>5, ClientGoesOn
<1>4. CASE me.at \in DOMAIN me.missing /\ Become(c, [me EXCEPT !.step = "remove"])
  <2> DEFINE r == [me EXCEPT !.step = "remove"]
  <2>1. /\ r \in ClientStates /\ r.step = "remove" /\ r.at = me.at
        /\ r.object = me.object /\ r.chunks = me.chunks /\ r.missing = me.missing
        /\ r.written = me.written /\ r.disturbed = me.disturbed
    BY <1>1 DEF ClientStates, AfterManifest
  <2>2. client' = [client EXCEPT ![c] = r]
    BY <1>4 DEF Become
  <2>3. ~me.disturbed => \A i \in DOMAIN me.missing : i < me.at => cache[me.missing[i]] = "good"
    BY <1>1, AskingFacts
  <2> HIDE DEF r
  <2>4. WritesManifest(r, past) /\ AsksOnce(r) /\ Relies(r, live, cache)
    BY <1>1, <1>4, <2>1, <2>3, AskingGoesOn
  <2> QED
    BY <1>1, <2>1, <2>2, <2>4, ClientGoesOn
<1> QED
  BY <1>2, <1>3, <1>4 DEF PutChunk

\* What the others rely on, when nothing they do changes but what they are
\* told of, and a client goes on to r.
LEMMA OthersGoOn ==
  ASSUME DownloadInv, NEW c \in Clients, NEW r \in ClientStates, UNCHANGED <<live, past, output>>,
         cache' \in [ChunkHashes -> {"none", "good", "damaged"}],
         \/ /\ client' = [client EXCEPT ![c] = r]
            /\ \A h \in ChunkHashes : cache[h] = "good" => cache'[h] = "good"
         \/ client' = [AllDisturbed EXCEPT ![c] = r],
         WritesManifest(r, past), AsksOnce(r), Relies(r, live, cache'), r.step \notin {"done", "failed"}
  PROVE  DownloadInv'
<1>t. DownloadTypeOK /\ OutputIsAnObject
  BY DEF DownloadInv
<1>1. DOMAIN client = Clients /\ DOMAIN AllDisturbed = Clients
  BY <1>t DEF DownloadTypeOK, AllDisturbed
<1>2. client'[c] = r /\ DOMAIN client' = Clients
  BY <1>1
<1>3. ASSUME NEW d \in Clients \ {c}
      PROVE  /\ client'[d] \in ClientStates
             /\ WritesManifest(client'[d], past) /\ AsksOnce(client'[d]) /\ Relies(client'[d], live, cache')
             /\ client'[d].step = client[d].step /\ client'[d].object = client[d].object
             /\ client[d].disturbed => client'[d].disturbed
  <2>0. /\ client[d] \in ClientStates /\ WritesManifest(client[d], past) /\ AsksOnce(client[d])
        /\ Relies(client[d], live, cache)
    BY ClientFacts
  <2>1. CASE /\ client'[d] = client[d]
             /\ \A h \in ChunkHashes : cache[h] = "good" => cache'[h] = "good"
    <3>1. Relies(client[d], live, cache')
      BY <2>0, <2>1, GoodIsEnough
    <3> QED
      BY <2>0, <2>1, <3>1
  <2>2. CASE client'[d] = [client[d] EXCEPT !.disturbed = @ \/ client[d].step \notin {"done", "failed"}]
    <3> DEFINE t == client'[d]
               u == client[d]
    <3> DEFINE more == past
    <3>1. t = [u EXCEPT !.disturbed = @ \/ u.step \notin {"done", "failed"}] /\ past \subseteq more
      BY <2>2
    <3> HIDE DEF t, u, more
    <3>2. u \in ClientStates /\ WritesManifest(u, past) /\ AsksOnce(u)
      BY <2>0 DEF u
    <3>3. /\ t \in ClientStates /\ WritesManifest(t, more) /\ AsksOnce(t)
          /\ \A object, cached : Relies(t, object, cached)
          /\ t.step = u.step /\ t.object = u.object /\ (u.disturbed => t.disturbed)
      BY <3>1, <3>2, DisturbedKeeps, ZenonT(60)
    <3> QED
      BY <3>3 DEF t, u, more
  <2>3. client' = [AllDisturbed EXCEPT ![c] = r] =>
          client'[d] = [client[d] EXCEPT !.disturbed = @ \/ client[d].step \notin {"done", "failed"}]
    BY <1>1 DEF AllDisturbed, Downloading
  <2>4. client' = [client EXCEPT ![c] = r] => client'[d] = client[d]
    BY <1>1
  <2> QED
    BY <2>1, <2>2, <2>3, <2>4
<1>4. DownloadTypeOK'
  <2>1. \A d \in Clients : client'[d] \in ClientStates
    BY <1>2, <1>3
  <2>2. client' \in [Clients -> ClientStates]
    <3>1. client' = [d \in Clients |-> client'[d]]
      BY <1>1
    <3> QED
      BY <2>1, <3>1
  <2> QED
    BY <1>t, <2>2 DEF DownloadTypeOK
<1>5. \A d \in Clients : /\ WritesManifest(client'[d], past') /\ AsksOnce(client'[d])
                         /\ Relies(client'[d], live', cache')
  BY <1>2, <1>3
<1>6. OutputIsAnObject'
  BY <1>t, <1>2, <1>3 DEF OutputIsAnObject
<1>7. ManifestsFit => UndisturbedDownloadsSucceed'
  BY <1>2, <1>3 DEF DownloadInv, UndisturbedDownloadsSucceed
<1> QED
  BY <1>4, <1>5, <1>6, <1>7 DEF DownloadInv, ManifestsFit

\* The old file removed: no other chunk of this client, and whoever relied
\* on the file is told.
LEMMA RemoveOldKeeps == ASSUME DownloadInv, NEW c \in Clients, RemoveOld(c) PROVE DownloadInv'
<1> DEFINE me == client[c]
           h == me.missing[me.at]
           r == [me EXCEPT !.step = "rename"]
<1>1. /\ me.step = "remove" /\ me \in ClientStates /\ UNCHANGED <<live, past, output>>
      /\ cache' = [cache EXCEPT ![h] = "none"]
      /\ cache \in [ChunkHashes -> {"none", "good", "damaged"}]
  BY ClientFacts DEF RemoveOld, DownloadInv, DownloadTypeOK
<1>2. /\ r \in ClientStates /\ r.step = "rename" /\ r.at = me.at
      /\ r.object = me.object /\ r.chunks = me.chunks /\ r.missing = me.missing
      /\ r.written = me.written /\ r.disturbed = me.disturbed
  BY <1>1 DEF ClientStates, AfterManifest
<1>3. \/ /\ client' = [client EXCEPT ![c] = r]
         /\ \A k \in ChunkHashes : cache[k] = "good" => cache'[k] = "good"
      \/ client' = [AllDisturbed EXCEPT ![c] = r]
  <2>1. CASE cache[h] = "good"
    BY <2>1 DEF RemoveOld
  <2>2. CASE cache[h] # "good"
    <3>1. client' = [client EXCEPT ![c] = r]
      BY <2>2 DEF RemoveOld
    <3>2. \A k \in ChunkHashes : cache[k] = "good" => cache'[k] = "good"
      BY <1>1, <2>2
    <3> QED
      BY <3>1, <3>2
  <2> QED
    BY <2>1, <2>2
<1>4. WritesManifest(r, past)
  BY <1>1, <1>2, AskingFacts DEF WritesManifest, AfterManifest
<1>5. AsksOnce(r)
  BY <1>2, ClientFacts DEF AsksOnce
<1>6. Relies(r, live, cache')
  <2> SUFFICES ASSUME ~r.disturbed PROVE Relies(r, live, cache')
    BY DEF Relies
  <2>1. /\ live # Absent /\ me.object = live /\ me.chunks = ChunksOf[live]
        /\ Listed(me.missing) \subseteq Listed(me.chunks)
        /\ \A i \in DOMAIN me.chunks :
             me.chunks[i] \in Listed(me.missing) \/ cache[me.chunks[i]] = "good"
        /\ \A i \in DOMAIN me.missing : i < me.at => cache[me.missing[i]] = "good"
        /\ me.at \in DOMAIN me.missing
    BY <1>1, <1>2, AskingFacts
  <2>2. /\ \A i, j \in DOMAIN me.missing : me.missing[i] = me.missing[j] => i = j
        /\ me.missing \in Seq(ChunkHashes) /\ me.chunks \in Seq(ChunkHashes)
    BY <1>1, AskingFacts
  <2>3. h \in Listed(me.missing)
    BY <2>1 DEF Listed
  <2>4. \A k \in ChunkHashes : k # h => cache'[k] = cache[k]
    BY <1>1
  <2>5. ASSUME NEW i \in DOMAIN me.chunks
        PROVE  me.chunks[i] \in Listed(me.missing) \/ cache'[me.chunks[i]] = "good"
    <3>1. me.chunks[i] \in ChunkHashes
      BY <2>2, <2>5
    <3> HIDE DEF h
    <3> QED
      BY <2>1, <2>3, <2>4, <3>1
  <2>6. ASSUME NEW i \in DOMAIN me.missing, i < me.at
        PROVE  cache'[me.missing[i]] = "good"
    <3>1. me.missing[i] \in ChunkHashes /\ i # me.at
      BY <2>1, <2>2, <2>6
    <3>2. me.missing[i] # h
      BY <2>1, <2>2, <2>6, <3>1
    <3> HIDE DEF h
    <3> QED
      BY <2>1, <2>4, <2>6, <3>1, <3>2
  <2> HIDE DEF r, me
  <2> QED
    BY <1>2, <2>1, <2>5, <2>6 DEF Relies, AfterManifest
<1>7. cache' \in [ChunkHashes -> {"none", "good", "damaged"}]
  BY <1>1
<1> HIDE DEF r
<1> QED
  BY <1>1, <1>2, <1>3, <1>4, <1>5, <1>6, <1>7, OthersGoOn

\* The new file in place: good for everybody.
LEMMA RenameChunkKeeps == ASSUME DownloadInv, NEW c \in Clients, RenameChunk(c) PROVE DownloadInv'
<1> DEFINE me == client[c]
           h == me.missing[me.at]
           r == [me EXCEPT !.step = "put", !.at = me.at + 1]
<1>1. /\ me.step = "rename" /\ me \in ClientStates /\ UNCHANGED <<live, past, output>>
      /\ client' = [client EXCEPT ![c] = r]
      /\ cache' = [cache EXCEPT ![h] = "good"]
      /\ cache \in [ChunkHashes -> {"none", "good", "damaged"}]
  BY ClientFacts DEF RenameChunk, Become, DownloadInv, DownloadTypeOK
<1>2. /\ r \in ClientStates /\ r.step = "put" /\ r.at = me.at + 1
      /\ r.object = me.object /\ r.chunks = me.chunks /\ r.missing = me.missing
      /\ r.written = me.written /\ r.disturbed = me.disturbed
  <2>1. me.at + 1 \in Nat \ {0} /\ "put" \in AfterManifest
    BY <1>1, AskingFacts DEF AfterManifest
  <2>2. r = [me EXCEPT !.step = "put", !.at = me.at + 1]
    OBVIOUS
  <2> HIDE DEF r, me
  <2> QED
    BY <1>1, <2>1, <2>2 DEF ClientStates
<1>3. \A k \in ChunkHashes : cache[k] = "good" => cache'[k] = "good"
  BY <1>1
<1>4. WritesManifest(r, past)
  BY <1>1, <1>2, AskingFacts DEF WritesManifest, AfterManifest
<1>5. AsksOnce(r)
  BY <1>2, ClientFacts DEF AsksOnce
<1>6. Relies(r, live, cache')
  <2> SUFFICES ASSUME ~r.disturbed PROVE Relies(r, live, cache')
    BY DEF Relies
  <2>1. /\ live # Absent /\ me.object = live /\ me.chunks = ChunksOf[live]
        /\ Listed(me.missing) \subseteq Listed(me.chunks)
        /\ \A i \in DOMAIN me.chunks :
             me.chunks[i] \in Listed(me.missing) \/ cache[me.chunks[i]] = "good"
        /\ \A i \in DOMAIN me.missing : i < me.at => cache[me.missing[i]] = "good"
        /\ me.at \in DOMAIN me.missing
        /\ me.missing \in Seq(ChunkHashes) /\ me.chunks \in Seq(ChunkHashes)
    BY <1>1, <1>2, AskingFacts
  <2>2. h \in ChunkHashes
    BY <2>1
  <2>3. cache'[h] = "good"
    BY <1>1, <2>2
  <2>4. ASSUME NEW i \in DOMAIN me.chunks
        PROVE  me.chunks[i] \in Listed(me.missing) \/ cache'[me.chunks[i]] = "good"
    BY <1>3, <2>1, <2>4
  <2>5. ASSUME NEW i \in DOMAIN me.missing, i < me.at + 1
        PROVE  cache'[me.missing[i]] = "good"
    <3>1. i < me.at \/ i = me.at
      BY <2>1, <2>5
    <3>2. me.missing[i] \in ChunkHashes
      BY <2>1, <2>5
    <3> QED
      BY <1>3, <2>1, <2>3, <2>5, <3>1, <3>2
  <2> HIDE DEF r, me
  <2> QED
    BY <1>2, <2>1, <2>4, <2>5 DEF Relies, AfterManifest
<1>7. cache' \in [ChunkHashes -> {"none", "good", "damaged"}]
  BY <1>1
<1> HIDE DEF r
<1> QED
  BY <1>1, <1>2, <1>3, <1>4, <1>5, <1>6, <1>7, OthersGoOn

\* What is known of a client that puts its object together.
LEMMA WritingFacts ==
  ASSUME DownloadInv, NEW c \in Clients, client[c].step = "reconstruct"
  PROVE  LET me == client[c]
         IN  /\ me \in ClientStates /\ me.at \in Nat \ {0} /\ me.at <= Len(me.chunks) + 1
             /\ me.missing \in Seq(ChunkHashes) /\ me.chunks \in Seq(ChunkHashes)
             /\ me.object \in past /\ me.chunks \in {<<>>, ChunksOf[me.object]}
             /\ me.written = SubSeq(me.chunks, 1, me.at - 1)
             /\ ~me.disturbed =>
                  /\ live # Absent /\ me.object = live /\ me.chunks = ChunksOf[live]
                  /\ \A i \in DOMAIN me.chunks : cache[me.chunks[i]] = "good"
<1> DEFINE me == client[c]
<1>1. me \in ClientStates /\ WritesManifest(me, past) /\ Relies(me, live, cache) /\ me.step = "reconstruct"
  BY ClientFacts
<1> HIDE DEF me
<1>2. me.at \in Nat \ {0} /\ me.missing \in Seq(ChunkHashes) /\ me.chunks \in Seq(ChunkHashes)
  BY <1>1 DEF ClientStates
<1>3. /\ me.object \in past /\ me.chunks \in {<<>>, ChunksOf[me.object]} /\ me.at <= Len(me.chunks) + 1
      /\ me.written = SubSeq(me.chunks, 1, me.at - 1)
  BY <1>1 DEF WritesManifest, AfterManifest
<1>4. ~me.disturbed =>
        /\ live # Absent /\ me.object = live /\ me.chunks = ChunksOf[live]
        /\ \A i \in DOMAIN me.chunks : cache[me.chunks[i]] = "good"
  BY <1>1 DEF Relies, AfterManifest
<1> QED
  BY <1>1, <1>2, <1>3, <1>4 DEF me

\* A chunk written out: undisturbed, it is good.
LEMMA WriteChunkKeeps == ASSUME DownloadInv, NEW c \in Clients, WriteChunk(c) PROVE DownloadInv'
<1> DEFINE me == client[c]
           h == me.chunks[me.at]
<1>1. me.step = "reconstruct" /\ me.at \in DOMAIN me.chunks /\ UNCHANGED <<live, past, cache, output>>
  BY DEF WriteChunk
<1>2. /\ me \in ClientStates /\ me.at \in Nat \ {0} /\ me.at <= Len(me.chunks)
      /\ me.chunks \in Seq(ChunkHashes) /\ h \in ChunkHashes
      /\ me.object \in past /\ me.chunks \in {<<>>, ChunksOf[me.object]}
      /\ me.written = SubSeq(me.chunks, 1, me.at - 1)
  BY <1>1, WritingFacts
<1>3. CASE cache[h] # "good"
  <2>1. Become(c, Failed(c))
    BY <1>3 DEF WriteChunk
  <2>2. me.disturbed
    BY <1>1, <1>3, WritingFacts
  <2> QED
    BY <1>1, <2>1, <2>2, ClientFails
<1>4. CASE cache[h] = "good"
  <2> DEFINE r == [me EXCEPT !.at = me.at + 1, !.written = Append(@, h)]
  <2>1. me.at + 1 \in Nat \ {0} /\ Append(me.written, h) \in Seq(ChunkHashes)
    BY <1>2
  <2>2. client' = [client EXCEPT ![c] = r]
    BY <1>4 DEF WriteChunk, Become
  <2>3. /\ r \in ClientStates /\ r.step = "reconstruct" /\ r.at = me.at + 1
        /\ r.object = me.object /\ r.chunks = me.chunks /\ r.missing = me.missing
        /\ r.written = Append(me.written, h) /\ r.disturbed = me.disturbed
    <3>1. r = [me EXCEPT !.at = me.at + 1, !.written = Append(@, h)]
      OBVIOUS
    <3> HIDE DEF r, h, me
    <3> QED
      BY <1>1, <1>2, <2>1, <3>1 DEF ClientStates
  <2>4. Append(me.written, h) = SubSeq(me.chunks, 1, me.at)
    BY <1>1, <1>2
  <2>5. WritesManifest(r, past)
    <3>1. r.at - 1 = me.at /\ r.at <= Len(r.chunks) + 1
      BY <1>2, <2>3
    <3> HIDE DEF r, h, me
    <3> QED
      BY <1>2, <2>3, <2>4, <3>1 DEF WritesManifest, AfterManifest
  <2>6. AsksOnce(r)
    BY <1>1, <2>3, ClientFacts DEF AsksOnce
  <2>7. Relies(r, live, cache)
    BY <1>1, <2>3, WritingFacts DEF Relies, AfterManifest
  <2> HIDE DEF r
  <2> QED
    BY <1>1, <2>2, <2>3, <2>5, <2>6, <2>7, ClientGoesOn
<1> QED
  BY <1>3, <1>4

\* The end: what passes the check is the object.
LEMMA InstallKeeps == ASSUME DownloadInv, NEW c \in Clients, Install(c) PROVE DownloadInv'
<1> DEFINE me == client[c]
<1>t. DownloadTypeOK /\ OutputIsAnObject
  BY DEF DownloadInv
<1>1. me.step = "reconstruct" /\ me.at > Len(me.chunks) /\ UNCHANGED <<live, past, cache>>
  BY DEF Install
<1>2. /\ me \in ClientStates /\ me.chunks \in Seq(ChunkHashes) /\ me.at \in Nat \ {0}
      /\ me.at <= Len(me.chunks) + 1 /\ me.object \in past
      /\ me.chunks \in {<<>>, ChunksOf[me.object]} /\ me.written = SubSeq(me.chunks, 1, me.at - 1)
  BY <1>1, WritingFacts
<1>3. me.written = me.chunks
  <2>1. me.at - 1 = Len(me.chunks)
    BY <1>1, <1>2
  <2>2. SubSeq(me.chunks, 1, Len(me.chunks)) = me.chunks
    BY <1>2
  <2> QED
    BY <1>2, <2>1, <2>2
<1>4. ChunksOf[me.object] \in Seq(ChunkHashes)
  BY <1>t, <1>2, ChunksOfAssumption DEF DownloadTypeOK
<1>5. Check(c) => me.written = ChunksOf[me.object]
  <2>1. Check(c) => Len(me.written) = Len(ChunksOf[me.object])
    BY DEF Check
  <2>2. CASE me.chunks = <<>>
    BY <1>3, <1>4, <2>1, <2>2
  <2>3. CASE me.chunks = ChunksOf[me.object]
    BY <1>3, <2>3
  <2> QED
    BY <1>2, <2>2, <2>3
<1>6. ~me.disturbed => Check(c)
  BY <1>1, <1>3, WritingFacts DEF Check
<1>7. CASE ~Check(c) /\ Become(c, Failed(c)) /\ UNCHANGED output
  BY <1>1, <1>6, <1>7, ClientFails
<1>8. CASE Check(c) /\ output' = [output EXCEPT ![c] = me.written] /\ Become(c, [me EXCEPT !.step = "done"])
  <2> DEFINE r == [me EXCEPT !.step = "done"]
  <2>1. /\ r \in ClientStates /\ r.step = "done" /\ r.object = me.object /\ r.missing = me.missing
        /\ r.disturbed = me.disturbed
    BY <1>2 DEF ClientStates
  <2>2. client' = [client EXCEPT ![c] = r]
    BY <1>8 DEF Become
  <2> HIDE DEF r
  <2>3. WritesManifest(r, past) /\ Relies(r, live, cache)
    BY <1>2, <2>1 DEF WritesManifest, Relies, AfterManifest
  <2>4. AsksOnce(r)
    BY <2>1, ClientFacts DEF AsksOnce
  <2>5. client'[c] = r /\ \A d \in Clients \ {c} : client'[d] = client[d]
    BY <1>t, <2>2 DEF DownloadTypeOK
  <2>6. output'[c] = ChunksOf[me.object] /\ \A d \in Clients \ {c} : output'[d] = output[d]
    BY <1>t, <1>5, <1>8 DEF DownloadTypeOK
  <2>7. DownloadTypeOK'
    BY <1>t, <1>1, <1>8, <2>1, <2>2 DEF DownloadTypeOK
  <2>8. \A d \in Clients : /\ WritesManifest(client'[d], past') /\ AsksOnce(client'[d])
                           /\ Relies(client'[d], live', cache')
    BY <1>1, <2>3, <2>4, <2>5 DEF DownloadInv
  <2>9. OutputIsAnObject'
    BY <1>t, <1>1, <1>2, <2>1, <2>5, <2>6 DEF OutputIsAnObject
  <2>10. ManifestsFit => UndisturbedDownloadsSucceed'
    BY <2>1, <2>5 DEF DownloadInv, UndisturbedDownloadsSucceed
  <2> QED
    BY <2>7, <2>8, <2>9, <2>10 DEF DownloadInv, ManifestsFit
<1>9. CASE output' = [output EXCEPT ![c] = Gone] /\ Become(c, [Failed(c) EXCEPT !.disturbed = TRUE])
  <2> DEFINE r == [Failed(c) EXCEPT !.disturbed = TRUE]
  <2>1. /\ r \in ClientStates /\ r.step = "failed" /\ r.missing = me.missing /\ r.disturbed
    BY <1>2 DEF ClientStates, Failed
  <2>2. client' = [client EXCEPT ![c] = r]
    BY <1>9 DEF Become
  <2> HIDE DEF r
  <2>3. WritesManifest(r, past) /\ Relies(r, live, cache)
    BY <1>2, <2>1 DEF WritesManifest, Relies, AfterManifest
  <2>4. AsksOnce(r)
    BY <2>1, ClientFacts DEF AsksOnce
  <2>5. client'[c] = r /\ \A d \in Clients \ {c} : client'[d] = client[d]
    BY <1>t, <2>2 DEF DownloadTypeOK
  <2>6. output'[c] = Gone /\ \A d \in Clients \ {c} : output'[d] = output[d]
    BY <1>t, <1>9 DEF DownloadTypeOK
  <2>7. DownloadTypeOK'
    BY <1>t, <1>1, <1>9, <2>1, <2>2 DEF DownloadTypeOK
  <2>8. \A d \in Clients : /\ WritesManifest(client'[d], past') /\ AsksOnce(client'[d])
                           /\ Relies(client'[d], live', cache')
    BY <1>1, <2>3, <2>4, <2>5 DEF DownloadInv
  <2>9. OutputIsAnObject'
    BY <1>t, <1>1, <2>1, <2>5, <2>6 DEF OutputIsAnObject
  <2>10. ManifestsFit => UndisturbedDownloadsSucceed'
    BY <2>1, <2>5 DEF DownloadInv, UndisturbedDownloadsSucceed
  <2> QED
    BY <2>7, <2>8, <2>9, <2>10 DEF DownloadInv, ManifestsFit
<1> QED
  BY <1>7, <1>8, <1>9 DEF Install

\* The others' doings, of which every download under way is told.
LEMMA AllAreDisturbed ==
  ASSUME DownloadInv, client' = AllDisturbed, UNCHANGED output,
         past \subseteq past', past' \in SUBSET Objects, live' \in past' \cup {Absent},
         cache' \in [ChunkHashes -> {"none", "good", "damaged"}]
  PROVE  DownloadInv'
<1>t. DownloadTypeOK /\ OutputIsAnObject
  BY DEF DownloadInv
<1>1. client' = [d \in Clients |-> client'[d]]
  BY DEF AllDisturbed
<1>2. ASSUME NEW d \in Clients
      PROVE  /\ client'[d] \in ClientStates
             /\ WritesManifest(client'[d], past') /\ AsksOnce(client'[d]) /\ Relies(client'[d], live', cache')
             /\ client'[d].step = client[d].step /\ client'[d].object = client[d].object
             /\ client[d].disturbed => client'[d].disturbed
  <2> DEFINE t == client'[d]
             u == client[d]
  <2>1. t = [u EXCEPT !.disturbed = @ \/ u.step \notin {"done", "failed"}]
    BY DEF AllDisturbed, Downloading
  <2>2. u \in ClientStates /\ WritesManifest(u, past) /\ AsksOnce(u)
    BY ClientFacts
  <2> HIDE DEF t, u
  <2>3. /\ t \in ClientStates /\ WritesManifest(t, past') /\ AsksOnce(t)
        /\ \A object, cached : Relies(t, object, cached)
        /\ t.step = u.step /\ t.object = u.object /\ (u.disturbed => t.disturbed)
    BY <2>1, <2>2, DisturbedKeeps
  <2> QED
    BY <2>3 DEF t, u
<1>3. client' \in [Clients -> ClientStates]
  BY <1>1, <1>2
<1>4. DownloadTypeOK'
  BY <1>t, <1>3 DEF DownloadTypeOK
<1>5. \A d \in Clients : /\ WritesManifest(client'[d], past') /\ AsksOnce(client'[d])
                         /\ Relies(client'[d], live', cache')
  BY <1>2
<1>6. OutputIsAnObject'
  BY <1>t, <1>2 DEF OutputIsAnObject
<1>7. ManifestsFit => UndisturbedDownloadsSucceed'
  BY <1>2 DEF DownloadInv, UndisturbedDownloadsSucceed
<1> QED
  BY <1>4, <1>5, <1>6, <1>7 DEF DownloadInv, ManifestsFit

\* Replacing, deleting and damaging disturb every download under way.
LEMMA OthersKeep ==
  ASSUME DownloadInv,
         \/ \E object \in Objects : Replace(object)
         \/ DeleteFromServer
         \/ \E h \in ChunkHashes : Damage(h)
  PROVE  DownloadInv'
<1>t. DownloadTypeOK
  BY DEF DownloadInv
<1>1. /\ client' = AllDisturbed /\ UNCHANGED output /\ past \subseteq past'
      /\ past' \in SUBSET Objects /\ live' \in past' \cup {Absent}
      /\ cache' \in [ChunkHashes -> {"none", "good", "damaged"}]
  BY <1>t DEF Replace, DeleteFromServer, Damage, DownloadTypeOK
<1> QED
  BY <1>1, AllAreDisturbed

\* Every step keeps the invariant.
LEMMA DownloadNextInv == DownloadInv /\ [DownloadNext]_downloadVars => DownloadInv'
<1> SUFFICES ASSUME DownloadInv, [DownloadNext]_downloadVars PROVE DownloadInv'
  OBVIOUS
<1>1. ASSUME NEW c \in Clients, DownloadStep(c) PROVE DownloadInv'
  BY <1>1, FetchRowKeeps, FetchManifestKeeps, LookForKeeps, LookedKeeps, RequestKeeps, ServeBlockKeeps,
     ServedKeeps, PutChunkKeeps, RemoveOldKeeps, RenameChunkKeeps, WriteChunkKeeps, InstallKeeps
     DEF DownloadStep
<1>2. CASE UNCHANGED downloadVars
  BY <1>2 DEF downloadVars, DownloadInv, DownloadTypeOK, OutputIsAnObject, UndisturbedDownloadsSucceed,
              ManifestsFit
<1> QED
  BY <1>1, <1>2, OthersKeep DEF DownloadNext

\* However the object, its blocks and the cache change under a download, and
\* whatever other downloads do in the same cache directory, the output file is
\* what was there before, gone, or all of one object (Client.Download).
THEOREM DownloadsAreWhole == DownloadSpec => []OutputIsAnObject
<1>1. DownloadInv => OutputIsAnObject
  BY DEF DownloadInv
<1> QED
  BY <1>1, DownloadInitInv, DownloadNextInv, PTL DEF DownloadSpec

\* Where the server answers a request for all chunks of any object, a download
\* that nothing disturbed does not fail (Client.Download).
THEOREM DownloadsSucceed ==
  ASSUME ManifestsFit
  PROVE  DownloadSpec => []UndisturbedDownloadsSucceed
<1>1. DownloadInv => UndisturbedDownloadsSucceed
  BY DEF DownloadInv
<1> QED
  BY <1>1, DownloadInitInv, DownloadNextInv, PTL DEF DownloadSpec

-----------------------------------------------------------------------------
(* StoredTimes.  Times of two different seconds sort as their seconds do,  *)
(* whatever comes after; the rest is arithmetic.                           *)

TimesInv ==
  /\ seconds \in EnvSeconds /\ now \in Nat
  /\ stamped \in [Rows -> Nat]

\* A set of numbers that ends has a last one.
LEMMA LastOf ==
  ASSUME NEW n \in Nat, NEW P \in SUBSET (1 .. n), P # {}
  PROVE  \E i \in P : \A j \in P : j <= i
<1> DEFINE N == {m \in Nat : \A T \in SUBSET (1 .. m) : T # {} => \E i \in T : \A j \in T : j <= i}
<1>1. 0 \in N
  <2>1. ASSUME NEW T \in SUBSET (1 .. 0), T # {} PROVE FALSE
    <3>1. PICK i : i \in T
      BY <2>1
    <3>2. i \in 1 .. 0
      BY <3>1
    <3> QED
      BY <3>2
  <2>2. \A T \in SUBSET (1 .. 0) : T # {} => \E i \in T : \A j \in T : j <= i
    BY <2>1
  <2>3. 0 \in Nat
    OBVIOUS
  <2> QED
    BY <2>2, <2>3
<1>2. ASSUME NEW m \in Nat, m \in N PROVE m + 1 \in N
  <2> SUFFICES ASSUME NEW T \in SUBSET (1 .. m + 1), T # {} PROVE \E i \in T : \A j \in T : j <= i
    OBVIOUS
  <2>1. CASE m + 1 \in T
    BY <2>1
  <2>2. CASE m + 1 \notin T
    <3>1. T \in SUBSET (1 .. m)
      BY <2>2
    <3> QED
      BY <1>2, <3>1
  <2> QED
    BY <2>1, <2>2
<1>3. Nat \subseteq N
  <2> HIDE DEF N
  <2> QED
    BY <1>1, <1>2, SetInduction
<1> QED
  BY <1>3

\* A time is written as its seconds, a fraction and the end.
LEMMA TimeIs ==
  ASSUME NEW t \in Nat
  PROVE  Len(formatTime(t)) \in Nat \ {0} /\ formatTime(t)[1] = t \div Second
<1>1. PICK places : places = {i \in 1 .. Places : \E j \in i .. Places : Digit(t, j) # 0}
  OBVIOUS
<1>2. PICK length :
        length = IF places = {} THEN 0 ELSE CHOOSE i \in places : \A j \in places : j <= i
  OBVIOUS
<1>3. length \in Nat
  <2>1. CASE places = {}
    BY <1>2, <2>1
  <2>2. CASE places # {}
    <3>1. places \in SUBSET (1 .. Places) /\ Places \in Nat
      BY <1>1, TimesAssumption DEF TimesAssumption
    <3>2. \E i \in places : \A j \in places : j <= i
      BY <2>2, <3>1, LastOf
    <3>3. length \in places
      BY <1>2, <2>2, <3>2
    <3> QED
      BY <3>1, <3>3
  <2> QED
    BY <2>1, <2>2
<1>4. PICK digits : digits = [i \in 1 .. length |-> Digit(t, i)]
  OBVIOUS
<1>5. PICK D : D = {Point, t \div Second, Zulu} \cup {Digit(t, i) : i \in 1 .. length}
  OBVIOUS
<1>6. digits \in Seq(D)
  BY <1>3, <1>4, <1>5
<1>7. Fraction(t) \in Seq(D)
  <2>1. Fraction(t) = IF length = 0 THEN <<>> ELSE <<Point>> \o digits
    BY <1>1, <1>2, <1>4 DEF Fraction
  <2>2. Point \in D
    BY <1>5
  <2> QED
    BY <1>6, <2>1, <2>2
<1>8. PICK f, x, y : f = Fraction(t) /\ x = t \div Second /\ y = Zulu
  OBVIOUS
<1>9. f \in Seq(D) /\ x \in D /\ y \in D
  BY <1>5, <1>7, <1>8
<1>10. Len(<<x>> \o f \o <<y>>) \in Nat \ {0} /\ (<<x>> \o f \o <<y>>)[1] = x
  BY <1>9
<1> QED
  BY <1>8, <1>10 DEF formatTime

\* A text that is not after another begins with no later a second, and one
\* that begins with an earlier second is not after it.
LEMMA NotAfterIs ==
  ASSUME NEW t \in Nat, NEW c \in Nat
  PROVE  /\ NotAfter(formatTime(t), formatTime(c)) => t \div Second <= c \div Second
         /\ t \div Second < c \div Second => NotAfter(formatTime(t), formatTime(c))
<1>1. PICK a, b : a = formatTime(t) /\ b = formatTime(c)
  OBVIOUS
<1>2. /\ Len(a) \in Nat \ {0} /\ Len(b) \in Nat \ {0}
      /\ a[1] = t \div Second /\ b[1] = c \div Second
  BY <1>1, TimeIs
<1>3. t \div Second \in Nat /\ c \div Second \in Nat
  BY TimesAssumption DEF TimesAssumption
<1>4. ASSUME NotAfter(a, b) PROVE a[1] <= b[1]
  <2>1. CASE a = b
    BY <1>2, <1>3, <2>1
  <2>2. CASE Before(a, b)
    <3>1. PICK i \in 1 .. Len(a) : a[i] < b[i] /\ \A j \in 1 .. i - 1 : a[j] = b[j]
      BY <2>2 DEF Before
    <3>2. CASE i = 1
      BY <1>2, <1>3, <3>1, <3>2
    <3>3. CASE i # 1
      <4>1. 1 \in 1 .. i - 1
        BY <1>2, <3>1, <3>3
      <4> QED
        BY <1>2, <1>3, <3>1, <4>1
    <3> QED
      BY <3>2, <3>3
  <2> QED
    BY <1>4, <2>1, <2>2 DEF NotAfter
<1>5. ASSUME a[1] < b[1] PROVE NotAfter(a, b)
  <2>1. 1 \in 1 .. Len(a) /\ 1 <= Len(b) /\ \A j \in 1 .. 1 - 1 : a[j] = b[j]
    BY <1>2
  <2> QED
    BY <1>5, <2>1 DEF NotAfter, Before
<1> QED
  BY <1>1, <1>2, <1>4, <1>5

\* Seconds and times.
LEMMA SecondsAre ==
  ASSUME NEW s \in Nat \ {0}, NEW t \in Nat, NEW c \in Nat
  PROVE  /\ t \div s <= c \div s => t < c + s
         /\ t + s <= c => t \div s < c \div s
<1>1. PICK a, b, i, j : a = t \div s /\ b = c \div s /\ i = t % s /\ j = c % s
  OBVIOUS
<1>2. /\ a \in Nat /\ b \in Nat /\ i \in 0 .. s - 1 /\ j \in 0 .. s - 1
      /\ t = (s * a) + i /\ c = (s * b) + j
  BY <1>1
<1>3. ASSUME a <= b PROVE t < c + s
  <2>1. s * a <= s * b /\ s * a \in Nat /\ s * b \in Nat
    BY <1>2, <1>3
  <2> QED
    BY <1>2, <2>1
<1>4. ASSUME t + s <= c PROVE a < b
  <2> SUFFICES ASSUME b <= a PROVE FALSE
    BY <1>2
  <2>1. s * b <= s * a /\ s * a \in Nat /\ s * b \in Nat
    BY <1>2
  <2> QED
    BY <1>2, <1>4, <2>1
<1> QED
  BY <1>1, <1>3, <1>4

\* A Duration is a number of ticks, if not always that of the seconds.
LEMMA DurationIs == ASSUME NEW n \in Nat PROVE Duration(n) \in Int
<1>1. Second \in Nat \ {0} /\ Width \in Nat \ {0}
  BY TimesAssumption DEF TimesAssumption
<1>2. PICK d, h : d = n * Second /\ h = Width \div 2
  OBVIOUS
<1>3. (d + h) % Width \in Int /\ h \in Int
  BY <1>1, <1>2
<1> QED
  BY <1>2, <1>3 DEF Duration

\* The list of old orphans answers the rows that are as old as the Duration in
\* effect, give or take a second, for any times, configured seconds and rows,
\* those included whose Duration wraps around.  (formatTime, and the text that
\* ListUnreferencedBlocksOlderThan compares.)
THEOREM OrphansAreListedByAge == TimesSpec => SelectedByAge
<1>1. TimesInit => TimesInv
  BY TimesAssumption DEF TimesInit, TimesInv, TimesAssumption
<1>2. TimesInv /\ [TimesNext]_timeVars => TimesInv'
  BY DEF TimesInv, TimesNext, Pass, ListOld, StampRow, timeVars
<1>3. ASSUME TimesInv, [TimesNext]_timeVars, selected' # selected, NEW r \in Rows
      PROVE  /\ r \in selected'.rows => now - stamped[r] > Duration(seconds) - Second
             /\ now - stamped[r] >= Duration(seconds) + Second => r \in selected'.rows
  <2>1. /\ seconds \in Nat /\ now \in Nat /\ stamped[r] \in Nat /\ Second \in Nat \ {0}
    BY <1>3, TimesAssumption DEF TimesInv, TimesAssumption
  <2>2. ListOld
    BY <1>3 DEF TimesNext, Pass, StampRow, timeVars
  <2>3. PICK d : d = Duration(seconds)
    OBVIOUS
  <2>4. d \in Int
    BY <2>1, <2>3, DurationIs
  <2>5. Cutoff = now - d
    BY <2>3 DEF Cutoff
  <2>6. r \in selected'.rows <=>
          Cutoff >= 0 /\ NotAfter(formatTime(stamped[r]), formatTime(Cutoff))
    BY <2>2 DEF ListOld
  <2>8. ASSUME r \in selected'.rows PROVE now - stamped[r] > d - Second
    <3>1. Cutoff \in Nat
      BY <2>1, <2>4, <2>5, <2>6, <2>8
    <3>2. stamped[r] \div Second <= Cutoff \div Second
      BY <2>1, <2>6, <2>8, <3>1, NotAfterIs
    <3>3. stamped[r] < Cutoff + Second
      BY <2>1, <3>1, <3>2, SecondsAre
    <3> QED
      BY <2>1, <2>4, <2>5, <3>3
  <2>9. ASSUME now - stamped[r] >= d + Second PROVE r \in selected'.rows
    <3>1. Cutoff \in Nat /\ stamped[r] + Second <= Cutoff
      BY <2>1, <2>4, <2>5, <2>9
    <3>2. stamped[r] \div Second < Cutoff \div Second
      BY <2>1, <3>1, SecondsAre
    <3> QED
      BY <2>1, <2>6, <3>1, <3>2, NotAfterIs
  <2> QED
    BY <2>3, <2>8, <2>9
<1>4. TimesInv /\ [TimesNext]_timeVars =>
        (selected' # selected =>
           \A r \in Rows :
             LET age == now - stamped[r]
             IN  /\ r \in selected'.rows => age > Duration(seconds) - Second
                 /\ age >= Duration(seconds) + Second => r \in selected'.rows)
  BY <1>3
<1> QED
  BY <1>1, <1>2, <1>4, PTL DEF TimesSpec, SelectedByAge

=============================================================================
