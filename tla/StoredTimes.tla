----------------------------- MODULE StoredTimes -----------------------------
(***************************************************************************)
(* The ages a sweep goes by.  The SQLite store keeps times as text without *)
(* trailing zeros (formatTime, src/internal/metadata/sqlite.go) and        *)
(* compares the text; the orphan age comes from an environment variable in *)
(* seconds that become nanoseconds in a fixed width                        *)
(* (src/internal/config/config.go).                                        *)
(*                                                                         *)
(* Time is counted in ticks, of which Base ^ Places make a second; what    *)
(* comes before the fraction has a fixed width and is one letter here.     *)
(***************************************************************************)
EXTENDS Integers, Sequences

CONSTANTS
  Rows,          \* unreferenced blocks
  Base, Places,  \* the digits of a fraction of a second: 10 and 9
  EnvSeconds,    \* values of CHUNKGATE_GC_MIN_ORPHAN_AGE_SECONDS
  Width,         \* 2^64: a Duration wraps around
  MaxTime        \* bound on the clock

Second == Base ^ Places

ASSUME TimesAssumption ==
  /\ Base \in Nat \ {0, 1} /\ Places \in Nat \ {0} /\ MaxTime \in Nat
  /\ Second \in Nat \ {0}   \* a power; the provers know nothing of "^"
  /\ Width \in Nat \ {0} /\ EnvSeconds \subseteq Nat

VARIABLES
  seconds,   \* what the environment says
  now,
  stamped,   \* when each row was stamped last
  selected   \* the rows the last list has answered, and when

timeVars == <<seconds, now, stamped, selected>>

-----------------------------------------------------------------------------
(* envDurationSeconds                                                      *)
Duration(n) == ((n * Second + Width \div 2) % Width) - Width \div 2

Digit(t, i) == (t \div Base ^ (Places - i)) % Base

Point == -1
Zulu  == Base   \* "." comes before all digits and "Z" after them

(* The digits up to the last one that is not zero, after a point.          *)
Fraction(t) ==
  LET places == {i \in 1 .. Places : \E j \in i .. Places : Digit(t, j) # 0}
      length == IF places = {} THEN 0 ELSE CHOOSE i \in places : \A j \in places : j <= i
  IN  IF length = 0 THEN <<>> ELSE <<Point>> \o [i \in 1 .. length |-> Digit(t, i)]

formatSecondLast(t) == Fraction(t) \o <<t \div Second, Zulu>>

formatTime(t) == <<t \div Second>> \o Fraction(t) \o <<Zulu>>

(* How SQLite compares text.                                               *)
Before(a, b) ==
  \E i \in 1 .. Len(a) :
    /\ i <= Len(b) /\ a[i] < b[i]
    /\ \A j \in 1 .. i - 1 : a[j] = b[j]

NotAfter(a, b) == a = b \/ Before(a, b)

-----------------------------------------------------------------------------
(* Config.Validate refuses a negative age.                                 *)
TimesInit ==
  /\ seconds \in {n \in EnvSeconds : Duration(n) >= 0}
  /\ now \in 0 .. MaxTime
  /\ stamped = [r \in Rows |-> now]
  /\ selected = [rows |-> {}, at |-> now]

Pass ==
  /\ now < MaxTime
  /\ now' = now + 1
  /\ UNCHANGED <<seconds, stamped, selected>>

(* The last reference of a block goes away.                                *)
StampRow(r) ==
  /\ stamped' = [stamped EXCEPT ![r] = now]
  /\ UNCHANGED <<seconds, now, selected>>

(* Sweep: cutoff and ListUnreferencedBlocksOlderThan.  A cutoff before the *)
(* epoch of the model selects nothing.                                     *)
Cutoff == now - Duration(seconds)

ListOld ==
  /\ selected' = [rows |-> {r \in Rows : Cutoff >= 0
                              /\ NotAfter(formatTime(stamped[r]), formatTime(Cutoff))},
                  at |-> now]
  /\ UNCHANGED <<seconds, now, stamped>>

TimesNext == Pass \/ ListOld \/ \E r \in Rows : StampRow(r)

TimesSpec == TimesInit /\ [][TimesNext]_timeVars

-----------------------------------------------------------------------------
(* Properties. *)

\* A list answers a row only when it has been without references for the age
\* in effect, and answers it then, give or take the second within which the
\* text does not sort as the times do: whatever the environment says, whether
\* or not its number of seconds fits a Duration.
SelectedByAge ==
  [][selected' # selected =>
       \A r \in Rows :
         LET age == now - stamped[r]
         IN  /\ r \in selected'.rows => age > Duration(seconds) - Second
             /\ age >= Duration(seconds) + Second => r \in selected'.rows]_timeVars

=============================================================================
