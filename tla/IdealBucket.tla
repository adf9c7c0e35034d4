---------------------------- MODULE IdealBucket ----------------------------
(***************************************************************************)
(* What a token bucket promises: store.Bucket, "Burst tokens, refilling at *)
(* Rate per second", with a level that is always there and refills as time *)
(* passes.  Fractions of a token are counted in units, Milli to the token, *)
(* so that one tick (a millisecond when Milli = 1000) adds Rate units.     *)
(* When the clock is set back the bucket may lose refill, and gains none   *)
(* until the clock has caught up.                                          *)
(***************************************************************************)
EXTENDS Integers

CONSTANTS Rate, Burst, Milli

VARIABLES
    level,   \* units in the bucket
    behind,  \* ticks the clock is behind the last call
    reply

Capacity == Burst * Milli

Init ==
    /\ level = Capacity
    /\ behind = 0
    /\ reply = [allowed |-> TRUE, remaining |-> Burst, retry |-> 0]

\* The advised wait is the least one after which a token is there.
IsWait(l, w) ==
    /\ l + w * Rate >= Milli
    /\ \A v \in 0..(w - 1) : l + v * Rate < Milli

Take ==
    /\ behind' = 0
    /\ \/ /\ level >= Milli
          /\ level' = level - Milli
          /\ reply' = [allowed |-> TRUE, remaining |-> level' \div Milli, retry |-> 0]
       \/ /\ level < Milli
          /\ UNCHANGED level
          /\ \E w \in 1..Milli :
                /\ IsWait(level, w)
                /\ reply' = [allowed |-> FALSE, remaining |-> 0, retry |-> w]

Tick ==
    /\ \/ /\ behind = 0
          /\ level' = IF level + Rate < Capacity THEN level + Rate ELSE Capacity
          /\ UNCHANGED behind
       \/ /\ behind > 0
          /\ behind' = behind - 1
          /\ UNCHANGED level
    /\ UNCHANGED reply

SetBack ==
    /\ level' <= level
    /\ behind' \in {behind, behind + 1}
    /\ UNCHANGED reply

Next == Take \/ Tick \/ SetBack

Spec == Init /\ [][Next]_<<level, behind, reply>>
=============================================================================
