------------------------------- MODULE MCValues -------------------------------
(* Instances of OmnmValues for TLC. *)
EXTENDS OmnmValues, TLC

CONSTANTS none, odd

\* Bytes of two bits.
MCHalf == [n \in {1, 2, 4, 8} |-> 2 ^ (2 * n - 1)]

\* With two bits to a byte: 1, 3 and -2 in eight bits and in sixteen.
MCFloatBits ==
    [t \in {"F32", "F64"} |->
        IF t = "F32" THEN 0 :> 0 @@ 1 :> 48 @@ 3 :> 72 @@ (-2) :> 192
        ELSE 0 :> 0 @@ 1 :> 16320 @@ 3 :> 16392 @@ (-2) :> 49152]

\* The numbers on both sides of the limits of every type.
MCNumbers ==
    UNION {{2 ^ n - 1, 2 ^ n, -(2 ^ n), -(2 ^ n) - 1} : n \in {0, 1, 2, 3, 4, 7, 8, 15}}
        \cup {65535}

MCTimes ==
    [secs : {0, 255}, micros : {0, 1, 999999}, prec : {0, 3}, hints : {0, 2}]

=============================================================================
