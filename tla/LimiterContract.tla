--------------------------- MODULE LimiterContract ---------------------------
(***************************************************************************)
(* What a rate limiter promises: every key has a level that fills up       *)
(* steadily to the capacity and from which each granted request takes one  *)
(* unit.  A level exists for every key at every moment; nothing is ever    *)
(* forgotten except by a restart.                                          *)
(***************************************************************************)
EXTENDS Integers

CONSTANTS
    Keys,
    Capacity,  \* a full level
    Rate,      \* what a second adds
    Unit,      \* what a request takes
    NoAnswer

VARIABLES
    on,        \* whether requests are limited at all
    level,
    answer     \* to the latest request of this second: [key, ok]

Least(a, b) == IF a <= b THEN a ELSE b

Full == [k \in Keys |-> Capacity]

Init == on \in BOOLEAN /\ level = Full /\ answer = NoAnswer

Ask(k) ==
    /\ answer' = [key |-> k, ok |-> ~on \/ level[k] >= Unit]
    /\ level' = IF on /\ level[k] >= Unit
                THEN [level EXCEPT ![k] = @ - Unit] ELSE level
    /\ UNCHANGED on

Second ==
    /\ level' = [k \in Keys |-> Least(Capacity, level[k] + Rate)]
    /\ answer' = NoAnswer
    /\ UNCHANGED on

Restart == on' \in BOOLEAN /\ level' = Full /\ answer' = NoAnswer

Next == (\E k \in Keys : Ask(k)) \/ Second \/ Restart

Spec == Init /\ [][Next]_<<on, level, answer>>
=============================================================================
