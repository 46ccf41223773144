--------------------------- MODULE MCReplayQueue ---------------------------
(* Instances of ReplayQueue for TLC. *)
EXTENDS ReplayQueue, TLC

CONSTANTS e1, r1, r2, w1, w2

OneEvent    == {e1}
OneReplay   == {r1}
TwoWorkers  == {w1, w2}
SameEvent   == [r \in Replays |-> e1]

Symmetry == Permutations(Workers) \cup Permutations(Replays)
=============================================================================
