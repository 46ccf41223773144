--------------------------- MODULE MCReplaySystem ---------------------------
(* An instance of ReplaySystem for TLC: one name, a public and an          *)
(* IPv4-mapped private address.                                            *)
EXTENDS ReplaySystem, TLC

CONSTANTS e1, r1, w1, w2, h1, public, wrapped

OneEvent   == {e1}
OneReplay  == {r1}
TwoWorkers == {w1, w2}
SameEvent  == [r \in Replays |-> e1]
OneHost    == {h1}
TwoIps     == {public, wrapped}
PublicOrNot == {{public}, {public, wrapped}}
Wrapped    == {wrapped}
Unwrap     == [ip \in Addresses |-> ip]
ToHost     == [r \in Replays |-> h1]
Codes      == {302, 404}

(* All but the history that, types apart, no guard and no checked property *)
(* reads: states that differ in nothing else have the same successors.     *)
Seen == <<clock, events, store, posted, wiping, locals, lost, faults, network>>
=============================================================================
