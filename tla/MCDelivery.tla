----------------------------- MODULE MCDelivery -----------------------------
(* Instances of Delivery for TLC: two names, a public, a private and an    *)
(* IPv4-mapped private address.                                            *)
EXTENDS Delivery

CONSTANTS h1, h2, public, private, wrapped

TwoHosts   == {h1, h2}
ThreeIps   == {public, private, wrapped}
SpecialIps == {private}
Unwrap     == [ip \in Addresses |-> IF ip = wrapped THEN private ELSE ip]
Codes      == {200, 302, 404, 429, 500, 501}
=============================================================================
