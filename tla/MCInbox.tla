------------------------------ MODULE MCInbox ------------------------------
(* Instances of Inbox for TLC. *)
EXTENDS Inbox, TLC

CONSTANTS p1, p2, e1, e2, a1, a2, github, stripe, s1

OneEndpoint  == {p1}
OneEvent     == {e1}
OneAdmin     == {a1}
TwoAdmins    == {a1, a2}
TwoPaths     == {github, stripe}
OneSecret    == {s1}
SomeDays     == {1, 2}
DefaultDays  == {0, 1}
None         == {}

Signed == {[kind |-> "hmac", secret |-> s1, prefixed |-> TRUE]}

Doc(path, auth, secret, days) ==
    [path |-> path, on |-> TRUE, auth |-> auth, prefix |-> TRUE, secret |-> secret,
     days |-> days]

SomeDocs == {Doc(github, "none", s1, NoDays), Doc(github, "hmac", s1, 2)}

SomePatches == {[days |-> 1], [days |-> NoDays], [secret |-> NoSecret],
                [auth |-> "hmac", prefix |-> FALSE]}

Form(path, auth, secret, days) ==
    [path |-> path, on |-> TRUE, auth |-> auth, secret |-> secret, days |-> days]

SomeForms == {Form(github, "hmac", NoSecret, NoDays)}
HmacForm  == {Form(github, "hmac", NoSecret, 2)}

Symmetry == Permutations(Admins) \cup Permutations(Endpoints)
=============================================================================
