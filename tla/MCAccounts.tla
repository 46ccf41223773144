---------------------------- MODULE MCAccounts ----------------------------
(* Instances of Accounts for TLC: the third user has the name of the second. *)
EXTENDS Accounts, TLC

CONSTANTS u1, u2, u3, s1, s2, c1, c2, old, new

ThreeUsers   == {u1, u2, u3}
TwoSessions  == {s1, s2}
TwoClients   == {c1, c2}
TwoPasswords == {old, new}
Names        == [u \in Users |-> IF u = u1 THEN "admin" ELSE "guest"]

Symmetry == Permutations(Clients) \cup Permutations(Sessions)
                \cup Permutations(Passwords)
=============================================================================
